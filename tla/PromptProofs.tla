------------------------------ MODULE PromptProofs ------------------------------
(***************************************************************************)
(* Proofs about prompts and their histories, for any letters, files, loaded*)
(* lists, flags and bounds.                                                *)
(*                                                                         *)
(* Typed is the inductive invariant that the others rest on: the cursor is *)
(* in the answer while a prompt is up, no entry of a list is blank, and    *)
(* the places of a list are in it or just beyond its end.                  *)
(***************************************************************************)
EXTENDS Prompt, SequenceTheorems, FiniteSetTheorems, WellFoundedInduction, TLAPS

Line     == Seq(Chars \cup {Slash})
NonBlank == Line \ {<<>>}
Entries  == {s \in Seq(NonBlank) : Len(s) <= MaxHistory}
Kinds    == {"search", "with"}
Records  == [lines : Entries, position : Nat, marker : Nat, changed : BOOLEAN]
Lists    == {h \in Records : h.position <= Size(h) /\ h.marker <= Size(h)}

Typed ==
    /\ pc \in {"main", "prompt", "crashed"}
    /\ kind \in {"search", "replace", "with", "file", "none"}
    /\ answer \in Line /\ magic \in Line /\ last \in Line /\ backup \in Line
    /\ x \in Int /\ old = Uninitialized /\ complete \in Nat
    /\ lists \in [Kinds -> Lists] /\ disk \in [Kinds -> Entries]
    /\ Asked => kind # "none" /\ x \in 0..Len(answer)

-----------------------------------------------------------------------------
(* Least and greatest places.                                              *)

LEMMA LeastIn ==
  ASSUME NEW S, S \subseteq Nat, S # {}
  PROVE  Least(S) \in S /\ \A b \in S : Least(S) <= b
<1> DEFINE R == {p \in Nat \X Nat : p[1] < p[2]}
<1>1. IsWellFoundedOn(R, Nat)
  BY NatLessThanWellFounded DEF OpToRel
<1>2. \E a \in S : \A b \in S : <<b, a>> \notin R
  <2> HIDE DEF R
  <2> QED BY <1>1, WFMin
<1>3. PICK a \in S : \A b \in S : <<b, a>> \notin R
  BY <1>2
<1>4. \A b \in S : a <= b
  <2> TAKE b \in S
  <2>1. a \in Nat /\ b \in Nat
    OBVIOUS
  <2>2. ~(b < a)
    BY <2>1, <1>3
  <2> QED BY <2>1, <2>2
<1> QED BY <1>4 DEF Least

LEMMA GreatestIn ==
  ASSUME NEW n \in Nat, NEW S, S \subseteq 0..n, S # {}
  PROVE  Greatest(S) \in S /\ \A b \in S : b <= Greatest(S)
<1> DEFINE T == {n - a : a \in S}
<1>1. T \subseteq Nat /\ T # {}
  <2>1. \A a \in S : n - a \in Nat
    OBVIOUS
  <2> QED BY <2>1
<1>2. Least(T) \in T /\ \A u \in T : Least(T) <= u
  <2> HIDE DEF T
  <2> QED BY <1>1, LeastIn
<1>3. PICK a \in S : Least(T) = n - a
  BY <1>2
<1>4. \A b \in S : b <= a
  <2> TAKE b \in S
  <2>1. n - b \in T /\ a \in Int /\ b \in Int
    OBVIOUS
  <2>2. n - a <= n - b
    BY <1>2, <1>3, <2>1
  <2> HIDE DEF T
  <2> QED BY <2>1, <2>2
<1> QED BY <1>4 DEF Greatest

-----------------------------------------------------------------------------
(* Parts of sequences.                                                     *)

LEMMA FrontOf ==
  ASSUME NEW S, NEW s \in Seq(S), NEW i \in 0..Len(s)
  PROVE  /\ Front(s, i) \in Seq(S) /\ Len(Front(s, i)) = i
         /\ \A j \in 1..i : Front(s, i)[j] = s[j]
BY SubSeqProperties, LenProperties DEF Front

LEMMA RestOf ==
  ASSUME NEW S, NEW s \in Seq(S), NEW i \in 0..Len(s)
  PROVE  Rest(s, i) \in Seq(S) /\ Len(Rest(s, i)) = Len(s) - i
BY SubSeqProperties, LenProperties DEF Rest

-----------------------------------------------------------------------------
(* History::add.                                                           *)

\* The first entry erased: no entry is new, and one at most is gone.
LEMMA WithoutOne ==
  ASSUME NEW S, NEW lines \in Seq(S), NEW e
  PROVE  /\ WithoutEntry(lines, e) \in Seq(S)
         /\ Len(WithoutEntry(lines, e)) \in {Len(lines), Len(lines) - 1}
<1> DEFINE places == {i \in 1..Len(lines) : lines[i] = e}
           i == Least(places)
           a == SubSeq(lines, 1, i - 1)
           b == SubSeq(lines, i + 1, Len(lines))
<1>0. Len(lines) \in Nat
  OBVIOUS
<1>1. CASE places = {}
  BY <1>0, <1>1 DEF WithoutEntry
<1>2. CASE places # {}
  <2>1. i \in 1..Len(lines)
    <3>1. places \subseteq Nat /\ places \subseteq 1..Len(lines)
      OBVIOUS
    <3> HIDE DEF places
    <3> QED BY <1>2, <3>1, LeastIn
  <2>2. WithoutEntry(lines, e) = a \o b
    BY <1>2 DEF WithoutEntry
  <2> HIDE DEF places, i
  <2>3. a \in Seq(S) /\ Len(a) = i - 1
    BY <2>1, LenProperties, SubSeqProperties
  <2>4. b \in Seq(S) /\ Len(b) = Len(lines) - i
    BY <2>1, LenProperties, SubSeqProperties
  <2> HIDE DEF a, b
  <2>5. a \o b \in Seq(S) /\ Len(a \o b) = Len(a) + Len(b)
    BY <2>3, <2>4, ConcatProperties
  <2> QED BY <1>0, <2>1, <2>2, <2>3, <2>4, <2>5
<1> QED BY <1>1, <1>2

\* The new entry is the first, the list has changed, and it is not shorter than it was.
LEMMA AddFacts ==
  ASSUME NEW h \in Lists, NEW e \in NonBlank
  PROVE  /\ Add(h, e) \in Lists
         /\ Add(h, e).lines # <<>> /\ Add(h, e).lines[1] = e
         /\ Add(h, e).changed /\ Add(h, e).position = h.position
<1> DEFINE others == WithoutEntry(h.lines, e)
           kept == IF Len(others) + 1 > MaxHistory THEN Len(others) - 1 ELSE Len(others)
           rest == SubSeq(others, 1, kept)
           made == <<e>> \o rest
<1>1. /\ h.lines \in Seq(NonBlank) /\ Len(h.lines) \in 0..MaxHistory
      /\ h.position \in 0..Len(h.lines) /\ h.marker \in 0..Len(h.lines)
      /\ h = [lines |-> h.lines, position |-> h.position, marker |-> h.marker,
              changed |-> h.changed]
      /\ MaxHistory \in Nat \ {0} /\ Len(h.lines) \in Nat
  BY HistoryAssumption DEF Lists, Records, Entries, Size
<1>2. others \in Seq(NonBlank) /\ Len(others) \in {Len(h.lines), Len(h.lines) - 1}
      /\ Len(others) \in Nat
  BY <1>1, WithoutOne, LenProperties
<1>3. Add(h, e) = [h EXCEPT !.lines = made, !.changed = TRUE]
  BY DEF Add
<1> HIDE DEF others
<1>4. kept \in 0..Len(others) /\ kept + 1 <= MaxHistory /\ kept + 1 >= Len(h.lines)
  BY <1>1, <1>2
<1> HIDE DEF kept
<1>5. rest \in Seq(NonBlank) /\ Len(rest) = kept
  BY <1>2, <1>4, LenProperties, SubSeqProperties
<1> HIDE DEF rest
<1>6. <<e>> \in Seq(NonBlank) /\ Len(<<e>>) = 1 /\ <<e>>[1] = e
  OBVIOUS
<1>7. made \in Seq(NonBlank) /\ Len(made) = kept + 1 /\ made[1] = e
  BY <1>4, <1>5, <1>6, ConcatProperties, Z3
<1> HIDE DEF made
<1>8. made \in Entries /\ made # <<>>
  BY <1>4, <1>7 DEF Entries
<1>9. Add(h, e) = [lines |-> made, position |-> h.position, marker |-> h.marker, changed |-> TRUE]
  BY <1>1, <1>3
<1>10. h.position \in Nat /\ h.marker \in Nat /\ h.position <= Len(made) /\ h.marker <= Len(made)
  BY <1>1, <1>4, <1>7
<1> QED BY <1>7, <1>8, <1>9, <1>10 DEF Lists, Records, Size

LEMMA LoadedFacts ==
  ASSUME NEW s \in Entries
  PROVE  Loaded(s) \in Lists /\ Loaded(s).lines = s /\ ~Loaded(s).changed
<1>1. Len(s) \in Nat
  BY DEF Entries
<1> QED BY <1>1 DEF Loaded, Lists, Records, Size
LEMMA LoadedLists ==
  ASSUME NEW saved \in [Kinds -> Entries], NEW ls, NEW l, LoadHistory(saved, ls, l)
  PROVE  /\ ls \in [Kinds -> Lists] /\ l \in Line
         /\ \A k \in Kinds : ls[k].lines = saved[k] /\ ~ls[k].changed
<1>1. ls = [k \in Kinds |-> Loaded(saved[k])]
  BY DEF LoadHistory
<1>2. \A k \in Kinds : Loaded(saved[k]) \in Lists /\ Loaded(saved[k]).lines = saved[k]
                          /\ ~Loaded(saved[k]).changed
  BY LoadedFacts
<1>3. l \in Line
  <2>1. saved.search \in Seq(NonBlank)
    BY DEF Kinds, Entries
  <2>2. saved.search # <<>> => saved.search[1] \in Line
    BY <2>1, ElementOfSeq, EmptySeq DEF NonBlank
  <2>3. <<>> \in Line
    BY DEF Line
  <2> QED BY <2>2, <2>3 DEF LoadHistory
<1> QED BY <1>1, <1>2, <1>3

-----------------------------------------------------------------------------
(* Types.                                                                  *)

LEMMA InitTyped == Init => Typed
<1> SUFFICES ASSUME Init PROVE Typed
  OBVIOUS
<1>1. <<>> \in Line /\ Chars \cup {Slash} # {}
  BY DEF Line
<1>2. PICK lines \in Histories :
        /\ disk = [search |-> lines, with |-> <<>>]
        /\ LoadHistory(disk, lists, last)
  BY DEF Init
<1>3. lines \in Seq(Seq(Chars) \ {<<>>}) /\ Len(lines) <= MaxHistory
  BY PromptAssumption
<1>4. Seq(Chars) \ {<<>>} \subseteq NonBlank
  <2> SUFFICES ASSUME NEW s \in Seq(Chars) PROVE s \in Line
    BY DEF NonBlank
  <2> QED BY SeqMonotonic DEF Line
<1>5. lines \in Seq(NonBlank)
  BY <1>3, <1>4, SeqMonotonic
<1>6. lines \in Entries /\ <<>> \in Entries
  BY <1>3, <1>5, HistoryAssumption DEF Entries
<1>7. disk \in [Kinds -> Entries]
  BY <1>2, <1>6 DEF Kinds
<1>8. lists \in [Kinds -> Lists] /\ last \in Line
  BY <1>1, <1>2, <1>7, LoadedLists
<1> QED BY <1>1, <1>7, <1>8 DEF Init, Typed, Asked, Uninitialized

-----------------------------------------------------------------------------
(* Editing the answer.                                                     *)

LEMMA EditTyped ==
  ASSUME Typed, NEW a \in Line, NEW i \in 0..Len(a), EditKey(a, i)
  PROVE  Typed'
BY DEF Typed, EditKey, Asked, Line

LEMMA Cursor ==
  ASSUME Typed, Asked
  PROVE  answer \in Line /\ Len(answer) \in Nat /\ x \in 0..Len(answer)
BY DEF Typed, Line

LEMMA OutputTyped == ASSUME Typed, NEW c \in Chars, Output(c) PROVE Typed'
<1>1. answer \in Line /\ Len(answer) \in Nat /\ x \in 0..Len(answer)
  BY Cursor DEF Output, EditKey
<1>2. Append(answer, c) \in Line /\ Len(Append(answer, c)) = Len(answer) + 1
  BY <1>1 DEF Line
<1>3. x + 1 \in 0..Len(Append(answer, c))
  BY <1>1, <1>2
<1> QED BY <1>2, <1>3, EditTyped DEF Output

LEMMA MoveTyped == ASSUME Typed, Left \/ Right \/ End PROVE Typed'
<1>1. answer \in Line /\ Len(answer) \in Nat /\ x \in 0..Len(answer)
  BY Cursor DEF Left, Right, End, EditKey
<1>2. /\ (IF x > 0 THEN x - 1 ELSE x) \in 0..Len(answer)
      /\ (IF x < Len(answer) THEN x + 1 ELSE x) \in 0..Len(answer)
      /\ Len(answer) \in 0..Len(answer)
  BY <1>1
<1> QED BY <1>1, <1>2, EditTyped DEF Left, Right, End

LEMMA HomeTyped == ASSUME Typed, Home PROVE Typed'
<1>1. answer \in Line /\ Len(answer) \in Nat /\ x \in 0..Len(answer)
  BY Cursor DEF Home, EditKey
<1> DEFINE S == {i \in 0..Len(answer) : i = Len(answer) \/ CharAt(answer, i) # Blank}
<1>2. Least(S) \in 0..Len(answer)
  <2>1. S \subseteq Nat /\ S \subseteq 0..Len(answer) /\ Len(answer) \in S
    BY <1>1
  <2> HIDE DEF S
  <2> QED BY <2>1, LeastIn
<1>3. HomePlace \in 0..Len(answer)
  <2> HIDE DEF S
  <2>1. IndentLength(answer) = Least(S)
    BY DEF IndentLength, S
  <2> QED BY <1>1, <1>2, <2>1 DEF HomePlace
<1> QED BY <1>1, <1>3, EditTyped DEF Home

LEMMA NextWordTyped == ASSUME Typed, NextWord PROVE Typed'
<1>1. answer \in Line /\ Len(answer) \in Nat /\ x \in 0..Len(answer)
  BY Cursor DEF NextWord, EditKey
<1> DEFINE n == Len(answer)
           S == {j \in x..n : ~WordAt(answer, j)}
           T == {j \in Least(S) + 1..n : WordAt(answer, j) \/ j = n}
<1>2. Least(S) \in 0..n
  <2>1. S \subseteq Nat /\ S \subseteq 0..n /\ n \in S
    BY <1>1 DEF WordAt
  <2> HIDE DEF S, n
  <2> QED BY <2>1, LeastIn
<1>3. ASSUME T # {} PROVE Least(T) \in 0..n
  <2> HIDE DEF S
  <2>1. T \subseteq Nat /\ T \subseteq 0..n
    BY <1>1, <1>2
  <2> HIDE DEF T, n
  <2> QED BY <1>3, <2>1, LeastIn
<1>4. NextWordFrom(answer, x) = IF T = {} THEN n ELSE Least(T)
  BY DEF NextWordFrom
<1>5. NextWordFrom(answer, x) \in 0..Len(answer)
  <2> HIDE DEF S, T
  <2> QED BY <1>1, <1>3, <1>4
<1> QED BY <1>1, <1>5, EditTyped DEF NextWord

LEMMA PrevWordTyped == ASSUME Typed, PrevWord PROVE Typed'
<1>1. answer \in Line /\ Len(answer) \in Nat /\ x \in 0..Len(answer)
  BY Cursor DEF PrevWord, EditKey
<1> DEFINE gaps(j)  == {k \in 0..j : ~WordAt(answer, k)}
           words(j) == {k \in 0..j : WordAt(answer, k)}
           before == Greatest(gaps(x))
           end    == Greatest(words(before - 1))
<1>2. ASSUME NEW j \in -1..Len(answer)
      PROVE  /\ gaps(j) # {} => Greatest(gaps(j)) \in 0..j
             /\ words(j) # {} => Greatest(words(j)) \in 0..j
  <2>1. CASE j = -1
    BY <2>1
  <2>2. CASE j # -1
    <3>1. j \in Nat
      BY <1>1, <1>2, <2>2
    <3>2. gaps(j) \subseteq 0..j /\ words(j) \subseteq 0..j
      OBVIOUS
    <3> HIDE DEF gaps, words
    <3> QED BY <3>1, <3>2, GreatestIn
  <2> QED BY <2>1, <2>2
<1>3. PrevWordFrom(answer, x) =
        IF gaps(x) = {} \/ words(before - 1) = {} \/ gaps(end - 1) = {} THEN 0
        ELSE Greatest(gaps(end - 1)) + 1
  BY DEF PrevWordFrom
<1> HIDE DEF gaps, words
<1>4. PrevWordFrom(answer, x) \in 0..Len(answer)
  <2>1. CASE gaps(x) = {} \/ words(before - 1) = {} \/ gaps(end - 1) = {}
    <3> HIDE DEF before, end
    <3> QED BY <1>1, <1>3, <2>1
  <2>2. CASE gaps(x) # {} /\ words(before - 1) # {} /\ gaps(end - 1) # {}
    <3>1. before \in 0..x
      BY <1>1, <1>2, <2>2
    <3> HIDE DEF before
    <3>2. end \in 0..before - 1
      BY <1>1, <1>2, <2>2, <3>1
    <3> HIDE DEF end
    <3>3. Greatest(gaps(end - 1)) \in 0..end - 1
      BY <1>1, <1>2, <2>2, <3>1, <3>2
    <3>4. Greatest(gaps(end - 1)) + 1 \in 0..Len(answer)
      BY <1>1, <3>1, <3>2, <3>3
    <3> QED BY <1>3, <2>2, <3>4
  <2> QED BY <2>1, <2>2
<1> QED BY <1>1, <1>4, EditTyped DEF PrevWord

LEMMA DeleteTyped == ASSUME Typed, Delete \/ Backspace \/ CutText PROVE Typed'
<1>1. answer \in Line /\ Len(answer) \in Nat /\ x \in 0..Len(answer)
  BY Cursor DEF Delete, Backspace, CutText, EditKey
<1>2. ASSUME NEW i \in 0..Len(answer), NEW j \in 0..Len(answer), i <= j
      PROVE  /\ Front(answer, i) \in Line /\ Len(Front(answer, i)) = i
             /\ Front(answer, i) \o Rest(answer, j) \in Line
             /\ i \in 0..Len(Front(answer, i) \o Rest(answer, j))
  <2>1. Front(answer, i) \in Line /\ Len(Front(answer, i)) = i
    BY <1>1, FrontOf DEF Line
  <2>2. Rest(answer, j) \in Line /\ Len(Rest(answer, j)) = Len(answer) - j
    BY <1>1, RestOf DEF Line
  <2>3. /\ Front(answer, i) \o Rest(answer, j) \in Line
        /\ Len(Front(answer, i) \o Rest(answer, j)) = i + (Len(answer) - j)
    BY <2>1, <2>2, ConcatProperties DEF Line
  <2> QED BY <1>1, <2>1, <2>3
<1>3. CASE Delete
  <2>1. CASE x < Len(answer)
    <3>1. x + 1 \in 0..Len(answer) /\ x <= x + 1
      BY <1>1, <2>1
    <3>2. EditKey(Front(answer, x) \o Rest(answer, x + 1), x)
      BY <1>3, <2>1 DEF Delete
    <3> QED BY <1>1, <1>2, <3>1, <3>2, EditTyped
  <2>2. CASE ~(x < Len(answer))
    BY <1>1, <1>3, <2>2, EditTyped DEF Delete
  <2> QED BY <2>1, <2>2
<1>4. CASE Backspace
  <2>1. CASE x = 0
    BY <1>1, <1>4, <2>1, EditTyped DEF Backspace
  <2>2. CASE x # 0
    <3>1. x - 1 \in 0..Len(answer) /\ x - 1 <= x
      BY <1>1, <2>2
    <3>2. EditKey(Front(answer, x - 1) \o Rest(answer, x), x - 1)
      BY <1>4, <2>2 DEF Backspace
    <3> QED BY <1>1, <1>2, <3>1, <3>2, EditTyped
  <2> QED BY <2>1, <2>2
<1>5. CASE CutText
  <2>1. CASE "CUT_TO_END" \in flags
    <3>1. EditKey(Front(answer, x), x) /\ x <= x
      BY <1>1, <1>5, <2>1 DEF CutText
    <3>2. Front(answer, x) \in Line /\ x \in 0..Len(Front(answer, x))
      BY <1>1, <1>2, <3>1
    <3> QED BY <3>1, <3>2, EditTyped
  <2>2. CASE "CUT_TO_END" \notin flags
    <3>1. EditKey(<<>>, 0) /\ <<>> \in Line /\ 0 \in 0..Len(<<>>)
      BY <1>5, <2>2 DEF CutText, Line
    <3> QED BY <3>1, EditTyped
  <2> QED BY <2>1, <2>2
<1> QED BY <1>3, <1>4, <1>5

LEMMA EditAnswerTyped == ASSUME Typed, EditAnswer PROVE Typed'
BY OutputTyped, MoveTyped, HomeTyped, NextWordTyped, PrevWordTyped, DeleteTyped
   DEF EditAnswer

-----------------------------------------------------------------------------
(* Prompts and runs.                                                       *)

LEMMA BlankLine == <<>> \in Line /\ <<>> \in Seq(Line)
BY DEF Line

LEMMA PutUpTyped ==
  ASSUME Typed, NEW k \in {"search", "replace", "with", "file"}, NEW given \in Line,
         PutUp(k, given, old), old' = old, last' \in Line, backup' \in Line,
         lists' \in [Kinds -> Lists], disk' = disk
  PROVE  Typed'
<1>1. Len(given) \in 0..Len(given)
  BY DEF Line
<1> QED BY <1>1, BlankLine DEF PutUp, Typed, Asked, Uninitialized

LEMMA TakeDownTyped ==
  ASSUME Typed, TakeDown, last' \in Line, backup' \in Line, lists' \in [Kinds -> Lists]
  PROVE  Typed'
BY BlankLine DEF TakeDown, Typed, Asked, Uninitialized

LEMMA AskTyped ==
  ASSUME Typed, NEW k \in {"search", "replace", "file"}, Ask(k) PROVE Typed'
<1>1. (IF k = "file" THEN <<>> ELSE backup) \in Line
  BY BlankLine DEF Typed
<1>2. old' = old /\ PutUp(k, IF k = "file" THEN <<>> ELSE backup, old)
  BY DEF Ask, Typed
<1>3. last' \in Line /\ backup' \in Line /\ lists' \in [Kinds -> Lists] /\ disk' = disk
  BY DEF Ask, Typed
<1> QED BY <1>1, <1>2, <1>3, PutUpTyped

\* What Enter and EnterReplace do with the lists: at most one gets one entry.
LEMMA ListsGrown ==
  ASSUME lists \in [Kinds -> Lists], NEW k \in Kinds, NEW e \in NonBlank
  PROVE  /\ [lists EXCEPT ![k] = Add(@, e)] \in [Kinds -> Lists]
         /\ [lists EXCEPT ![k] = Add(@, e)][k] = Add(lists[k], e)
         /\ \A j \in Kinds \ {k} : [lists EXCEPT ![k] = Add(@, e)][j] = lists[j]
<1>1. Add(lists[k], e) \in Lists
  BY AddFacts
<1> QED BY <1>1

LEMMA EnterTyped == ASSUME Typed, Enter PROVE Typed'
<1> DEFINE entry == IF kind = "search" /\ answer = <<>> THEN last ELSE answer
<1>1. entry \in Line /\ backup' \in Line
  BY BlankLine DEF Typed, Enter
<1>2. last' \in Line
  BY <1>1 DEF Typed, Enter
<1>3. lists' \in [Kinds -> Lists]
  <2>1. CASE kind \in {"search", "with"} /\ entry # <<>>
    <3>1. lists' = [lists EXCEPT ![kind] = Add(@, entry)]
      BY <2>1 DEF Enter
    <3>2. entry \in NonBlank /\ kind \in Kinds
      BY <1>1, <2>1 DEF NonBlank, Kinds
    <3> QED BY <3>1, <3>2, ListsGrown DEF Typed
  <2>2. CASE ~(kind \in {"search", "with"} /\ entry # <<>>)
    BY <2>2 DEF Enter, Typed
  <2> QED BY <2>1, <2>2
<1> QED BY <1>1, <1>2, <1>3, TakeDownTyped DEF Enter

LEMMA EnterReplaceTyped == ASSUME Typed, EnterReplace PROVE Typed'
<1>1. lists' \in [Kinds -> Lists]
  <2>1. CASE answer # <<>>
    <3>1. lists' = [lists EXCEPT !["search"] = Add(@, answer)]
      BY <2>1 DEF EnterReplace
    <3>2. answer \in NonBlank /\ "search" \in Kinds
      BY <2>1 DEF NonBlank, Kinds, Typed
    <3> QED BY <3>1, <3>2, ListsGrown DEF Typed
  <2>2. CASE answer = <<>>
    BY <2>2 DEF EnterReplace, Typed
  <2> QED BY <2>1, <2>2
<1>2. last' \in Line /\ backup' \in Line
  BY BlankLine DEF EnterReplace, Typed
<1>3. PutUp("with", <<>>, old) /\ old' = old /\ disk' = disk
  BY DEF EnterReplace
<1> QED BY <1>1, <1>2, <1>3, BlankLine, PutUpTyped

LEMMA ToggleTyped ==
  ASSUME Typed, NEW k \in {"search", "replace"}, Toggle(k) PROVE Typed'
<1>1. answer \in Line /\ last' \in Line /\ backup' \in Line /\ lists' \in [Kinds -> Lists]
  BY DEF Toggle, Typed
<1>2. PutUp(k, answer, old) /\ old' = old /\ disk' = disk
  BY DEF Toggle
<1> QED BY <1>1, <1>2, PutUpTyped

LEMMA LeaveTyped == ASSUME Typed, Cancel \/ Resize PROVE Typed'
<1>1. TakeDown /\ last' \in Line /\ backup' \in Line /\ lists' \in [Kinds -> Lists]
  BY BlankLine DEF Cancel, Resize, Typed
<1> QED BY <1>1, TakeDownTyped

LEMMA StartedTyped ==
  ASSUME Typed, StartedAgain, disk' \in [Kinds -> Entries] PROVE Typed'
<1>1. lists' \in [Kinds -> Lists] /\ last' \in Line
  BY LoadedLists DEF StartedAgain
<1> QED BY <1>1, BlankLine DEF StartedAgain, Typed, Asked, Uninitialized

LEMMA QuitTyped == ASSUME Typed, Quit \/ Die PROVE Typed'
<1>1. StartedAgain
  BY DEF Quit, Die
<1>2. [k \in DOMAIN lists |-> lists[k].lines] \in [Kinds -> Entries]
  BY DEF Typed, Lists, Records
<1>3. disk' \in [Kinds -> Entries]
  BY <1>2 DEF Quit, Die, Typed
<1> QED BY <1>1, <1>3, StartedTyped

-----------------------------------------------------------------------------
(* Walking and completing.                                                 *)

LEMMA ListOfKind == ListOf \in Kinds
BY DEF ListOf, Kinds

LEMMA HistoryFacts ==
  ASSUME Typed
  PROVE  /\ history \in Lists /\ Len(history.lines) \in Nat
         /\ history.position \in 0..Len(history.lines)
         /\ \A i \in 0..Len(history.lines) - 1 : Entry(history, i) \in NonBlank
<1>1. history \in Lists
  BY ListOfKind DEF Typed, history
<1>2. history.lines \in Seq(NonBlank) /\ history.position \in Nat
      /\ history.position <= Len(history.lines)
  BY <1>1 DEF Lists, Records, Entries, Size
<1>3. Len(history.lines) \in Nat
  BY <1>2, LenProperties
<1>4. ASSUME NEW i \in 0..Len(history.lines) - 1 PROVE Entry(history, i) \in NonBlank
  <2>1. i + 1 \in 1..Len(history.lines)
    BY <1>3
  <2> QED BY <1>2, <2>1, ElementOfSeq DEF Entry
<1> QED BY <1>1, <1>2, <1>3, <1>4

LEMMA PlacesMoved ==
  ASSUME lists \in [Kinds -> Lists], NEW k \in Kinds, NEW i \in 0..Len(lists[k].lines)
  PROVE  /\ [lists EXCEPT ![k].position = i] \in [Kinds -> Lists]
         /\ [lists EXCEPT ![k].marker = i] \in [Kinds -> Lists]
<1> DEFINE h == lists[k]
<1>1. /\ h.lines \in Entries /\ h.position \in Nat /\ h.marker \in Nat /\ h.changed \in BOOLEAN
      /\ h.position <= Len(h.lines) /\ h.marker <= Len(h.lines) /\ Len(h.lines) \in Nat
      /\ h = [lines |-> h.lines, position |-> h.position, marker |-> h.marker,
              changed |-> h.changed]
  BY DEF Lists, Records, Entries, Size
<1>2. /\ [h EXCEPT !.position = i] = [lines |-> h.lines, position |-> i, marker |-> h.marker,
                                      changed |-> h.changed]
      /\ [h EXCEPT !.marker = i] = [lines |-> h.lines, position |-> h.position, marker |-> i,
                                    changed |-> h.changed]
  BY <1>1
<1>3. [h EXCEPT !.position = i] \in Lists /\ [h EXCEPT !.marker = i] \in Lists
  BY <1>1, <1>2 DEF Lists, Records, Size
<1> QED BY <1>3

LEMMA WalkTyped ==
  ASSUME Typed, Asked, NEW k, NEW place \in 0..Len(history.lines), NEW shown \in Line,
         NEW i \in 0..Len(shown), Walk(k, place, shown, i), magic' \in Line
  PROVE  Typed'
<1>1. lists' \in [Kinds -> Lists]
  BY PlacesMoved, ListOfKind DEF Walk, Typed, history
<1>2. i \in Int /\ pc' = "prompt" /\ kind' # "none"
  BY DEF Walk, Line, Asked, Typed
<1> QED BY <1>1, <1>2 DEF Walk, Typed, Asked

LEMMA CrashTyped == ASSUME Typed, Crash PROVE Typed'
BY DEF Typed, Crash, Asked

LEMMA OlderTyped == ASSUME Typed, Older PROVE Typed'
<1>1. Asked /\ answer \in Line /\ x \in 0..Len(answer) /\ magic \in Line
  BY DEF Older, Typed
<1>2. CASE OlderEnds(history)
  BY <1>2, CrashTyped DEF Older
<1>3. CASE ~OlderEnds(history) /\ NoOlder(history)
  <2>1. Walk("older", history.position, answer, x) /\ magic' \in Line
    BY <1>1, <1>3 DEF Older, Magic
  <2> QED BY <1>1, <2>1, WalkTyped, HistoryFacts
<1>4. CASE ~OlderEnds(history) /\ ~NoOlder(history)
  <2> DEFINE place == history.position + 1
             shown == Entry(history, place)
  <2>1. Walk("older", place, shown, Len(shown)) /\ magic' \in Line
    BY <1>1, <1>4 DEF Older, Magic, Show
  <2>2. place \in 0..Len(history.lines) - 1
    BY <1>4, HistoryFacts DEF OlderEnds, NoOlder, Size
  <2>3. place \in 0..Len(history.lines) /\ shown \in Line
    BY <2>2, HistoryFacts DEF NonBlank
  <2> HIDE DEF place, shown
  <2>4. Len(shown) \in 0..Len(shown)
    BY <2>3 DEF Line
  <2> QED BY <1>1, <2>1, <2>3, <2>4, WalkTyped
<1> QED BY <1>2, <1>3, <1>4

LEMMA NewerTyped == ASSUME Typed, Newer PROVE Typed'
<1> DEFINE place == IF AtNewest(history) THEN 0 ELSE history.position - 1
           shown == IF AtNewest(history) THEN answer ELSE Entry(history, place)
<1>1. Asked /\ answer \in Line /\ x \in 0..Len(answer) /\ magic \in Line /\ magic' = magic
  BY DEF Newer, Typed
<1>2. place \in 0..Len(history.lines)
      /\ (~AtNewest(history) => place \in 0..Len(history.lines) - 1)
  BY HistoryFacts DEF AtNewest
<1>3. shown \in Line
  BY <1>1, <1>2, HistoryFacts DEF NonBlank
<1>4. \/ Walk("newer", place, magic, Len(magic))
      \/ Walk("newer", place, answer, x)
      \/ Walk("newer", place, shown, Len(shown))
  BY DEF Newer, Show
<1> HIDE DEF place, shown
<1>5. Len(shown) \in 0..Len(shown) /\ Len(magic) \in 0..Len(magic)
  BY <1>1, <1>3 DEF Line
<1> QED BY <1>1, <1>2, <1>3, <1>4, <1>5, WalkTyped

\* History::find finds an entry.
LEMMA FoundFacts ==
  ASSUME Typed, NEW s, NEW n, Hits(history, s, n) # {}
  PROVE  Found(history, s, n) \in Hits(history, s, n)
         /\ Hits(history, s, n) \subseteq 0..Len(history.lines) - 1
<1> DEFINE hits == Hits(history, s, n)
           ahead == {i \in hits : i >= history.marker}
<1>1. hits \subseteq 0..Len(history.lines) - 1
  BY DEF Hits, Size
<1>2. hits \subseteq Nat /\ ahead \subseteq hits
  BY <1>1, HistoryFacts
<1>3. Found(history, s, n) = Least(IF ahead # {} THEN ahead ELSE hits)
  BY DEF Found
<1> HIDE DEF hits, ahead
<1>4. Least(IF ahead # {} THEN ahead ELSE hits) \in hits
  BY <1>2, LeastIn DEF hits
<1> QED BY <1>1, <1>3, <1>4 DEF hits

LEMMA TabSearchTyped == ASSUME Typed, TabSearch PROVE Typed'
<1>1. Asked /\ answer \in Line /\ Len(answer) \in Nat /\ x \in 0..Len(answer) /\ complete \in Nat
  BY Cursor DEF TabSearch, Typed
<1>2. CASE key = "none"
  BY <1>2, CrashTyped DEF TabSearch
<1>3. CASE key # "none"
  <2> DEFINE hits == Hits(history, answer, complete')
             i == Found(history, answer, complete')
  <2>1. complete' \in Nat
    BY <1>1, <1>3 DEF TabSearch
  <2>2. answer' \in Line /\ lists' \in [Kinds -> Lists] /\ (complete' = 0 => answer' = answer)
    <3>1. CASE complete' > 0 /\ answer # <<>> /\ hits # {}
      <4>1. answer' = Entry(history, i) /\ lists' = [lists EXCEPT ![ListOf].marker = i]
        BY <1>3, <3>1 DEF TabSearch
      <4>2. i \in 0..Len(history.lines) - 1
        BY <3>1, FoundFacts
      <4> HIDE DEF i, hits
      <4>3. i \in 0..Len(history.lines) /\ Entry(history, i) \in Line
        BY <4>2, HistoryFacts DEF NonBlank
      <4>4. lists' \in [Kinds -> Lists]
        BY <4>1, <4>3, PlacesMoved, ListOfKind DEF Typed, history
      <4> QED BY <3>1, <4>1, <4>3, <4>4
    <3>2. CASE ~(complete' > 0 /\ answer # <<>> /\ hits # {})
      <4>1. UNCHANGED <<answer, lists>>
        BY <1>3, <3>2 DEF TabSearch
      <4> QED BY <4>1 DEF Typed
    <3> QED BY <3>1, <3>2
  <2>3. x' = IF complete' > 0 THEN Len(answer') ELSE x
    BY <1>3 DEF TabSearch
  <2>4. Len(answer') \in Nat
    BY <2>2 DEF Line
  <2>5. x' \in 0..Len(answer') /\ x' \in Int
    BY <1>1, <2>1, <2>2, <2>3, <2>4
  <2>6. UNCHANGED <<pc, kind, old, magic, last, backup, disk>>
    BY <1>3 DEF TabSearch
  <2> QED BY <2>1, <2>2, <2>5, <2>6 DEF Typed, Asked
<1> QED BY <1>2, <1>3

-----------------------------------------------------------------------------
(* The names of files.                                                     *)

LEMMA FilesFacts == Files \subseteq Seq(Chars) /\ IsFiniteSet(Files) /\ Slash \notin Chars
                    /\ Dirs \subseteq Files
BY PromptAssumption

LEMMA Listed ==
  ASSUME NEW M, M \subseteq Files, M # {}, NEW names \in Listings(M)
  PROVE  /\ DOMAIN names = 1..Cardinality(M) /\ Cardinality(M) \in Nat \ {0}
         /\ \A i \in DOMAIN names : names[i] \in M /\ names[i] \in Seq(Chars)
         /\ \A m \in M : \E i \in DOMAIN names : names[i] = m
         /\ Len(names[1]) \in Nat
<1>1. IsFiniteSet(M) /\ Cardinality(M) \in Nat
  BY FilesFacts, FS_Subset, FS_CardinalityType
<1>2. /\ DOMAIN names = 1..Cardinality(M)
      /\ \A i \in DOMAIN names : names[i] \in M /\ names[i] \in Seq(Chars)
      /\ \A m \in M : \E i \in DOMAIN names : names[i] = m
  BY FilesFacts DEF Listings
<1>3. Cardinality(M) # 0 /\ 1 \in DOMAIN names
  BY <1>1, <1>2
<1> QED BY <1>1, <1>2, <1>3, LenProperties

\* The loop comes to an end, whatever it measures on the way: it takes a place at the end
\* of the first name or behind it, and so there is a first place where it stops.
Stops(names, i) == Differs(names, i) \/ i >= Len(names[1])
LEMMA LoopEnds ==
  ASSUME NEW M, M \subseteq Files, M # {}, NEW names \in Listings(M),
         answer \in Line, NEW places \in Places(names[1])
  PROVE  /\ CommonLen(names, places) \in Nat /\ CommonLen(names, places) \in places
         /\ Stops(names, CommonLen(names, places))
         /\ \A i \in places : Stops(names, i) => CommonLen(names, places) <= i
<1> DEFINE end == Len(names[1])
           S == {i \in places : Stops(names, i)}
<1>1. end \in Nat /\ Len(answer) \in Nat
  BY Listed, LenProperties DEF Line
<1>2. places \subseteq 0..end + 4 /\ \E i \in places : i >= end
  <2>1. CASE "bytes" \in Avoided
    <3>1. places = 0..end
      BY <2>1 DEF Places
    <3> HIDE DEF end
    <3> QED BY <1>1, <3>1
  <2>2. CASE "bytes" \notin Avoided
    <3>1. places \subseteq 0..end + 4 /\ 0..Len(answer) + 1 \subseteq places
          /\ \A i \in places : i < end => places \cap (i + 1..i + 4) # {}
      BY <2>2 DEF Places
    <3> HIDE DEF end
    <3>2. places # {} /\ end + 4 \in Nat
      BY <1>1, <3>1
    <3>3. Greatest(places) \in places /\ \A i \in places : i <= Greatest(places)
      BY <3>1, <3>2, GreatestIn
    <3> DEFINE g == Greatest(places)
    <3>4. g \in 0..end + 4
      BY <3>1, <3>3
    <3> HIDE DEF g
    <3>5. ~(g < end)
      <4> SUFFICES ASSUME g < end PROVE FALSE
        OBVIOUS
      <4>1. PICK i \in places : i \in g + 1..g + 4
        BY <3>1, <3>3 DEF g
      <4>2. i <= g /\ i > g
        BY <3>3, <3>4, <4>1 DEF g
      <4> QED BY <1>1, <3>1, <3>4, <4>1, <4>2
    <3> QED BY <1>1, <3>1, <3>3, <3>4, <3>5 DEF g
  <2> QED BY <2>1, <2>2
<1>3. S # {} /\ S \subseteq Nat
  <2>1. \A i \in places : i >= end => Stops(names, i)
    BY DEF Stops
  <2>2. S = {i \in places : Stops(names, i)} /\ \A i \in places : i \in Nat
    BY <1>1, <1>2
  <2> HIDE DEF end, S
  <2> QED BY <1>1, <1>2, <2>1, <2>2
<1>4. CommonLen(names, places) = Least(S)
  BY DEF CommonLen, Stops
<1> HIDE DEF S
<1>5. Least(S) \in S /\ \A i \in S : Least(S) <= i
  BY <1>3, LeastIn
<1> QED BY <1>3, <1>4, <1>5 DEF S

\* What the loop has found, when every character is a byte.
Common(names) == Front(names[1], CommonLen(names, 0..Len(names[1])))

\* It is what all the names begin with, and nothing longer is: up to where it stops the
\* first name agrees with each of the others, and there one of them differs or it ends.
LEMMA CommonFacts ==
  ASSUME NEW M, M \subseteq Files, M # {}, NEW names \in Listings(M),
         answer \in Line, "bytes" \in Avoided
  PROVE  /\ Common(names) \in Seq(Chars) /\ CommonLen(names, 0..Len(names[1])) <= Len(names[1])
         /\ Len(Common(names)) = CommonLen(names, 0..Len(names[1]))
         /\ \A n \in M : Begins(Common(names), n)
         /\ \A s \in Seq(Chars) : (\A n \in M : Begins(s, n)) => Len(s) <= Len(Common(names))
<1> DEFINE first == names[1]
           end == Len(first)
           k == CommonLen(names, 0..end)
           c == Common(names)
<1>1. /\ first \in M /\ first \in Seq(Chars) /\ end \in Nat
      /\ \A i \in DOMAIN names : names[i] \in M /\ names[i] \in Seq(Chars)
      /\ \A m \in M : \E i \in DOMAIN names : names[i] = m
  BY Listed
<1>2. 0..end \in Places(first)
  BY DEF Places
<1>3. /\ k \in 0..end /\ Stops(names, k)
      /\ \A i \in 0..end : Stops(names, i) => k <= i
  <2> HIDE DEF end, first
  <2> QED BY <1>2, LoopEnds DEF end, first
<1>4. c = Front(first, k)
  BY DEF Common
<1> HIDE DEF k, c
<1>5. c \in Seq(Chars) /\ Len(c) = k /\ \A j \in 1..k : c[j] = first[j]
  BY <1>1, <1>3, <1>4, FrontOf
<1>6. \A i \in 0..end : i < k => ~Stops(names, i)
  BY <1>1, <1>3
<1> HIDE DEF first, end
<1>7. ASSUME NEW n \in M PROVE Begins(c, n)
  <2>1. PICK m \in DOMAIN names : names[m] = n
    BY <1>1
  <2>2. n \in Seq(Chars) /\ Len(n) \in Nat
    BY <1>1, <2>1, LenProperties
  <2>3. CASE m = 1
    BY <1>1, <1>3, <1>4, <1>5, <2>1, <2>3 DEF Begins, first, end
  <2>4. CASE m # 1
    <3>1. ASSUME NEW i \in 0..end, i < k PROVE i < Len(n) /\ CharAt(n, i) = CharAt(first, i)
      <4>1. ~Differs(names, i) /\ i < end
        BY <1>1, <1>6, <3>1 DEF Stops, first, end
      <4>2. AlikeAt(first, n, i)
        BY <2>1, <2>4, <4>1 DEF Differs, first
      <4> QED BY <4>1, <4>2 DEF AlikeAt, end
    <3>2. k <= Len(n)
      <4>1. CASE k = 0
        BY <2>2, <4>1
      <4>2. CASE k # 0
        <5>1. k - 1 \in 0..end /\ k - 1 < k
          BY <1>1, <1>3, <4>2
        <5> QED BY <1>1, <1>3, <2>2, <3>1, <5>1
      <4> QED BY <4>1, <4>2
    <3>3. k \in 0..Len(n)
      BY <1>1, <1>3, <2>2, <3>2
    <3>4. Front(n, k) \in Seq(Chars) /\ Len(Front(n, k)) = k /\ \A j \in 1..k : Front(n, k)[j] = n[j]
      BY <2>2, <3>3, FrontOf
    <3>5. \A j \in 1..k : n[j] = first[j]
      <4> SUFFICES ASSUME NEW j \in 1..k PROVE n[j] = first[j]
        OBVIOUS
      <4>1. j - 1 \in 0..end /\ j - 1 < k /\ j - 1 + 1 = j
        BY <1>1, <1>3
      <4>2. CharAt(n, j - 1) = CharAt(first, j - 1)
        BY <3>1, <4>1
      <4> QED BY <4>1, <4>2 DEF CharAt
    <3>6. Front(n, k) = c
      BY <1>5, <3>4, <3>5, SeqEqual
    <3> QED BY <1>5, <3>2, <3>6 DEF Begins
  <2> QED BY <2>3, <2>4
<1>8. ASSUME NEW s \in Seq(Chars), \A n \in M : Begins(s, n) PROVE Len(s) <= k
  <2>1. Len(s) \in Nat /\ Begins(s, first)
    BY <1>1, <1>8, LenProperties
  <2>2. Len(s) <= end /\ \A j \in 1..Len(s) : s[j] = first[j]
    BY <1>1, <2>1, FrontOf DEF Begins, end
  <2> SUFFICES ASSUME k < Len(s) PROVE FALSE
    BY <1>1, <1>3, <2>1
  <2>3. k < end /\ k + 1 \in 1..Len(s)
    BY <1>1, <1>3, <2>1, <2>2
  <2>4. Differs(names, k)
    BY <1>1, <1>3, <2>3 DEF Stops, first, end
  <2>5. PICK m \in DOMAIN names : ~AlikeAt(first, names[m], k)
    BY <2>4 DEF Differs, first
  <2>6. Begins(s, names[m]) /\ names[m] \in Seq(Chars) /\ Len(names[m]) \in Nat
    BY <1>1, <1>8, LenProperties
  <2>7. k < Len(names[m]) /\ \A j \in 1..Len(s) : s[j] = names[m][j]
    <3> DEFINE other == names[m]
    <3>1. Begins(s, other) /\ other \in Seq(Chars) /\ Len(other) \in Nat
      BY <2>6
    <3> HIDE DEF other
    <3>2. Len(s) <= Len(other) /\ Front(other, Len(s)) = s
      BY <3>1 DEF Begins
    <3>3. k < Len(other)
      BY <1>1, <1>3, <2>1, <2>3, <3>1, <3>2
    <3>4. \A j \in 1..Len(s) : s[j] = other[j]
      <4>1. Len(s) \in 0..Len(other)
        BY <2>1, <3>1, <3>2
      <4> QED BY <3>1, <3>2, <4>1, FrontOf
    <3> QED BY <3>3, <3>4 DEF other
  <2>8. names[m][k + 1] = first[k + 1]
    BY <2>2, <2>3, <2>7
  <2> QED BY <2>3, <2>5, <2>7, <2>8 DEF AlikeAt, CharAt, end
<1> QED BY <1>1, <1>3, <1>5, <1>7, <1>8 DEF k, c, end, first

\* The slash of a directory comes behind the name, which has none.
LEMMA CompletionFacts ==
  ASSUME NEW M, M \subseteq Files, M # {}, NEW names \in Listings(M),
         NEW len \in 0..Len(names[1])
  PROVE  /\ Completion(names, len) \in Line
         /\ Completion(names, len) =
              IF Cardinality(M) = 1 /\ Front(names[1], len) \in Dirs
              THEN Append(Front(names[1], len), Slash) ELSE Front(names[1], len)
<1>1. Front(names[1], len) \in Line
  <2>1. names[1] \in Seq(Chars)
    BY Listed
  <2> QED BY <2>1, FrontOf, SeqMonotonic DEF Line
<1>2. DOMAIN names = {1} <=> Cardinality(M) = 1
  <2>1. DOMAIN names = 1..Cardinality(M) /\ Cardinality(M) \in Nat \ {0}
    BY Listed
  <2> QED BY <2>1
<1> QED BY <1>1, <1>2 DEF Completion, Line

\* What Tab may do: nothing, crash, or complete what the loop has found.
LEMMA TabFileDoes ==
  ASSUME answer \in Line, TabFile
  PROVE  LET M == Matches(Front(answer, x)) IN
         \/ (M = {} \/ x # Len(answer)) /\ TabKey /\ UNCHANGED <<answer, x>>
         \/ M # {} /\ ("bytes" \notin Avoided \/ "outgrow" \notin Avoided) /\ Crash
         \/ M # {} /\ \E names \in Listings(M) : \E places \in Places(names[1]) :
              /\ CommonLen(names, places) \in 0..Len(names[1])
              /\ Complete(Completion(names, CommonLen(names, places)))
<1> DEFINE M == Matches(Front(answer, x))
<1>1. CASE M = {} \/ x # Len(answer)
  BY <1>1 DEF TabFile
<1>2. CASE M # {} /\ x = Len(answer)
  <2>1. PICK names \in Listings(M) : \E places \in Places(names[1]) :
          LET len  == CommonLen(names, places)
              name == Completion(names, len) IN
          IF len > Len(names[1]) THEN Crash
          ELSE /\ "outgrow" \in Avoided => Fits(name)
               /\ \E moved \in Moves(name) : IF moved THEN Crash ELSE Complete(name)
    BY <1>2 DEF TabFile
  <2>2. PICK places \in Places(names[1]) :
          LET len  == CommonLen(names, places)
              name == Completion(names, len) IN
          IF len > Len(names[1]) THEN Crash
          ELSE /\ "outgrow" \in Avoided => Fits(name)
               /\ \E moved \in Moves(name) : IF moved THEN Crash ELSE Complete(name)
    BY <2>1
  <2> DEFINE len  == CommonLen(names, places)
             name == Completion(names, len)
  <2>3. M \subseteq Files
    BY DEF Matches
  <2>4. len \in Nat /\ len \in places /\ Len(names[1]) \in Nat
    <3> HIDE DEF M
    <3> QED BY <1>2, <2>3, LoopEnds, Listed
  <2>5. "bytes" \in Avoided => len <= Len(names[1])
    <3> HIDE DEF len
    <3>1. "bytes" \in Avoided => places = 0..Len(names[1])
      BY DEF Places
    <3> QED BY <2>4, <3>1
  <2>6. IF len > Len(names[1]) THEN Crash
        ELSE /\ "outgrow" \in Avoided => Fits(name)
             /\ \E moved \in Moves(name) : IF moved THEN Crash ELSE Complete(name)
    BY <2>2
  <2> HIDE DEF len, name
  <2>7. CASE len > Len(names[1])
    BY <1>2, <2>4, <2>5, <2>6, <2>7
  <2>8. CASE ~(len > Len(names[1])) /\ Crash
    <3>1. CASE "outgrow" \notin Avoided
      BY <1>2, <2>8, <3>1
    <3>2. CASE "outgrow" \in Avoided
      <4>1. Moves(name) = {FALSE} /\ \E moved \in Moves(name) : IF moved THEN Crash ELSE Complete(name)
        BY <2>6, <2>8, <3>2 DEF Moves
      <4>2. Complete(name)
        BY <4>1
      <4>3. len \in 0..Len(names[1])
        BY <2>4, <2>8
      <4> QED BY <1>2, <4>2, <4>3 DEF len, name
    <3> QED BY <3>1, <3>2
  <2>9. CASE ~(len > Len(names[1])) /\ ~Crash
    <3>1. Complete(name)
      BY <2>6, <2>9
    <3>2. len \in 0..Len(names[1])
      BY <2>4, <2>9
    <3> QED BY <1>2, <3>1, <3>2 DEF len, name
  <2> QED BY <2>7, <2>8, <2>9
<1> QED BY <1>1, <1>2

LEMMA TabFileTyped == ASSUME Typed, TabFile PROVE Typed'
<1> DEFINE M == Matches(Front(answer, x))
<1>1. Asked /\ answer \in Line /\ x \in 0..Len(answer) /\ x \in Int
  BY DEF TabFile, Typed
<1>2. CASE Crash
  BY <1>2, CrashTyped
<1>3. CASE TabKey /\ UNCHANGED <<answer, x>>
  BY <1>1, <1>3 DEF TabKey, Typed, Asked
<1>4. ASSUME M # {}, NEW names \in Listings(M), NEW len \in 0..Len(names[1]),
             Complete(Completion(names, len))
      PROVE  Typed'
  <2>1. Completion(names, len) \in Line
    <3>1. M \subseteq Files
      BY DEF Matches
    <3> HIDE DEF M
    <3> QED BY <1>4, <3>1, CompletionFacts
  <2> DEFINE name == Completion(names, len)
  <2>2. name \in Line /\ Complete(name)
    BY <1>4, <2>1
  <2> HIDE DEF name
  <2>3. answer' \in Line /\ x' \in 0..Len(answer') /\ x' \in Int
    BY <1>1, <2>2 DEF Complete, Line
  <2>4. UNCHANGED <<pc, kind, old, magic, complete, lists, last, backup, disk>>
    BY <2>2 DEF Complete, TabKey
  <2> QED BY <2>3, <2>4 DEF Typed, Asked
<1> QED BY <1>1, <1>2, <1>3, <1>4, TabFileDoes

-----------------------------------------------------------------------------
(* The invariants.                                                         *)

LEMMA NextTyped == Typed /\ [Next]_vars => Typed'
<1> SUFFICES ASSUME Typed, [Next]_vars PROVE Typed'
  OBVIOUS
<1>1. CASE UNCHANGED vars
  BY <1>1 DEF Typed, vars, Asked
<1>2. CASE Next
  BY <1>2, AskTyped, EnterTyped, EnterReplaceTyped, LeaveTyped, ToggleTyped,
     EditAnswerTyped, OlderTyped, NewerTyped, TabSearchTyped, TabFileTyped, QuitTyped
  DEF Next, Tab
<1> QED BY <1>1, <1>2

LEMMA AlwaysTyped == Spec => []Typed
<1> QED BY InitTyped, NextTyped, PTL DEF Spec

LEMMA Between == \A a, n \in Nat : a <= n => a \in 0..n
OBVIOUS

\* When a search is not completed with the first key of a prompt, nobody walks up to the
\* oldest entry, and a name is completed only where a character is a byte and the name
\* fits the memory of the answer, no other key of a prompt reads through NULL or beyond a
\* list, completing stays in the names and frees nothing twice, and the cursor stays in
\* the answer: whatever is typed, walked to, completed and saved.
THEOREM GoesOnAsking ==
  ASSUME {"tab first", "oldest", "outgrow", "bytes"} \subseteq Avoided
  PROVE  Spec => []KeepsAsking
<1> DEFINE Asks == pc \in {"main", "prompt"}
<1>1. Init => Asks
  BY DEF Init
<1>2. Asks /\ Typed /\ [Next]_vars => Asks'
  <2> SUFFICES ASSUME Asks, Typed, [Next]_vars PROVE Asks'
    OBVIOUS
  <2>1. CASE UNCHANGED vars
    BY <2>1 DEF vars
  <2>2. CASE TabSearch \/ Older
    BY <2>2 DEF TabSearch, Older, Walk, Show
  <2>3. CASE EditAnswer
    BY <2>3 DEF EditAnswer, EditKey, Output, Left, Right, Home, End, NextWord, PrevWord,
                Delete, Backspace, CutText
  <2>4. ASSUME NEW k, Ask(k) \/ Toggle(k) PROVE Asks'
    BY <2>4 DEF Ask, Toggle, PutUp
  <2>5. CASE Enter \/ EnterReplace \/ Cancel \/ Resize \/ Quit \/ Die
    BY <2>5 DEF Enter, EnterReplace, Cancel, Resize, Quit, Die, PutUp, TakeDown, StartedAgain
  <2>6. CASE Newer
    BY <2>6 DEF Newer, Walk, Show
  <2>7. CASE TabFile
    <3>1. answer \in Line /\ "bytes" \in Avoided /\ "outgrow" \in Avoided
      BY DEF Typed
    <3> QED BY <2>7, <3>1, TabFileDoes DEF Complete, TabKey
  <2> QED BY <2>1, <2>2, <2>3, <2>4, <2>5, <2>6, <2>7 DEF Next, Tab
<1>3. Asks /\ Typed => KeepsAsking
  <2> SUFFICES ASSUME Asks, Typed PROVE KeepsAsking
    OBVIOUS
  <2>1. ASSUME NEW k \in DOMAIN lists
        PROVE  lists[k].position \in 0..Size(lists[k]) /\ lists[k].marker \in 0..Size(lists[k])
    <3>1. lists[k] \in Lists
      BY DEF Typed
    <3>2. lists[k].lines \in Seq(NonBlank) /\ lists[k] \in Records
      BY <3>1 DEF Lists, Records, Entries
    <3>3. Size(lists[k]) \in Nat
      BY <3>2, LenProperties DEF Size
    <3>4. /\ lists[k].position \in Nat /\ lists[k].position <= Size(lists[k])
          /\ lists[k].marker \in Nat /\ lists[k].marker <= Size(lists[k])
      BY <3>1, <3>2 DEF Lists, Records
    <3> QED BY <3>3, <3>4, Between, Zenon
  <2> QED BY <2>1 DEF Typed, KeepsAsking
<1> QED BY <1>1, <1>2, <1>3, AlwaysTyped, PTL DEF Spec

-----------------------------------------------------------------------------
(* The draft.                                                              *)

\* While the prompt has walked up, magichistory is what was typed before; and so is the
\* answer at the bottom, where Newer has put it back.
Drafted ==
    Asked /\ WalksHistory /\ draft # NoDraft =>
        /\ ~AtNewest(history) => magic = draft /\ draft # <<>>
        /\ AtNewest(history) /\ key = "newer" => answer = draft

LEMMA PlaceKept ==
  ASSUME Typed, NEW place \in Nat, lists' = [lists EXCEPT ![ListOf].position = place], kind' = kind
  PROVE  history'.position = place /\ history'.lines = history.lines
<1>1. ListOf' = ListOf /\ ListOf \in Kinds
  BY ListOfKind DEF ListOf
<1>2. lists[ListOf] \in Records
  BY <1>1 DEF Typed, Lists
<1> QED BY <1>1, <1>2 DEF Typed, history, Records

LEMMA OlderDrafted ==
  ASSUME Typed, Drafted, Older, "blank" \in Avoided PROVE Drafted'
<1>1. CASE OlderEnds(history)
  BY <1>1 DEF Older, Crash, Drafted, Asked
<1>2. CASE ~OlderEnds(history)
  <2> DEFINE place == IF NoOlder(history) THEN history.position ELSE history.position + 1
  <2>1. /\ magic' = Magic /\ key' = "older" /\ kind' = kind
        /\ draft' = IF AtNewest(history) THEN answer ELSE draft
        /\ lists' = [lists EXCEPT ![ListOf].position = place]
    BY <1>2 DEF Older, Walk, Show
  <2>2. Asked /\ WalksHistory /\ (AtNewest(history) => answer # <<>>)
    BY DEF Older
  <2>3. place \in Nat
    BY HistoryFacts
  <2>4. AtNewest(history)' = (place = 0)
    BY <2>1, <2>3, PlaceKept DEF AtNewest
  <2>5. draft # NoDraft /\ ~AtNewest(history) => magic = draft /\ draft # <<>>
    BY <2>2 DEF Drafted
  <2>6. draft' # NoDraft => magic' = draft' /\ draft' # <<>>
    BY <2>1, <2>2, <2>5 DEF Magic
  <2> QED BY <2>1, <2>6 DEF Drafted
<1> QED BY <1>1, <1>2

LEMMA NewerDrafted ==
  ASSUME Typed, Drafted, Newer, "bottom" \in Avoided PROVE Drafted'
<1> DEFINE place == history.position - 1
           shown == Entry(history, place)
           down == IF place = 0 /\ shown # <<>> /\ magic # <<>> THEN magic ELSE shown
<1>1. Asked /\ WalksHistory /\ ~AtNewest(history) /\ UNCHANGED <<magic, draft>>
  BY DEF Newer
<1>2. Walk("newer", place, down, Len(down))
  BY <1>1 DEF Newer, Show
<1>3. place \in 0..Len(history.lines) - 1 /\ place \in Nat
  BY <1>1, HistoryFacts DEF AtNewest
<1>4. shown # <<>>
  BY <1>3, HistoryFacts DEF NonBlank
<1>5. draft # NoDraft => magic = draft /\ draft # <<>>
  BY <1>1 DEF Drafted
<1>6. kind' = kind /\ answer' = down /\ lists' = [lists EXCEPT ![ListOf].position = place]
  BY <1>2 DEF Walk
<1>7. AtNewest(history)' = (place = 0)
  BY <1>3, <1>6, PlaceKept DEF AtNewest
<1> HIDE DEF place, shown
<1>8. place = 0 /\ draft # NoDraft => answer' = draft'
  BY <1>1, <1>4, <1>5, <1>6
<1> QED BY <1>1, <1>5, <1>7, <1>8 DEF Drafted

LEMMA EditDrafted ==
  ASSUME Drafted, NEW a, NEW i, EditKey(a, i) PROVE Drafted'
BY DEF Drafted, EditKey, Asked, WalksHistory, AtNewest, history, ListOf

LEMMA TabDrafted == ASSUME Typed, Drafted, Tab PROVE Drafted'
<1>1. CASE TabFile
  <2>1. ~WalksHistory
    BY <1>1 DEF TabFile
  <2>2. UNCHANGED kind
    BY <1>1 DEF TabFile, Complete, TabKey, Crash
  <2> QED BY <2>1, <2>2 DEF Drafted, WalksHistory
<1>2. CASE TabSearch /\ key = "none"
  BY <1>2 DEF TabSearch, Crash, Drafted, Asked
<1>3. CASE TabSearch /\ key # "none"
  <2>1. /\ Asked /\ WalksHistory /\ key' = "tab" /\ UNCHANGED <<pc, kind, magic, draft>>
        /\ \/ lists' = lists
           \/ \E i : lists' = [lists EXCEPT ![ListOf].marker = i]
    BY <1>3 DEF TabSearch
  <2>2. ListOf \in Kinds /\ ListOf' = ListOf /\ lists \in [Kinds -> Lists]
        /\ lists[ListOf] \in Records
    BY <2>1, ListOfKind DEF ListOf, Typed, Lists
  <2>3. lists'[ListOf].position = lists[ListOf].position
    BY <2>1, <2>2 DEF Records
  <2>4. AtNewest(history)' = AtNewest(history)
    BY <2>2, <2>3 DEF AtNewest, history
  <2> QED BY <2>1, <2>4 DEF Drafted, Asked, WalksHistory
<1> QED BY <1>1, <1>2, <1>3 DEF Tab

\* Coming back down from the history gives back what was typed before, if the walk does
\* not begin with a blank answer or go on at the bottom: whatever was edited on the way,
\* whichever list it was, and wherever it was left in the prompts before.
THEOREM DraftsComeBack ==
  ASSUME {"blank", "bottom"} \subseteq Avoided
  PROVE  Spec => []DraftKept
<1>1. Init => Drafted
  BY DEF Init, Drafted, Asked
<1>2. Typed /\ Drafted /\ [Next]_vars => Drafted'
  <2> SUFFICES ASSUME Typed, Drafted, [Next]_vars PROVE Drafted'
    OBVIOUS
  <2>1. CASE UNCHANGED vars
    BY <2>1 DEF vars, Drafted, Asked, WalksHistory, AtNewest, history, ListOf
  <2>2. CASE EditAnswer
    BY <2>2, EditDrafted DEF EditAnswer, Output, Left, Right, Home, End, NextWord,
       PrevWord, Delete, Backspace, CutText
  <2>3. ASSUME NEW k, Ask(k) \/ Toggle(k) PROVE Drafted'
    BY <2>3 DEF Ask, Toggle, PutUp, Drafted
  <2>4. CASE Enter \/ EnterReplace \/ Cancel \/ Resize \/ Quit \/ Die
    BY <2>4 DEF Enter, EnterReplace, Cancel, Resize, Quit, Die, PutUp, TakeDown,
                StartedAgain, Drafted
  <2> QED BY <2>1, <2>2, <2>3, <2>4, OlderDrafted, NewerDrafted, TabDrafted DEF Next
<1>3. Drafted => DraftKept
  BY DEF Drafted, DraftKept
<1> QED BY <1>1, <1>2, <1>3, AlwaysTyped, PTL DEF Spec

-----------------------------------------------------------------------------
(* From one run to the next.                                               *)

Newest(lines) == IF lines = <<>> THEN <<>> ELSE lines[1]

\* A list that has not changed is what is on disk, and last_search is the newest search.
Recorded ==
    /\ \A k \in Kinds :
         IF lists[k].changed THEN lists[k].lines # <<>> ELSE lists[k].lines = disk[k]
    /\ last = Newest(lists["search"].lines)

\* What has been loaded is recorded.
LEMMA LoadedRecorded ==
  ASSUME NEW saved \in [Kinds -> Entries], NEW ls, NEW l, LoadHistory(saved, ls, l)
  PROVE  /\ \A k \in Kinds : ~ls[k].changed /\ ls[k].lines = saved[k]
         /\ l = Newest(ls["search"].lines)
<1>1. \A k \in Kinds : ls[k].lines = saved[k] /\ ~ls[k].changed
  BY LoadedLists
<1>2. "search" \in Kinds
  BY DEF Kinds
<1> QED BY <1>1, <1>2 DEF LoadHistory, Newest

LEMMA InitRecorded == Init => Recorded
<1> SUFFICES ASSUME Init PROVE Recorded
  OBVIOUS
<1>1. disk \in [Kinds -> Entries]
  BY InitTyped DEF Typed
<1>2. LoadHistory(disk, lists, last)
  BY DEF Init
<1> QED BY <1>1, <1>2, LoadedRecorded DEF Recorded

\* Steps that add no entry.
LEMMA RecordedKept ==
  ASSUME Typed, Recorded, UNCHANGED <<last, disk>>, NEW i,
         \/ lists' = lists
         \/ lists' = [lists EXCEPT ![ListOf].position = i]
         \/ lists' = [lists EXCEPT ![ListOf].marker = i]
  PROVE  Recorded'
<1>1. ListOf \in Kinds /\ lists \in [Kinds -> Lists] /\ "search" \in Kinds
  BY ListOfKind DEF Typed, Kinds
<1>2. \A k \in Kinds : lists[k] \in Records
  BY <1>1 DEF Lists
<1>3. \A k \in Kinds : lists'[k].lines = lists[k].lines /\ lists'[k].changed = lists[k].changed
  BY <1>1, <1>2 DEF Records
<1> QED BY <1>1, <1>3 DEF Recorded

\* An entry added to a list, to that of searches when it is searched for.
LEMMA RecordedGrown ==
  ASSUME Typed, Recorded, disk' = disk, NEW k \in Kinds, NEW e \in NonBlank,
         lists' = [lists EXCEPT ![k] = Add(@, e)],
         last' = IF k = "search" THEN e ELSE last
  PROVE  Recorded'
<1>1. lists[k] \in Lists /\ lists \in [Kinds -> Lists] /\ "search" \in Kinds
  BY DEF Typed, Kinds
<1>2. Add(lists[k], e).lines # <<>> /\ Add(lists[k], e).lines[1] = e /\ Add(lists[k], e).changed
  BY <1>1, AddFacts
<1>3. lists'[k] = Add(lists[k], e) /\ \A j \in Kinds \ {k} : lists'[j] = lists[j]
  BY <1>1, ListsGrown
<1>4. ASSUME NEW j \in Kinds
      PROVE  (IF lists[j].changed THEN lists[j].lines # <<>> ELSE lists[j].lines = disk[j])'
  BY <1>2, <1>3 DEF Recorded
<1>5. last' = Newest(lists'["search"].lines)
  BY <1>1, <1>2, <1>3 DEF Recorded, Newest
<1> QED BY <1>4, <1>5 DEF Recorded

LEMMA EnterRecorded == ASSUME Typed, Recorded, Enter PROVE Recorded'
<1> DEFINE entry == IF kind = "search" /\ answer = <<>> THEN last ELSE answer
<1>1. disk' = disk /\ entry \in Line
  BY DEF Enter, TakeDown, Typed
<1>2. CASE kind \in {"search", "with"} /\ entry # <<>>
  <2>1. /\ lists' = [lists EXCEPT ![kind] = Add(@, entry)]
        /\ last' = IF kind = "search" THEN entry ELSE last
    BY <1>2 DEF Enter
  <2>2. entry \in NonBlank /\ kind \in Kinds
    BY <1>1, <1>2 DEF NonBlank, Kinds
  <2> HIDE DEF entry
  <2> QED BY <1>1, <2>1, <2>2, RecordedGrown
<1>3. CASE ~(kind \in {"search", "with"} /\ entry # <<>>)
  <2>1. lists' = lists /\ last' = last
    BY <1>3 DEF Enter
  <2> QED BY <1>1, <2>1, RecordedKept
<1> QED BY <1>2, <1>3

LEMMA EnterReplaceRecorded == ASSUME Typed, Recorded, EnterReplace PROVE Recorded'
<1>1. disk' = disk /\ answer \in Line
  BY DEF EnterReplace, Typed
<1>2. CASE answer # <<>>
  <2>1. lists' = [lists EXCEPT !["search"] = Add(@, answer)] /\ last' = answer
    BY <1>2 DEF EnterReplace
  <2>2. answer \in NonBlank /\ "search" \in Kinds
    BY <1>1, <1>2 DEF NonBlank, Kinds
  <2> QED BY <1>1, <2>1, <2>2, RecordedGrown
<1>3. CASE answer = <<>>
  BY <1>1, <1>3, RecordedKept DEF EnterReplace
<1> QED BY <1>2, <1>3

LEMMA StartedRecorded ==
  ASSUME StartedAgain, disk' \in [Kinds -> Entries] PROVE Recorded'
BY LoadedRecorded DEF StartedAgain, Recorded

\* What save_history leaves on disk is what is in the lists, whether it writes or not.
LEMMA QuitSaves ==
  ASSUME Typed, Recorded, Quit
  PROVE  disk' \in [Kinds -> Entries] /\ \A k \in Kinds : disk'[k] = lists[k].lines
<1>0. DOMAIN lists = Kinds
  BY DEF Typed
<1>1. \A k \in Kinds : lists[k] \in Lists /\ lists[k].lines \in Entries
  BY DEF Typed, Lists, Records
<1>2. CASE ~Changed
  BY <1>0, <1>1, <1>2 DEF Quit, Changed, Recorded, Typed
<1>3. CASE Changed
  <2>1. ~AllEmpty
    <3>1. PICK k \in Kinds : lists[k].changed
      BY <1>0, <1>3 DEF Changed
    <3>2. lists[k].lines # <<>> /\ lists[k].lines \in Seq(NonBlank)
      BY <1>1, <3>1 DEF Recorded, Entries
    <3>3. Size(lists[k]) # 0
      BY <3>2, EmptySeq DEF Size
    <3> QED BY <1>0, <3>3 DEF AllEmpty
  <2>2. disk' = [k \in Kinds |-> lists[k].lines]
    BY <1>0, <1>3, <2>1 DEF Quit
  <2> QED BY <1>1, <2>2
<1> QED BY <1>2, <1>3

LEMMA QuitKeeps ==
  ASSUME Typed, Recorded, Quit
  PROVE  (\A k \in DOMAIN lists : lists'[k].lines = lists[k].lines) /\ last' = last
<1>1. disk' \in [Kinds -> Entries] /\ (\A k \in Kinds : disk'[k] = lists[k].lines)
  BY QuitSaves
<1>2. \A k \in Kinds : lists'[k].lines = disk'[k]
  BY <1>1, LoadedRecorded DEF Quit, StartedAgain
<1>3. last' = Newest(lists'["search"].lines)
  BY <1>1, LoadedRecorded DEF Quit, StartedAgain
<1>4. "search" \in Kinds /\ DOMAIN lists = Kinds
  BY DEF Kinds, Typed
<1> QED BY <1>1, <1>2, <1>3, <1>4 DEF Recorded

\* What was searched for and replaced with, and the last search, are what the next run of
\* pinot starts with when this one ends in order, whatever was killed before: an unchanged
\* list need not be saved.  No habit is assumed.
THEOREM HistoriesSurvive == Spec => HistoriesKept
<1>1. Typed /\ Recorded /\ [Next]_vars => Recorded'
  <2> SUFFICES ASSUME Typed, Recorded, [Next]_vars PROVE Recorded'
    OBVIOUS
  <2>1. CASE UNCHANGED vars
    BY <2>1, RecordedKept DEF vars
  <2>2. CASE EditAnswer
    <3>1. UNCHANGED <<lists, last, disk>>
      BY <2>2 DEF EditAnswer, EditKey, Output, Left, Right, Home, End, NextWord, PrevWord,
                  Delete, Backspace, CutText
    <3> QED BY <3>1, RecordedKept
  <2>3. ASSUME NEW k, Ask(k) \/ Toggle(k) PROVE Recorded'
    <3>1. UNCHANGED <<lists, last, disk>>
      BY <2>3 DEF Ask, Toggle
    <3> QED BY <3>1, RecordedKept
  <2>4. CASE Cancel \/ Resize \/ TabFile
    <3>1. UNCHANGED <<lists, last, disk>>
      BY <2>4 DEF Cancel, Resize, TakeDown, TabFile, Complete, TabKey, Crash
    <3> QED BY <3>1, RecordedKept
  <2>5. CASE Older \/ Newer
    <3>1. /\ UNCHANGED <<last, disk>>
          /\ lists' = lists \/ \E i : lists' = [lists EXCEPT ![ListOf].position = i]
      BY <2>5 DEF Older, Newer, Crash, Walk, Show
    <3> QED BY <3>1, RecordedKept
  <2>6. CASE TabSearch
    <3>1. /\ UNCHANGED <<last, disk>>
          /\ lists' = lists \/ \E i : lists' = [lists EXCEPT ![ListOf].marker = i]
      BY <2>6 DEF TabSearch, Crash
    <3> QED BY <3>1, RecordedKept
  <2>7. CASE Quit
    BY <2>7, QuitSaves, StartedRecorded DEF Quit
  <2>8. CASE Die
    BY <2>8, StartedRecorded DEF Die, Typed
  <2> QED BY <2>1, <2>2, <2>3, <2>4, <2>5, <2>6, <2>7, <2>8, EnterRecorded,
             EnterReplaceRecorded DEF Next, Tab
<1>2. Typed /\ Recorded /\ Quit =>
        (\A k \in DOMAIN lists : lists'[k].lines = lists[k].lines) /\ last' = last
  BY QuitKeeps
<1>3. Typed /\ Recorded /\ [Next]_vars =>
        [Quit => /\ \A k \in DOMAIN lists : lists'[k].lines = lists[k].lines
                 /\ last' = last]_vars
  BY <1>2
<1> QED BY <1>1, <1>3, InitRecorded, AlwaysTyped, PTL DEF Spec, HistoriesKept

-----------------------------------------------------------------------------
(* Completing.                                                             *)

LEMMA OneName ==
  ASSUME NEW M, M \subseteq Files
  PROVE  Cardinality(M) = 1 <=> \E name \in M : M = {name}
<1>1. IsFiniteSet(M)
  BY FilesFacts, FS_Subset
<1> QED BY <1>1, FS_Singleton

LEMMA CommonOfOne ==
  ASSUME NEW name \in Files, NEW names \in Listings({name}),
         answer \in Line, "bytes" \in Avoided
  PROVE  Common(names) = name
<1>1. /\ Common(names) \in Seq(Chars) /\ name \in Seq(Chars)
      /\ Begins(Common(names), name)
      /\ Begins(name, name) => Len(name) <= Len(Common(names))
  <2>1. {name} \subseteq Files /\ {name} # {} /\ name \in {name} /\ name \in Seq(Chars)
    BY FilesFacts
  <2>2. /\ Common(names) \in Seq(Chars) /\ Begins(Common(names), name)
        /\ \A s \in Seq(Chars) :
             (\A n \in {name} : Begins(s, n)) => Len(s) <= Len(Common(names))
    BY <2>1, CommonFacts, Zenon
  <2> QED BY <2>1, <2>2
<1>2. Begins(name, name)
  BY <1>1, SubSeqFull, LenProperties DEF Begins, Front
<1>3. Len(Common(names)) \in Nat /\ Len(name) \in Nat
  BY <1>1
<1>4. Len(Common(names)) = Len(name)
  BY <1>1, <1>2, <1>3 DEF Begins
<1>5. Front(name, Len(name)) = name
  BY <1>1, SubSeqFull DEF Front
<1> QED BY <1>1, <1>4, <1>5 DEF Begins

\* The last character of what has been completed is a slash if one was put there only.
LEMMA Slashed ==
  ASSUME NEW s \in Seq(Chars)
  PROVE  /\ ~(s # <<>> /\ CharAt(s, Len(s) - 1) = Slash)
         /\ Append(s, Slash) # <<>> /\ Append(s, Slash) # s
         /\ CharAt(Append(s, Slash), Len(Append(s, Slash)) - 1) = Slash
         /\ Front(Append(s, Slash), Len(Append(s, Slash)) - 1) = s
<1> DEFINE t == Append(s, Slash)
<1>1. s \in Line /\ Len(s) \in Nat /\ (s # <<>> => Len(s) \in 1..Len(s))
  BY EmptySeq, SeqMonotonic DEF Line
<1>2. s # <<>> => s[Len(s)] \in Chars
  BY <1>1, ElementOfSeq
<1>3. Slash \notin Chars /\ Slash \in Chars \cup {Slash}
  BY FilesFacts
<1>4. /\ t \in Line /\ t # <<>> /\ Len(t) = Len(s) + 1 /\ t[Len(s) + 1] = Slash
      /\ \A i \in 1..Len(s) : t[i] = s[i]
  BY <1>1, <1>3, AppendProperties DEF Line
<1> HIDE DEF t
<1>5. t # s
  BY <1>1, <1>4
<1>6. Front(t, Len(s)) = s
  <2>1. /\ Front(t, Len(s)) \in Line /\ Len(Front(t, Len(s))) = Len(s)
        /\ \A j \in 1..Len(s) : Front(t, Len(s))[j] = t[j]
    BY <1>1, <1>4, FrontOf DEF Line
  <2> QED BY <1>1, <1>4, <2>1, SeqEqual DEF Line
<1>7. Len(t) - 1 = Len(s) /\ Len(t) - 1 + 1 = Len(s) + 1 /\ Len(s) - 1 + 1 = Len(s)
  BY <1>1, <1>4
<1>8. CharAt(t, Len(t) - 1) = Slash /\ CharAt(s, Len(s) - 1) = s[Len(s)]
  BY <1>4, <1>7 DEF CharAt
<1> QED BY <1>2, <1>3, <1>4, <1>5, <1>6, <1>7, <1>8 DEF t

Bare(a) == IF a # <<>> /\ CharAt(a, Len(a) - 1) = Slash THEN Front(a, Len(a) - 1) ELSE a

\* The answer is completed to what all the names begin with, even when that is the answer.
LEMMA TabAnswer ==
  ASSUME Typed, TabFile, Matches(answer) # {}, x = Len(answer),
         {"outgrow", "bytes"} \subseteq Avoided
  PROVE  \E names \in Listings(Matches(answer)) :
           answer' = IF Cardinality(Matches(answer)) = 1 /\ Common(names) \in Dirs
                     THEN Append(Common(names), Slash) ELSE Common(names)
<1> DEFINE M == Matches(answer)
<1>1. answer \in Line /\ Len(answer) \in Nat
  BY DEF Typed, Line
<1>2. Front(answer, x) = answer
  BY <1>1, SubSeqFull DEF Front, Line
<1>3. PICK names \in Listings(M) : \E places \in Places(names[1]) :
        Complete(Completion(names, CommonLen(names, places)))
  BY <1>1, <1>2, TabFileDoes
<1> DEFINE len  == CommonLen(names, 0..Len(names[1]))
           c    == Common(names)
           name == Completion(names, len)
<1>4. Complete(name)
  BY <1>3 DEF Places
<1>5. M \subseteq Files /\ M # {} /\ \A n \in M : Begins(answer, n)
  BY DEF Matches
<1> HIDE DEF M
<1>6. /\ c \in Seq(Chars) /\ len <= Len(names[1]) /\ Len(c) = len /\ Len(c) \in Nat
      /\ \A n \in M : Begins(c, n)
      /\ \A s \in Seq(Chars) : (\A n \in M : Begins(s, n)) => Len(s) <= Len(c)
  BY <1>1, <1>5, CommonFacts, LenProperties
<1>7. len \in 0..Len(names[1]) /\ c = Front(names[1], len)
  <2>1. Len(names[1]) \in Nat
    BY <1>5, Listed
  <2> QED BY <1>6, <2>1 DEF Common
<1>8. name = IF Cardinality(M) = 1 /\ c \in Dirs THEN Append(c, Slash) ELSE c
  <2> HIDE DEF len, c
  <2> QED BY <1>5, <1>7, CompletionFacts
<1>9. answer' = name
  <2> HIDE DEF len, c, name
  <2>1. \/ Len(name) # x /\ answer' = name
        \/ Len(name) = x /\ answer' = answer
    BY <1>4 DEF Complete
  <2>2. ASSUME Len(name) = x PROVE name = answer
    <3>1. PICK n \in M : TRUE
      BY <1>5
    <3>2. n \in Seq(Chars) /\ Begins(answer, n) /\ Len(n) \in Nat
      BY <1>5, <3>1, FilesFacts, LenProperties
    <3>3. answer \in Seq(Chars)
      BY <1>1, <3>2, FrontOf DEF Begins
    <3>4. Begins(c, n) /\ Len(answer) <= Len(c)
      BY <1>5, <1>6, <3>1, <3>3
    <3>5. name = c
      <4>1. Len(Append(c, Slash)) = Len(c) + 1
        <5>1. c \in Line /\ Slash \in Chars \cup {Slash}
          BY <1>6, SeqMonotonic DEF Line
        <5> QED BY <5>1, AppendProperties DEF Line
      <4>2. name # Append(c, Slash)
        BY <1>1, <1>6, <2>2, <3>4, <4>1
      <4> QED BY <1>8, <4>2
    <3>6. Len(c) = Len(answer)
      BY <2>2, <3>5
    <3> QED BY <3>2, <3>4, <3>5, <3>6 DEF Begins
  <2> QED BY <2>1, <2>2
<1> HIDE DEF name, c
<1> QED BY <1>8, <1>9 DEF c, M

\* Tab makes of an answer the longest one that begins all the names that it begins, and
\* puts a slash behind the only one if it is a directory: for any set of names, in any
\* order, where a character is a byte and the name fits the memory of the answer.
THEOREM TabsComplete ==
  ASSUME {"outgrow", "bytes"} \subseteq Avoided
  PROVE  Spec => TabCompletes
<1> DEFINE M == Matches(answer)
           longer == UNION {{Front(m, i) : i \in 0..Len(m)} : m \in M}
<1>1. ASSUME Typed, TabFile, Matches(answer) # {}, x = Len(answer)
      PROVE  /\ \A n \in M : Begins(Bare(answer'), n)
             /\ \A s \in longer :
                  (\A n \in M : Begins(s, n)) => Len(s) <= Len(Bare(answer'))
             /\ Bare(answer') # answer' <=> M = {Bare(answer')} /\ Bare(answer') \in Dirs
  <2>1. PICK names \in Listings(M) :
          answer' = IF Cardinality(M) = 1 /\ Common(names) \in Dirs
                    THEN Append(Common(names), Slash) ELSE Common(names)
    BY <1>1, TabAnswer
  <2>2. M \subseteq Files /\ answer \in Line
    BY <1>1 DEF Matches, Typed
  <2>3. \A s \in longer : s \in Seq(Chars)
    <3> SUFFICES ASSUME NEW m \in M, NEW i \in 0..Len(m) PROVE Front(m, i) \in Seq(Chars)
      OBVIOUS
    <3>1. m \in Seq(Chars)
      BY <2>2, FilesFacts
    <3> QED BY <3>1, FrontOf
  <2>4. M # {}
    BY <1>1
  <2> HIDE DEF M
  <2> DEFINE c == Common(names)
             one == Cardinality(M) = 1 /\ c \in Dirs
  <2>5. /\ c \in Seq(Chars) /\ \A n \in M : Begins(c, n)
        /\ \A s \in Seq(Chars) : (\A n \in M : Begins(s, n)) => Len(s) <= Len(c)
    BY <2>2, <2>4, CommonFacts
  <2>6. answer' = IF one THEN Append(c, Slash) ELSE c
    BY <2>1
  <2>7. one <=> M = {c} /\ c \in Dirs
    <3>1. ASSUME NEW name \in M, M = {name} PROVE c = name
      <4>1. name \in Files /\ names \in Listings({name})
        BY <2>2, <3>1
      <4> QED BY <2>2, <4>1, CommonOfOne
    <3>2. Cardinality(M) = 1 <=> \E name \in M : M = {name}
      BY <2>2, OneName
    <3> QED BY <3>1, <3>2
  <2> HIDE DEF c
  <2>8. Bare(answer') = c /\ (Bare(answer') # answer' <=> one)
    BY <2>5, <2>6, Slashed DEF Bare
  <2> HIDE DEF longer, one
  <2> QED BY <2>3, <2>5, <2>7, <2>8
<1>2. Typed /\ [Next]_vars =>
        [TabFile /\ Matches(answer) # {} /\ x = Len(answer) =>
         LET N == Matches(answer)
             more == UNION {{Front(m, i) : i \in 0..Len(m)} : m \in N}
             bare == IF answer' # <<>> /\ CharAt(answer', Len(answer') - 1) = Slash
                     THEN Front(answer', Len(answer') - 1) ELSE answer' IN
         /\ \A n \in N : Begins(bare, n)
         /\ \A s \in more : (\A n \in N : Begins(s, n)) => Len(s) <= Len(bare)
         /\ bare # answer' <=> N = {bare} /\ bare \in Dirs]_vars
  BY <1>1 DEF Bare
<1> QED BY <1>2, AlwaysTyped, PTL DEF Spec, TabCompletes
=================================================================================
