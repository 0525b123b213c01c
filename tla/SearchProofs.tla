------------------------------ MODULE SearchProofs ------------------------------
(***************************************************************************)
(* Proofs about searching and replacing, for any texts, needles,           *)
(* replacements and numbers of jobs.                                       *)
(*                                                                         *)
(* Typed says of places only which lines they are in: correcting words     *)
(* leaves the cursor, and undo the mark, in columns that their lines do    *)
(* not have.  Stacked relates the items to the texts between them.  Fits,  *)
(* ItemsFit and MarkFits put the places in the text, columns and all, when *)
(* no word is corrected, and Searching and Bracketing say what the two     *)
(* searches have gone past.                                                *)
(***************************************************************************)
EXTENDS Search, SequenceTheorems, FunctionTheorems, FiniteSetTheorems, WellFoundedInduction,
        TLAPS

Line     == Seq(STRING)
Bodies   == {t \in Seq(Line) : t # <<>> /\ t[Len(t)] = <<>>}
Needle   == [str : Line, eol : BOOLEAN]
Spots(t) == (1..Len(t)) \X Int
Frames(t) == [top : Spots(t), bot : Spots(t), upright : BOOLEAN]
Kept(t)  == [lineno : 1..Len(t) - 1, begin : Int, str : Line]
AllWays  == {"forward", "backward"}
AllJobs  == {"search", "replace", "spell", "bracket"}

Placed ==
    /\ text \in Bodies
    /\ cur \in Spots(text) /\ begin \in Spots(text) /\ saved.cur \in Spots(text)
    /\ mark \in Spots(text) \cup {NoMark} /\ markSet \in BOOLEAN
    /\ frame \in Frames(text) \cup {NoFrame}
    /\ markSet \/ frame # NoFrame => mark # NoMark
    /\ at \in 1..Len(text) /\ start \in Int

Asking ==
    /\ pc \in {"main", "prompt", "with", "look", "found", "bracket", "overrun"}
    /\ job \in AllJobs /\ way \in AllWays /\ answer \in Line /\ jobs \in Nat
    /\ last \in Needle \cup {NoNeedle} /\ saved.last \in Needle \cup {NoNeedle}
    /\ saved.way \in AllWays
    /\ pc \in {"with", "look", "found"} => last \in Needle
    /\ pc = "prompt" => job \in {"search", "replace"}
    /\ pc = "with" => job = "replace"
    /\ pc = "look" => job # "bracket"
    /\ pc = "found" => job \notin {"search", "bracket"}
    /\ pc \in {"look", "found"} /\ job # "search" => last.str # <<>>

Matched ==
    pc = "found" => /\ cur[2] \in Nat
                    /\ cur[2] + Len(last.str) <= Len(text[cur[1]])

Stored == items \in Seq(Kept(text)) /\ undone \in 0..Len(items)

Typed == Placed /\ Asking /\ Matched /\ Stored

-----------------------------------------------------------------------------
(* The assumptions, and least and greatest columns.                        *)

LEMMA TextsOK == Texts \subseteq Bodies
BY SearchAssumption DEF Bodies, Line

LEMMA NeedlesOK == Needles \subseteq Needle /\ NoNeedle \notin Needle
<1>1. Needles \subseteq Needle
  BY SearchAssumption DEF Needle, Line
<1>2. ASSUME NEW n \in Needle PROVE n # <<>>
  <2>1. DOMAIN n = {"str", "eol"}
    BY DEF Needle
  <2>2. DOMAIN <<>> = {}
    OBVIOUS
  <2> QED BY <2>1, <2>2
<1> QED BY <1>1, <1>2 DEF NoNeedle

LEMMA AnswersOK == Replacements \subseteq Line
BY SearchAssumption DEF Line

LEMMA JobsOK == Jobs \subseteq AllJobs /\ Ways \subseteq AllWays /\ MaxJobs \in Nat
BY SearchAssumption DEF AllJobs, AllWays

LEMMA LeastIn ==
  ASSUME NEW S, S \subseteq Nat, S # {}
  PROVE  Min(S) \in S /\ \A b \in S : Min(S) <= b
<1> DEFINE R == {p \in Nat \X Nat : p[1] < p[2]}
<1>1. IsWellFoundedOn(R, Nat)
  BY NatLessThanWellFounded DEF OpToRel
<1>2. \E a \in S : \A b \in S : <<b, a>> \notin R
  <2> HIDE DEF R
  <2> QED BY <1>1, WFMin
<1>3. PICK a \in S : \A b \in S : <<b, a>> \notin R
  BY <1>2
<1>4. \A b \in S : a <= b
  <2> TAKE b \in S
  <2>1. a \in Nat /\ b \in Nat
    OBVIOUS
  <2>2. ~(b < a)
    BY <2>1, <1>3
  <2> QED BY <2>1, <2>2
<1> QED BY <1>4 DEF Min

LEMMA GreatestIn ==
  ASSUME NEW n \in Nat, NEW S, S \subseteq 0..n, S # {}
  PROVE  Max(S) \in S /\ \A b \in S : b <= Max(S)
<1> DEFINE T == {n - a : a \in S}
<1>1. T \subseteq Nat /\ T # {}
  <2>1. \A a \in S : n - a \in Nat
    OBVIOUS
  <2> QED BY <2>1
<1>2. Min(T) \in T /\ \A u \in T : Min(T) <= u
  <2> HIDE DEF T
  <2> QED BY <1>1, LeastIn
<1>3. PICK a \in S : Min(T) = n - a
  BY <1>2
<1>4. \A b \in S : a >= b
  <2> TAKE b \in S
  <2>1. n - b \in T /\ a \in Int /\ b \in Int
    OBVIOUS
  <2>2. n - a <= n - b
    BY <1>2, <1>3, <2>1
  <2> HIDE DEF T
  <2> QED BY <2>1, <2>2
<1>5. Max(S) \in S /\ \A b \in S : Max(S) >= b
  BY <1>4 DEF Max
<1> QED BY <1>5

-----------------------------------------------------------------------------
(* Matches.                                                                *)

LEMMA BodyFacts ==
  ASSUME NEW t \in Bodies
  PROVE  /\ Len(t) \in Nat \ {0} /\ t \in Seq(Line) /\ t[Len(t)] = <<>>
         /\ \A l \in 1..Len(t) : t[l] \in Line /\ Len(t[l]) \in Nat
<1>1. t \in Seq(Line) /\ t # <<>> /\ t[Len(t)] = <<>>
  BY DEF Bodies
<1>2. Len(t) \in Nat \ {0}
  BY <1>1, EmptySeq
<1>3. ASSUME NEW l \in 1..Len(t) PROVE t[l] \in Line /\ Len(t[l]) \in Nat
  <2>1. t[l] \in Line
    BY <1>1, ElementOfSeq
  <2> QED BY <2>1 DEF Line
<1> QED BY <1>1, <1>2, <1>3

\* The match that a line is searched for is one that is there, and there is none
\* between it and where the search began.
LEMMA MatchFromFacts ==
  ASSUME NEW n \in Needle, NEW line \in Line, NEW x \in Int, NEW back \in BOOLEAN
  PROVE  LET y == MatchFrom(n, line, x, back)
             near(z) == IF back THEN z <= x ELSE z >= x
             sooner(z) == IF back THEN z > y ELSE z < y IN
         /\ y # None => /\ y \in 0..Len(line) /\ MatchAt(n, line, y) /\ near(y)
                        /\ \A z \in 0..Len(line) : MatchAt(n, line, z) /\ near(z) => ~sooner(z)
         /\ y = None =>
              \A z \in 0..Len(line) :
                near(z) /\ (IF back THEN x <= Len(line) ELSE x >= 0) => ~MatchAt(n, line, z)
<1> DEFINE near(z) == IF back THEN z <= x ELSE z >= x
           hits == {z \in Matches(n, line) : near(z)}
           y == MatchFrom(n, line, x, back)
<1>1. Len(line) \in Nat
  BY DEF Line
<1>2. y = IF x \notin 0..Len(line) \/ hits = {} THEN None
          ELSE IF back THEN Max(hits) ELSE Min(hits)
  BY DEF MatchFrom
<1>3. /\ hits \subseteq 0..Len(line) /\ hits \subseteq Nat
      /\ \A z \in 0..Len(line) : z \in hits <=> MatchAt(n, line, z) /\ near(z)
  BY <1>1 DEF Matches
<1> HIDE DEF hits, y
<1>4. hits # {} => /\ Max(hits) \in hits /\ \A b \in hits : b <= Max(hits)
                   /\ Min(hits) \in hits /\ \A b \in hits : Min(hits) <= b
  BY <1>1, <1>3, LeastIn, GreatestIn
<1>5. CASE x \notin 0..Len(line) \/ hits = {}
  <2>1. y = None
    BY <1>2, <1>5
  <2>2. ASSUME NEW z \in 0..Len(line), near(z), IF back THEN x <= Len(line) ELSE x >= 0,
               MatchAt(n, line, z)
        PROVE  FALSE
    <3>1. z \in hits
      BY <1>3, <2>2
    <3>2. x \in 0..Len(line)
      BY <1>1, <2>2
    <3> QED BY <1>5, <3>1, <3>2
  <2> QED BY <2>1, <2>2 DEF y
<1>6. CASE x \in 0..Len(line) /\ hits # {}
  <2>1. y \in hits /\ y = IF back THEN Max(hits) ELSE Min(hits)
    BY <1>2, <1>4, <1>6
  <2>2. y # None
    BY <1>1, <1>3, <2>1 DEF None
  <2>3. ASSUME NEW z \in 0..Len(line), MatchAt(n, line, z), near(z)
        PROVE  ~(IF back THEN z > y ELSE z < y)
    <3>1. z \in hits /\ z \in Int /\ y \in Int
      BY <1>1, <1>3, <2>1, <2>3
    <3> QED BY <1>4, <1>6, <2>1, <3>1
  <2> QED BY <1>3, <2>1, <2>2, <2>3 DEF y
<1> QED BY <1>5, <1>6

\* What findnextstr finds in the line is a match in its direction.
LEMMA FoundFacts ==
  ASSUME Typed, pc = "look", Found # None
  PROVE  /\ Found \in 0..Len(text[at]) /\ Len(text[at]) \in Nat
         /\ Found + Len(last.str) <= Len(text[at])
<1>1. last \in Needle /\ text[at] \in Line /\ start \in Int /\ (way = "backward") \in BOOLEAN
      /\ Len(text[at]) \in Nat
  BY BodyFacts DEF Typed, Placed, Asking
<1>2. Found = MatchFrom(last, text[at], start, way = "backward")
  BY DEF Found
<1>3. Found \in 0..Len(text[at]) /\ MatchAt(last, text[at], Found)
  BY <1>1, <1>2, MatchFromFacts
<1> QED BY <1>1, <1>3 DEF MatchAt

-----------------------------------------------------------------------------
(* Lines.                                                                  *)

LEMMA PrefixLine ==
  ASSUME NEW line \in Line, NEW x \in Nat
  PROVE  Prefix(line, x) \in Line
<1>1. (IF x < Len(line) THEN x ELSE Len(line)) \in Nat /\ Len(line) \in Nat
  BY DEF Line
<1> QED BY <1>1, SubSeqProperties DEF Prefix, Line

LEMMA SuffixLine ==
  ASSUME NEW line \in Line, NEW x \in Nat
  PROVE  Suffix(line, x) \in Line
<1>1. Len(line) \in Nat
  BY DEF Line
<1> QED BY <1>1, SubSeqProperties DEF Suffix, Line

\* One line of a text but the last may be any other.
LEMMA ChangedText ==
  ASSUME NEW t \in Bodies, NEW l \in 1..Len(t) - 1, NEW line \in Line
  PROVE  LET u == [t EXCEPT ![l] = line] IN
         /\ u \in Bodies /\ Len(u) = Len(t) /\ u[l] = line
         /\ \A m \in 1..Len(t) : m # l => u[m] = t[m]
<1> DEFINE u == [t EXCEPT ![l] = line]
<1>1. Len(t) \in Nat \ {0} /\ t \in Seq(Line) /\ t[Len(t)] = <<>>
  BY BodyFacts
<1>2. l \in 1..Len(t) /\ l # Len(t) /\ Len(t) \in 1..Len(t)
  BY <1>1
<1>3. u \in Seq(Line) /\ Len(u) = Len(t)
  BY <1>1, <1>2
<1>4. u[l] = line /\ \A m \in 1..Len(t) : m # l => u[m] = t[m]
  BY <1>1, <1>2
<1>5. u[Len(u)] = <<>>
  BY <1>1, <1>2, <1>3, <1>4
<1>6. u # <<>>
  BY <1>1, <1>3, EmptySeq
<1> QED BY <1>3, <1>4, <1>5, <1>6 DEF Bodies

\* As many lines, the same places.
LEMMA SamePlaces ==
  ASSUME NEW t \in Bodies, NEW u \in Bodies, Len(u) = Len(t)
  PROVE  Spots(u) = Spots(t) /\ Frames(u) = Frames(t) /\ Kept(u) = Kept(t)
BY DEF Spots, Frames, Kept

\* The last line of the text is the magicline, whatever was replaced.
LEMMA Magicline ==
  ASSUME Typed
  PROVE  text[Len(text)] = <<>>
BY BodyFacts DEF Typed, Placed

\* No match of something is in the magicline.
LEMMA MatchAbove ==
  ASSUME Typed, pc = "found"
  PROVE  /\ cur[1] \in 1..Len(text) - 1 /\ cur[2] \in Nat /\ Len(last.str) \in Nat
         /\ text[cur[1]] \in Line /\ last.str # <<>>
<1>1. last.str # <<>> /\ last.str \in Line
  BY DEF Typed, Asking, Needle
<1>2. Len(last.str) \in Nat \ {0}
  BY <1>1, EmptySeq DEF Line
<1>3. cur[1] \in 1..Len(text) /\ Len(text) \in Nat \ {0}
  BY BodyFacts DEF Typed, Placed, Spots
<1>4. text[cur[1]] \in Line
  BY <1>3, BodyFacts DEF Typed, Placed
<1>5. ASSUME cur[1] = Len(text) PROVE FALSE
  <2>1. Len(text[cur[1]]) = 0
    BY <1>5, Magicline, EmptySeq
  <2>2. cur[2] \in Nat /\ cur[2] + Len(last.str) <= Len(text[cur[1]])
    BY DEF Typed, Matched
  <2> QED BY <1>2, <2>1, <2>2
<1> QED BY <1>1, <1>2, <1>3, <1>4, <1>5 DEF Typed, Matched

-----------------------------------------------------------------------------
(* The types, step by step.                                                *)

LEMMA TypedInit == Init => Typed
<1> SUFFICES ASSUME Init PROVE Typed
  OBVIOUS
<1>1. text \in Bodies
  BY TextsOK DEF Init
<1>2. ASSUME NEW p \in PositionsOf(text) PROVE p \in Spots(text) /\ p # NoMark
  <2>1. PICK l \in 1..Len(text) : p \in {l} \X (0..Len(text[l]))
    BY DEF PositionsOf
  <2>2. p \in Spots(text)
    BY <1>1, <2>1, BodyFacts DEF Spots
  <2>3. p = <<p[1], p[2]>>
    BY <2>1
  <2>4. Len(<<p[1], p[2]>>) = 2 /\ Len(<<>>) = 0
    OBVIOUS
  <2> QED BY <2>2, <2>3, <2>4 DEF NoMark
<1>3. Placed
  <2>1. cur \in Spots(text) /\ begin = cur /\ saved.cur = cur
    BY <1>2 DEF Init
  <2>2. mark \in Spots(text) \cup {NoMark} /\ markSet \in BOOLEAN /\ (markSet => mark # NoMark)
    BY <1>2 DEF Init
  <2>3. at \in 1..Len(text) /\ start \in Int /\ frame = NoFrame
    BY <1>1, BodyFacts DEF Init
  <2> QED BY <1>1, <2>1, <2>2, <2>3 DEF Placed
<1>4. Asking
  <2>1. <<>> \in Line
    BY DEF Line
  <2> QED BY <2>1 DEF Asking, Init, AllJobs, AllWays
<1>5. Matched
  BY DEF Matched, Init
<1>6. Stored
  <2>1. items = <<>> /\ undone = 0 /\ Len(items) = 0
    BY DEF Init
  <2> QED BY <2>1 DEF Stored
<1> QED BY <1>3, <1>4, <1>5, <1>6 DEF Typed

\* Where a search starts.
LEMMA LookFrom ==
  ASSUME Typed, NEW p \in Spots(text), NEW w
  PROVE  p[1] \in 1..Len(text) /\ p[2] \in Int /\ StartAt(p, w) \in Int
<1>1. p[1] \in 1..Len(text) /\ p[2] \in Int
  BY DEF Spots
<1> QED BY <1>1 DEF StartAt

Asks ==
    \/ \E j \in Jobs : DoPrompt(j)
    \/ ToggleBackwards \/ SwitchJob \/ Abort
    \/ \E n \in Needles : AskReplacement(n)

LEMMA TypedAsks ==
  ASSUME Typed, Asks
  PROVE  Typed'
<1> USE JobsOK, NeedlesOK
<1>1. CASE \E j \in Jobs : DoPrompt(j)
  <2>1. PICK j \in Jobs : DoPrompt(j)
    BY <1>1
  <2>2. job' \in {"search", "replace"} /\ job' \in AllJobs
    BY <2>1 DEF DoPrompt, AllJobs
  <2>3. pc' = "prompt" /\ jobs' = jobs + 1 /\ UNCHANGED <<way, last, answer, saved>>
    BY <2>1 DEF DoPrompt, loop
  <2>4. Asking'
    BY <2>2, <2>3 DEF Typed, Asking
  <2> QED BY <2>1, <2>4 DEF Typed, Placed, Matched, Stored, DoPrompt, buffer, finder, loop, undos
<1>2. CASE ToggleBackwards
  <2>1. Asking'
    BY <1>2 DEF Typed, Asking, ToggleBackwards, loop
  <2> QED BY <1>2, <2>1 DEF Typed, Placed, Matched, Stored, ToggleBackwards, buffer, finder,
                            loop, undos
<1>3. CASE SwitchJob
  <2>1. Asking'
    BY <1>3 DEF Typed, Asking, SwitchJob, loop
  <2> QED BY <1>3, <2>1 DEF Typed, Placed, Matched, Stored, SwitchJob, buffer, finder, loop, undos
<1>4. CASE Abort
  <2>1. Asking'
    BY <1>4 DEF Typed, Asking, Abort, loop
  <2> QED BY <1>4, <2>1 DEF Typed, Placed, Matched, Stored, Abort, buffer, finder, loop, undos
<1>5. CASE \E n \in Needles : AskReplacement(n)
  <2>1. PICK n \in Needles : AskReplacement(n)
    BY <1>5
  <2>2. Asking'
    BY <2>1 DEF Typed, Asking, AskReplacement, loop
  <2> QED BY <2>1, <2>2 DEF Typed, Placed, Matched, Stored, AskReplacement, buffer, finder,
                            loop, undos
<1> QED BY <1>1, <1>2, <1>3, <1>4, <1>5 DEF Asks

\* Looking on from a place in the text that the cursor, or the cursor's new place, is at.
LEMMA TypedSearch ==
  ASSUME Typed, NEW n \in Needles, DoSearch(n)
  PROVE  Typed'
<1>1. text' = text /\ cur' = cur /\ begin' = cur /\ mark' = mark /\ markSet' = markSet
      /\ frame' = frame /\ saved' = saved /\ items' = items /\ undone' = undone
      /\ at' = cur[1] /\ start' = StartAt(cur, way) /\ jobs' \in {jobs, jobs + 1}
  BY DEF DoSearch, Look, buffer, undos
<1>2. Placed'
  BY <1>1, LookFrom DEF Typed, Placed
<1>3. Asking'
  <2>1. job' = "search" /\ last' = n /\ pc' = "look" /\ way' = way /\ answer' = answer
    BY DEF DoSearch, Look
  <2>2. n \in Needle /\ jobs' \in Nat
    BY <1>1, NeedlesOK DEF Typed, Asking
  <2> QED BY <1>1, <2>1, <2>2 DEF Typed, Asking, AllJobs
<1>4. Matched' /\ Stored'
  BY <1>1 DEF Typed, Matched, Stored, DoSearch, Look
<1> QED BY <1>2, <1>3, <1>4 DEF Typed

LEMMA TypedReplace ==
  ASSUME Typed, "empty" \in Avoided, NEW a \in Replacements, DoReplace(a)
  PROVE  Typed'
<1>1. /\ text' = text /\ begin' = cur /\ mark' = mark /\ markSet' = FALSE
      /\ saved' = saved /\ items' = items /\ undone' = undone
      /\ at' = cur'[1] /\ start' = StartAt(cur', way)
      /\ frame' = IF markSet THEN FrameOf(cur, mark) ELSE NoFrame
      /\ cur' = IF markSet THEN FrameStart(frame') ELSE cur
  BY DEF DoReplace, Look, undos
<1>2. cur \in Spots(text)
  BY DEF Typed, Placed
<1>3. cur' \in Spots(text) /\ frame' \in Frames(text) \cup {NoFrame}
      /\ (frame' # NoFrame => mark # NoMark)
  <2>1. CASE ~markSet
    BY <1>1, <1>2, <2>1
  <2>2. CASE markSet
    <3>1. mark \in Spots(text) /\ mark # NoMark
      BY <2>2 DEF Typed, Placed
    <3>2. frame' \in Frames(text)
      BY <1>1, <1>2, <2>2, <3>1 DEF FrameOf, Frames
    <3>3. frame'.top \in Spots(text) /\ frame'.bot \in Spots(text)
      BY <3>2 DEF Frames
    <3>4. frame'.top[1] \in 1..Len(text) /\ frame'.top[2] \in Int
      BY <3>3 DEF Spots
    <3>5. cur' \in Spots(text)
      BY <1>1, <2>2, <3>3, <3>4 DEF FrameStart, Spots
    <3> QED BY <3>1, <3>2, <3>5
  <2> QED BY <2>1, <2>2
<1>4. Placed'
  <2>1. cur'[1] \in 1..Len(text) /\ StartAt(cur', way) \in Int
    BY <1>3, LookFrom
  <2> QED BY <1>1, <1>2, <1>3, <2>1 DEF Typed, Placed
<1>5. Asking'
  <2>1. job' = job /\ last' = last /\ pc' = "look" /\ pc = "with" /\ way' = way /\ answer' = a
        /\ jobs' = jobs /\ last.str # <<>> /\ job # "bracket"
    BY DEF DoReplace, Look, Typed, Asking
  <2> QED BY <1>1, <2>1, AnswersOK DEF Typed, Asking
<1>6. Matched' /\ Stored'
  BY <1>1 DEF Typed, Matched, Stored, DoReplace, Look
<1> QED BY <1>4, <1>5, <1>6 DEF Typed

LEMMA TypedSpell ==
  ASSUME Typed, NEW n \in Needles, SpellWord(n)
  PROVE  Typed'
<1>1. /\ text' = text /\ mark' = mark /\ markSet' = markSet /\ items' = items
      /\ undone' = undone /\ saved' = [cur |-> cur, last |-> last, way |-> way]
      /\ cur' = <<1, -1>> /\ begin' = <<1, 0>> /\ frame' = NoFrame /\ at' = 1 /\ start' = 0
      /\ ~markSet
  BY DEF SpellWord, undos
<1>2. Placed'
  <2>1. text \in Bodies /\ cur \in Spots(text) /\ mark \in Spots(text) \cup {NoMark}
    BY DEF Typed, Placed
  <2>2. <<1, -1>> \in Spots(text) /\ <<1, 0>> \in Spots(text) /\ 1 \in 1..Len(text)
    BY <2>1, BodyFacts DEF Spots
  <2>3. saved'.cur = cur /\ mark' \in Spots(text) \cup {NoMark} /\ markSet' \in BOOLEAN
        /\ ~(markSet' \/ frame' # NoFrame)
    BY <1>1, <2>1 DEF Typed, Placed
  <2>4. text' \in Bodies /\ cur' \in Spots(text') /\ begin' \in Spots(text')
        /\ at' \in 1..Len(text') /\ start' \in Int
    BY <1>1, <2>1, <2>2
  <2> QED BY <1>1, <2>1, <2>3, <2>4 DEF Placed
<1>3. Asking'
  <2>1. job' = "spell" /\ last' = n /\ pc' = "look" /\ way' = "forward" /\ answer' = answer
        /\ jobs' = jobs + 1 /\ n.str # <<>>
    BY DEF SpellWord
  <2> QED BY <1>1, <2>1, NeedlesOK DEF Typed, Asking, AllJobs, AllWays
<1>4. Matched' /\ Stored'
  BY <1>1 DEF Typed, Matched, Stored, SpellWord
<1> QED BY <1>2, <1>3, <1>4 DEF Typed

LEMMA TypedCorrect ==
  ASSUME Typed, NEW a \in Replacements, Correct(a)
  PROVE  Typed'
<1>1. /\ text' = text /\ mark' = mark /\ markSet' = markSet /\ items' = items /\ frame' = frame
      /\ undone' = undone /\ saved' = saved /\ pc = "found" /\ pc' = "look"
      /\ cur' = <<cur[1], cur[2] - 1>> /\ begin' = cur' /\ at' = cur[1] /\ start' = cur[2]
  BY DEF Correct, undos
<1>2. cur[1] \in 1..Len(text) /\ cur[2] \in Int
  BY LookFrom DEF Typed, Placed
<1>3. Placed'
  <2>1. <<cur[1], cur[2] - 1>> \in Spots(text)
    BY <1>2 DEF Spots
  <2> QED BY <1>1, <1>2, <2>1 DEF Typed, Placed
<1>4. Asking'
  BY <1>1, AnswersOK DEF Typed, Asking, Correct
<1>5. Matched' /\ Stored'
  BY <1>1 DEF Typed, Matched, Stored
<1> QED BY <1>3, <1>4, <1>5 DEF Typed

\* Where the search or the replacing ends, the text is as it was.
LEMMA FinishKeepsText ==
  ASSUME Typed, NEW end, Finish(end)
  PROVE  text' = text
BY Magicline DEF Finish

LEMMA TypedFinish ==
  ASSUME Typed, NEW end, Finish(end),
         UNCHANGED <<mark, job, answer, finder, loop, undos, jobs, from>>
  PROVE  Typed'
<1>1. text' = text
  BY FinishKeepsText
<1>2. Placed'
  <2>1. cur' \in {cur, begin, saved.cur} /\ markSet' = (markSet \/ frame # NoFrame)
    BY DEF Finish
  <2> QED BY <1>1, <2>1 DEF Typed, Placed, finder, loop
<1>3. Asking'
  <2>1. pc' = "main" /\ last' \in {last, saved.last} /\ way' \in {way, saved.way}
    BY DEF Finish
  <2> QED BY <2>1 DEF Typed, Asking, loop
<1>4. Matched' /\ Stored'
  BY <1>1 DEF Typed, Matched, Stored, Finish, undos
<1> QED BY <1>2, <1>3, <1>4 DEF Typed

Ends ==
    \/ NotFound \/ Interrupt \/ LeaveRegion \/ CancelReplace

LEMMA EndsFinish ==
  ASSUME Ends
  PROVE  /\ \E end : Finish(end)
         /\ UNCHANGED <<mark, job, answer, finder, loop, undos, jobs, from>>
<1>1. CASE NotFound
  BY <1>1 DEF NotFound
<1>2. CASE Interrupt
  BY <1>2 DEF Interrupt
<1>3. CASE LeaveRegion
  BY <1>3 DEF LeaveRegion
<1>4. CASE CancelReplace
  BY <1>4 DEF CancelReplace
<1> QED BY <1>1, <1>2, <1>3, <1>4 DEF Ends

Looks == NextLine \/ FoundMatch \/ ReadOn \/ SkipInstance

LEMMA TypedLooks ==
  ASSUME Typed, Looks
  PROVE  Typed'
<1>1. CASE NextLine
  <2>1. Len(text) \in Nat \ {0} /\ at \in 1..Len(text)
    BY BodyFacts DEF Typed, Placed
  <2>2. at' \in 1..Len(text)
    BY <1>1, <2>1 DEF NextLine
  <2>3. start' \in Int
    BY <1>1, <2>2, BodyFacts DEF NextLine, Typed, Placed
  <2>4. Placed'
    BY <1>1, <2>2, <2>3 DEF Typed, Placed, NextLine, buffer, loop
  <2>5. Asking'
    BY <1>1 DEF Typed, Asking, NextLine, loop
  <2> QED BY <1>1, <2>4, <2>5 DEF Typed, Matched, Stored, NextLine, buffer, undos
<1>2. CASE FoundMatch
  <2>1. Found \in 0..Len(text[at]) /\ Found + Len(last.str) <= Len(text[at])
        /\ Len(text[at]) \in Nat
    BY <1>2, FoundFacts DEF FoundMatch
  <2>2. cur' = <<at, Found>> /\ text' = text /\ last' = last /\ pc = "look"
    BY <1>2 DEF FoundMatch
  <2>3. cur' \in Spots(text)
    BY <2>1, <2>2 DEF Typed, Placed, Spots
  <2>4. Placed'
    BY <1>2, <2>2, <2>3 DEF Typed, Placed, FoundMatch, finder, loop
  <2>5. Asking'
    BY <1>2 DEF Typed, Asking, FoundMatch, loop
  <2>6. Matched'
    BY <2>1, <2>2 DEF Matched
  <2> QED BY <1>2, <2>2, <2>4, <2>5, <2>6 DEF Typed, Stored, FoundMatch, undos
<1>3. CASE ReadOn
  <2>1. Asking'
    BY <1>3 DEF Typed, Asking, ReadOn, loop
  <2> QED BY <1>3, <2>1 DEF Typed, Placed, Matched, Stored, ReadOn, buffer, finder, loop, undos
<1>4. CASE SkipInstance
  <2>1. cur[1] \in 1..Len(text) /\ StartAt(cur, way) \in Int
    BY LookFrom DEF Typed, Placed
  <2>2. Placed'
    BY <1>4, <2>1 DEF Typed, Placed, SkipInstance, Look, buffer
  <2>3. Asking'
    BY <1>4 DEF Typed, Asking, SkipInstance, Look
  <2> QED BY <1>4, <2>2, <2>3 DEF Typed, Matched, Stored, SkipInstance, Look, buffer, undos
<1> QED BY <1>1, <1>2, <1>3, <1>4 DEF Looks

\* A replacement changes the line of the match alone, and keeps the line as it was.
LEMMA ReplaceOneFacts ==
  ASSUME Typed, NEW all, ReplaceOne(all)
  PROVE  LET kept == Len(items) - undone
             item == [lineno |-> cur[1], begin |-> cur[2], str |-> text[cur[1]]] IN
         /\ cur[1] \in 1..Len(text) - 1
         /\ text' \in Bodies /\ Len(text') = Len(text)
         /\ \A m \in 1..Len(text) : m # cur[1] => text'[m] = text[m]
         /\ text'[cur[1]] = Prefix(text[cur[1]], cur[2]) \o answer
                              \o Suffix(text[cur[1]], MatchEnd)
         /\ kept \in 0..Len(items) /\ item \in Kept(text)
         /\ items' = Append(SubSeq(items, 1, kept), item) /\ undone' = 0
         /\ snaps' = Append(SubSeq(snaps, 1, kept + 1), text')
<1> DEFINE kept == Len(items) - undone
           item == [lineno |-> cur[1], begin |-> cur[2], str |-> text[cur[1]]]
           line == Prefix(text[cur[1]], cur[2]) \o answer \o Suffix(text[cur[1]], MatchEnd)
<1>1. pc = "found" /\ text' = [text EXCEPT ![cur[1]] = line] /\ AddItem(cur[1], text[cur[1]])
  BY DEF ReplaceOne
<1>2. /\ cur[1] \in 1..Len(text) - 1 /\ cur[2] \in Nat /\ Len(last.str) \in Nat
      /\ text[cur[1]] \in Line
  BY <1>1, MatchAbove
<1>3. line \in Line
  <2>1. MatchEnd \in Nat /\ answer \in Line
    BY <1>2 DEF MatchEnd, Typed, Asking
  <2>2. Prefix(text[cur[1]], cur[2]) \in Line /\ Suffix(text[cur[1]], MatchEnd) \in Line
    BY <1>2, <2>1, PrefixLine, SuffixLine
  <2> QED BY <2>1, <2>2, ConcatProperties DEF Line
<1> HIDE DEF line
<1>4. /\ text' \in Bodies /\ Len(text') = Len(text) /\ text'[cur[1]] = line
      /\ \A m \in 1..Len(text) : m # cur[1] => text'[m] = text[m]
  <2>1. text \in Bodies
    BY DEF Typed, Placed
  <2> DEFINE u == [text EXCEPT ![cur[1]] = line]
  <2>2. text' = u
    BY <1>1 DEF line
  <2>3. u \in Bodies /\ Len(u) = Len(text) /\ u[cur[1]] = line
        /\ \A m \in 1..Len(text) : m # cur[1] => u[m] = text[m]
    BY <1>2, <1>3, <2>1, ChangedText
  <2> HIDE DEF u
  <2> QED BY <2>2, <2>3
<1>5. kept \in 0..Len(items)
  <2>1. Len(items) \in Nat /\ undone \in 0..Len(items)
    BY LenProperties DEF Typed, Stored
  <2> QED BY <2>1
<1>6. item \in Kept(text)
  BY <1>2 DEF Kept
<1> QED BY <1>1, <1>2, <1>4, <1>5, <1>6 DEF AddItem, line

LEMMA TypedReplaceOne ==
  ASSUME Typed, NEW all, ReplaceOne(all)
  PROVE  Typed'
<1> DEFINE kept == Len(items) - undone
           item == [lineno |-> cur[1], begin |-> cur[2], str |-> text[cur[1]]]
<1>1. /\ cur[1] \in 1..Len(text) - 1 /\ text' \in Bodies /\ Len(text') = Len(text)
      /\ kept \in 0..Len(items) /\ item \in Kept(text)
      /\ items' = Append(SubSeq(items, 1, kept), item) /\ undone' = 0
  BY ReplaceOneFacts
<1> HIDE DEF kept, item
<1>2. Spots(text') = Spots(text) /\ Frames(text') = Frames(text) /\ Kept(text') = Kept(text)
  BY <1>1, SamePlaces DEF Typed, Placed
<1>3. /\ cur[1] \in 1..Len(text) /\ cur[2] \in Int /\ Len(last.str) \in Nat /\ Len(answer) \in Nat
      /\ pc = "found" /\ last \in Needle
  <2>1. pc = "found" /\ cur[1] \in 1..Len(text)
    BY LookFrom DEF ReplaceOne, Typed, Placed
  <2>2. cur[2] \in Int /\ Len(last.str) \in Nat
    BY <2>1, MatchAbove
  <2>3. Len(answer) \in Nat /\ last \in Needle
    BY <2>1, LenProperties DEF Typed, Asking, Line
  <2> QED BY <2>1, <2>2, <2>3
<1>4. MatchEnd \in Int /\ Change \in Int
  BY <1>3 DEF MatchEnd, Change
<1>5. ASSUME NEW p \in Spots(text)
      PROVE  p[1] \in 1..Len(text) /\ p[2] \in Int /\ SyncedMark(p) \in Spots(text)
             /\ SyncedBegin(p) \in Spots(text)
  <2>1. p[1] \in 1..Len(text) /\ p[2] \in Int
    BY DEF Spots
  <2>2. SyncedMark(p) \in Spots(text)
    BY <1>3, <1>4, <2>1 DEF SyncedMark, Spots
  <2>3. SyncedBegin(p) \in Spots(text)
    BY <1>3, <1>4, <2>1 DEF SyncedBegin, Spots
  <2> QED BY <2>1, <2>2, <2>3
<1>6. cur' \in Spots(text) /\ cur'[1] = cur[1]
  <2> DEFINE x == IF job = "spell" /\ cur[1] = begin[1] THEN MatchEnd + Change ELSE cur[2]
  <2>1. cur' = <<cur[1], IF way = "backward" THEN x ELSE ResumeAt(x)>>
    BY DEF ReplaceOne
  <2>2. x \in Int /\ ResumeAt(x) \in Int
    BY <1>3, <1>4 DEF ResumeAt
  <2> HIDE DEF x
  <2> QED BY <1>3, <2>1, <2>2 DEF Spots
<1>7. /\ mark' \in Spots(text) \cup {NoMark}
      /\ (mark # NoMark => mark' # NoMark)
  <2>1. mark \in Spots(text) \cup {NoMark}
    BY DEF Typed, Placed
  <2>2. mark' = mark \/ (mark # NoMark /\ mark' = SyncedMark(mark))
    BY DEF ReplaceOne
  <2>3. ASSUME NEW p \in Spots(text) PROVE p # NoMark
    <3>1. p = <<p[1], p[2]>> /\ Len(<<p[1], p[2]>>) = 2 /\ Len(<<>>) = 0
      BY DEF Spots
    <3> QED BY <3>1 DEF NoMark
  <2> QED BY <1>5, <2>1, <2>2, <2>3
<1>8. /\ frame' \in Frames(text) \cup {NoFrame} /\ (frame' # NoFrame => frame # NoFrame)
  <2>1. begin[2] \in Int
    BY LookFrom DEF Typed, Placed
  <2>2. frame' = frame \/ (frame # NoFrame /\ frame' = [frame EXCEPT !.bot = <<@[1], begin[2]>>])
    BY DEF ReplaceOne
  <2>3. CASE frame' = frame
    BY <2>3 DEF Typed, Placed
  <2>4. CASE frame # NoFrame /\ frame' = [frame EXCEPT !.bot = <<@[1], begin[2]>>]
    <3>1. frame \in Frames(text)
      BY <2>4 DEF Typed, Placed
    <3>2. frame.bot[1] \in 1..Len(text)
      BY <3>1 DEF Frames, Spots
    <3>3. <<frame.bot[1], begin[2]>> \in Spots(text)
      BY <2>1, <3>2 DEF Spots
    <3> QED BY <2>4, <3>1, <3>3 DEF Frames
  <2> QED BY <2>2, <2>3, <2>4
<1>9. Placed'
  <2>1. begin' \in Spots(text)
    BY <1>5 DEF ReplaceOne, Typed, Placed
  <2>2. at' = cur[1] /\ start' = StartAt(cur', way) /\ saved' = saved /\ markSet' = markSet
    BY DEF ReplaceOne
  <2>3. start' \in Int
    BY <1>6, <2>2, LookFrom
  <2> QED BY <1>1, <1>2, <1>3, <1>6, <1>7, <1>8, <2>1, <2>2, <2>3 DEF Typed, Placed
<1>10. Asking' /\ Matched'
  BY <1>3 DEF Typed, Asking, Matched, ReplaceOne
<1>11. Stored'
  <2>1. items \in Seq(Kept(text)) /\ Len(items) \in Nat
    BY LenProperties DEF Typed, Stored
  <2>2. SubSeq(items, 1, kept) \in Seq(Kept(text))
    BY <1>1, <2>1, SubSeqProperties
  <2>3. items' \in Seq(Kept(text)) /\ Len(items') \in Nat
    BY <1>1, <2>2, AppendProperties, LenProperties
  <2> QED BY <1>1, <1>2, <2>3 DEF Stored
<1> QED BY <1>9, <1>10, <1>11 DEF Typed

\* Undo and redo put the line of an item in the place of the one that the text has.
LEMMA SwapFacts ==
  ASSUME Typed, NEW k \in 1..Len(items), Swap(k, text[items[k].lineno])
  PROVE  LET l == items[k].lineno IN
         /\ l \in 1..Len(text) - 1
         /\ text' \in Bodies /\ Len(text') = Len(text) /\ text'[l] = items[k].str
         /\ \A m \in 1..Len(text) : m # l => text'[m] = text[m]
         /\ cur' \in Spots(text)
         /\ items' \in Seq(Kept(text)) /\ Len(items') = Len(items)
         /\ \A j \in 1..Len(items) : /\ items'[j].lineno = items[j].lineno
                                     /\ j # k => items'[j] = items[j]
         /\ items'[k].str = text[l]
<1> DEFINE l == items[k].lineno
<1>1. /\ items \in Seq(Kept(text)) /\ Len(items) \in Nat /\ items[k] \in Kept(text)
  BY LenProperties, ElementOfSeq DEF Typed, Stored
<1>2. l \in 1..Len(text) - 1 /\ items[k].str \in Line /\ items[k].begin \in Int
  BY <1>1 DEF Kept
<1>3. Len(text) \in Nat \ {0} /\ l \in 1..Len(text) /\ text[l] \in Line
  <2>1. Len(text) \in Nat \ {0}
    BY BodyFacts DEF Typed, Placed
  <2>2. l \in 1..Len(text)
    BY <1>2, <2>1
  <2> QED BY <2>1, <2>2, BodyFacts DEF Typed, Placed
<1>4. /\ text' = [text EXCEPT ![l] = items[k].str]
      /\ items' = [items EXCEPT ![k].str = text[l]]
      /\ cur' = <<l, items[k].begin>>
  BY DEF Swap
<1> HIDE DEF l
<1>5. /\ text' \in Bodies /\ Len(text') = Len(text) /\ text'[l] = items[k].str
      /\ \A m \in 1..Len(text) : m # l => text'[m] = text[m]
  <2>1. text \in Bodies
    BY DEF Typed, Placed
  <2> DEFINE u == [text EXCEPT ![l] = items[k].str]
  <2>2. text' = u
    BY <1>4
  <2>3. u \in Bodies /\ Len(u) = Len(text) /\ u[l] = items[k].str
        /\ \A m \in 1..Len(text) : m # l => u[m] = text[m]
    BY <1>2, <2>1, ChangedText
  <2> HIDE DEF u
  <2> QED BY <2>2, <2>3
<1>6. cur' \in Spots(text)
  BY <1>2, <1>3, <1>4 DEF Spots
<1>7. [items[k] EXCEPT !.str = text[l]] \in Kept(text)
  BY <1>1, <1>3 DEF Kept
<1>8. items' = [items EXCEPT ![k] = [items[k] EXCEPT !.str = text[l]]]
  BY <1>4
<1>9. items' \in Seq(Kept(text)) /\ Len(items') = Len(items)
  BY <1>1, <1>7, <1>8
<1>10. /\ items'[k] = [items[k] EXCEPT !.str = text[l]]
       /\ \A j \in 1..Len(items) : j # k => items'[j] = items[j]
  BY <1>1, <1>8
<1>11. items'[k].str = text[l] /\ items'[k].lineno = items[k].lineno
  BY <1>1, <1>10 DEF Kept
<1> QED BY <1>2, <1>5, <1>6, <1>9, <1>10, <1>11 DEF l

\* Which item undo and redo swap.
LEMMA Swapped ==
  ASSUME Typed, Undo \/ Redo
  PROVE  \E k \in 1..Len(items) :
           /\ Swap(k, text[items[k].lineno])
           /\ \/ Undo /\ k = Len(items) - undone /\ undone' = undone + 1
              \/ Redo /\ k = Len(items) - undone + 1 /\ undone' = undone - 1
           /\ undone' \in 0..Len(items)
<1>1. Len(items) \in Nat /\ undone \in 0..Len(items)
  BY LenProperties DEF Typed, Stored
<1>2. CASE Undo
  <2>1. Len(items) - undone \in 1..Len(items) /\ undone + 1 \in 0..Len(items)
    BY <1>1, <1>2 DEF Undo
  <2> QED BY <1>2, <2>1 DEF Undo
<1>3. CASE Redo
  <2>1. Len(items) - undone + 1 \in 1..Len(items) /\ undone - 1 \in 0..Len(items)
    BY <1>1, <1>3 DEF Redo
  <2> QED BY <1>3, <2>1 DEF Redo
<1> QED BY <1>2, <1>3

LEMMA TypedSwap ==
  ASSUME Typed, Undo \/ Redo
  PROVE  Typed'
<1>1. PICK k \in 1..Len(items) : /\ Swap(k, text[items[k].lineno])
                                 /\ undone' \in 0..Len(items)
  BY Swapped
<1>2. /\ text' \in Bodies /\ Len(text') = Len(text) /\ cur' \in Spots(text)
      /\ items' \in Seq(Kept(text)) /\ Len(items') = Len(items)
  BY <1>1, SwapFacts
<1>3. Spots(text') = Spots(text) /\ Frames(text') = Frames(text) /\ Kept(text') = Kept(text)
  BY <1>2, SamePlaces DEF Typed, Placed
<1>4. UNCHANGED <<mark, markSet, pc, job, way, last, answer, finder, loop, jobs>> /\ pc = "main"
  BY DEF Undo, Redo
<1>5. Placed'
  BY <1>2, <1>3, <1>4 DEF Typed, Placed, finder, loop
<1>6. Asking' /\ Matched'
  BY <1>4 DEF Typed, Asking, Matched, loop
<1> QED BY <1>1, <1>2, <1>3, <1>5, <1>6 DEF Typed, Stored

LEMMA TypedGoto ==
  ASSUME Typed, NEW line \in Int, NEW column \in Int, NEW relative, GotoLine(line, column, relative)
  PROVE  Typed'
<1> DEFINE want == IF relative THEN cur[1] + line ELSE line
           l == Max({1, Min({want, Len(text)})})
<1>1. cur' = <<l, Min({column - 1, Len(text[l])})>> /\ column >= 1 /\ pc' = "main"
  BY DEF GotoLine
<1>2. Len(text) \in Nat \ {0} /\ want \in Int
  <2>1. cur[1] \in Int
    BY DEF Typed, Placed, Spots
  <2> QED BY <2>1, BodyFacts DEF Typed, Placed
<1> HIDE DEF want
<1>3. ASSUME NEW a \in Int, NEW b \in Int
      PROVE  Min({a, b}) = (IF a <= b THEN a ELSE b) /\ Max({a, b}) = (IF a >= b THEN a ELSE b)
  BY DEF Min, Max
<1>4. l \in 1..Len(text)
  <2>1. Min({want, Len(text)}) = IF want <= Len(text) THEN want ELSE Len(text)
    BY <1>2, <1>3
  <2> DEFINE m == Min({want, Len(text)})
  <2>2. m \in Int /\ m <= Len(text)
    BY <1>2, <2>1
  <2> HIDE DEF m
  <2>3. Max({1, m}) = IF 1 >= m THEN 1 ELSE m
    BY <1>3, <2>2
  <2> QED BY <1>2, <2>2, <2>3 DEF m
<1> HIDE DEF l
<1>5. Len(text[l]) \in Nat
  BY <1>4, BodyFacts DEF Typed, Placed
<1>6. Min({column - 1, Len(text[l])}) \in Int
  <2>1. column - 1 \in Int
    OBVIOUS
  <2> QED BY <1>3, <1>5, <2>1
<1>7. cur' \in Spots(text)
  BY <1>1, <1>4, <1>6 DEF Spots
<1>8. Placed'
  BY <1>7 DEF Typed, Placed, GotoLine, finder, loop
<1>9. Asking'
  BY DEF Typed, Asking, GotoLine, loop
<1> QED BY <1>8, <1>9 DEF Typed, Matched, Stored, GotoLine, undos

\* The next bracket of the line is in the line.
LEMMA NextBracketFacts ==
  ASSUME Typed, NextBracket # None
  PROVE  /\ NextBracket \in 0..Len(text[at]) /\ OpensAt(text[at], NextBracket)
         /\ IF Reversed THEN NextBracket <= start ELSE NextBracket >= start
         /\ \A x \in 0..Len(text[at]) :
              OpensAt(text[at], x) /\ (IF Reversed THEN x <= start ELSE x >= start) =>
              IF Reversed THEN x <= NextBracket ELSE x >= NextBracket
<1> DEFINE here == {x \in 0..Len(text[at]) : OpensAt(text[at], x)}
           hits == {x \in here : IF Reversed THEN x <= start ELSE x >= start}
<1>1. NextBracket = IF hits = {} THEN None ELSE IF Reversed THEN Max(hits) ELSE Min(hits)
  BY DEF NextBracket
<1>2. Len(text[at]) \in Nat
  BY BodyFacts DEF Typed, Placed
<1>3. hits \subseteq 0..Len(text[at]) /\ hits \subseteq Nat
  BY <1>2
<1>4. \A x \in 0..Len(text[at]) :
        x \in hits <=> OpensAt(text[at], x) /\ (IF Reversed THEN x <= start ELSE x >= start)
  OBVIOUS
<1> HIDE DEF hits
<1>5. hits # {}
  BY <1>1
<1>6. CASE Reversed
  <2>1. NextBracket = Max(hits)
    BY <1>1, <1>5, <1>6
  <2>2. Max(hits) \in hits /\ \A b \in hits : b <= Max(hits)
    BY <1>2, <1>3, <1>5, GreatestIn
  <2> QED BY <1>3, <1>4, <1>6, <2>1, <2>2
<1>7. CASE ~Reversed
  <2>1. NextBracket = Min(hits)
    BY <1>1, <1>5, <1>7
  <2>2. Min(hits) \in hits /\ \A b \in hits : Min(hits) <= b
    BY <1>3, <1>5, LeastIn
  <2>3. \A b \in hits : b >= Min(hits)
    BY <1>3, <2>2
  <2> QED BY <1>3, <1>4, <1>7, <2>1, <2>2, <2>3
<1> QED BY <1>6, <1>7

BracketSearch == DoFindBracket \/ BracketStep \/ BracketLine \/ NoBracket

LEMMA TypedBrackets ==
  ASSUME Typed, BracketSearch
  PROVE  Typed'
<1>1. CASE DoFindBracket
  <2>1. cur[1] \in 1..Len(text) /\ StartAt(cur, BracketWay(cur)) \in Int
    BY LookFrom DEF Typed, Placed
  <2>2. Placed'
    BY <1>1, <2>1 DEF Typed, Placed, DoFindBracket, buffer
  <2>3. Asking'
    BY <1>1 DEF Typed, Asking, DoFindBracket, AllJobs
  <2> QED BY <1>1, <2>2, <2>3 DEF Typed, Matched, Stored, DoFindBracket, buffer, undos
<1>2. CASE BracketStep
  <2>1. NextBracket \in 0..Len(text[at]) /\ at \in 1..Len(text) /\ Len(text[at]) \in Nat
    BY <1>2, NextBracketFacts, BodyFacts DEF BracketStep, Typed, Placed
  <2>2. cur' \in Spots(text) /\ cur' = <<at, NextBracket>>
    BY <1>2, <2>1 DEF BracketStep, Spots
  <2>3. start' \in Int
    <3>1. StartAt(cur', BracketWay(saved.cur)) \in Int
      BY <2>2, LookFrom
    <3> QED BY <1>2, <3>1 DEF BracketStep, Typed, Placed
  <2>4. Placed'
    BY <1>2, <2>2, <2>3 DEF Typed, Placed, BracketStep
  <2>5. pc' \in {"main", "bracket"}
    BY <1>2 DEF BracketStep
  <2>6. Asking' /\ Matched'
    BY <1>2, <2>5 DEF Typed, Asking, Matched, BracketStep
  <2> QED BY <1>2, <2>4, <2>6 DEF Typed, Stored, BracketStep, undos
<1>3. CASE BracketLine
  <2>1. at' \in 1..Len(text) /\ start' = IF Reversed THEN Len(text[at']) ELSE 0
    BY <1>3 DEF BracketLine
  <2>2. start' \in Int
    BY <2>1, BodyFacts DEF Typed, Placed
  <2>3. Placed'
    BY <1>3, <2>1, <2>2 DEF Typed, Placed, BracketLine, buffer, loop
  <2>4. Asking'
    BY <1>3 DEF Typed, Asking, BracketLine, loop
  <2> QED BY <1>3, <2>3, <2>4 DEF Typed, Matched, Stored, BracketLine, buffer, undos
<1>4. CASE NoBracket
  <2>1. Placed'
    BY <1>4 DEF Typed, Placed, NoBracket, finder, loop
  <2>2. Asking'
    BY <1>4 DEF Typed, Asking, NoBracket, loop
  <2> QED BY <1>4, <2>1, <2>2 DEF Typed, Matched, Stored, NoBracket, undos
<1> QED BY <1>1, <1>2, <1>3, <1>4 DEF BracketSearch

LEMMA TypedStutter ==
  ASSUME Typed, UNCHANGED vars
  PROVE  Typed'
BY DEF Typed, Placed, Asking, Matched, Stored, vars, buffer, finder, loop, undos

\* The steps that change the text, and the others.
Other ==
    \/ Asks \/ Looks \/ Ends \/ BracketSearch
    \/ \E n \in Needles : DoSearch(n) \/ SpellWord(n)
    \/ \E a \in Replacements : DoReplace(a) \/ Correct(a)
    \/ \E line \in -1..2, column \in 1..2, relative \in BOOLEAN : GotoLine(line, column, relative)

LEMMA NextCases ==
  ASSUME [Next]_vars
  PROVE  \/ Other
         \/ \E all \in BOOLEAN : ReplaceOne(all)
         \/ Undo \/ Redo
         \/ UNCHANGED vars
<1>1. CASE Step
  BY <1>1 DEF Step, Other, Looks, Ends, BracketSearch
<1>2. CASE \/ \E j \in Jobs : DoPrompt(j)
           \/ ToggleBackwards \/ SwitchJob \/ Abort
           \/ \E n \in Needles : DoSearch(n) \/ AskReplacement(n) \/ SpellWord(n)
  BY <1>2 DEF Other, Asks
<1>3. CASE \E a \in Replacements : DoReplace(a)
  BY <1>3 DEF Other
<1>4. CASE \E line \in -1..2, column \in 1..2, relative \in BOOLEAN :
             GotoLine(line, column, relative)
  BY <1>4 DEF Other
<1>5. CASE DoFindBracket
  BY <1>5 DEF Other, BracketSearch
<1> QED BY <1>1, <1>2, <1>3, <1>4, <1>5 DEF Next

LEMMA TypedOther ==
  ASSUME Typed, "empty" \in Avoided, Other
  PROVE  Typed'
<1>1. CASE Ends
  BY <1>1, EndsFinish, TypedFinish
<1>2. CASE \E n \in Needles : DoSearch(n) \/ SpellWord(n)
  BY <1>2, TypedSearch, TypedSpell
<1>3. CASE \E a \in Replacements : DoReplace(a) \/ Correct(a)
  BY <1>3, TypedReplace, TypedCorrect
<1>4. CASE \E line \in -1..2, column \in 1..2, relative \in BOOLEAN :
             GotoLine(line, column, relative)
  <2>1. PICK line \in Int, column \in Int, relative \in BOOLEAN :
               GotoLine(line, column, relative)
    BY <1>4
  <2> QED BY <2>1, TypedGoto
<1>5. CASE Asks \/ Looks \/ BracketSearch
  BY <1>5, TypedAsks, TypedLooks, TypedBrackets
<1> QED BY <1>1, <1>2, <1>3, <1>4, <1>5 DEF Other

LEMMA TypedStep ==
  ASSUME Typed, "empty" \in Avoided, [Next]_vars
  PROVE  Typed'
<1>1. CASE Other
  BY <1>1, TypedOther
<1>2. CASE \E all \in BOOLEAN : ReplaceOne(all)
  BY <1>2, TypedReplaceOne
<1>3. CASE Undo \/ Redo
  BY <1>3, TypedSwap
<1>4. CASE UNCHANGED vars
  BY <1>4, TypedStutter
<1> QED BY <1>1, <1>2, <1>3, <1>4, NextCases

-----------------------------------------------------------------------------
(* Undo and redo.                                                          *)

\* Two texts with the same lines but for one.
Apart(t, u, l) == \A m \in 1..Len(t) : m # l => t[m] = u[m]

\* The texts between the items: each item holds the line of the text that it leads to,
\* undone or not, and the two texts around it have the same other lines.
Stacked ==
    /\ snaps \in Seq(Bodies) /\ Len(snaps) = Len(items) + 1
    /\ \A k \in 1..Len(snaps) : Len(snaps[k]) = Len(text)
    /\ \A k \in 1..Len(items) :
         /\ Apart(snaps[k], snaps[k + 1], items[k].lineno)
         /\ items[k].str = snaps[IF k <= Len(items) - undone THEN k ELSE k + 1][items[k].lineno]
    /\ text = snaps[Len(items) - undone + 1]

\* Texts with the same lines are the same.
LEMMA SameLines ==
  ASSUME NEW t \in Bodies, NEW u \in Bodies, Len(t) = Len(u), \A m \in 1..Len(t) : t[m] = u[m]
  PROVE  t = u
<1>1. t \in Seq(Line) /\ u \in Seq(Line)
  BY DEF Bodies
<1> QED BY <1>1, SeqEqual

LEMMA StackedInit == Init => Stacked
<1> SUFFICES ASSUME Init PROVE Stacked
  OBVIOUS
<1>1. text \in Bodies /\ items = <<>> /\ undone = 0 /\ snaps = <<text>>
  BY TextsOK DEF Init
<1>2. Len(snaps) = 1 /\ Len(items) = 0 /\ snaps[1] = text /\ snaps \in Seq(Bodies)
  BY <1>1
<1> QED BY <1>1, <1>2 DEF Stacked

LEMMA StackedReplaceOne ==
  ASSUME Typed, Stacked, NEW all, ReplaceOne(all)
  PROVE  Stacked'
<1> DEFINE kept == Len(items) - undone
           item == [lineno |-> cur[1], begin |-> cur[2], str |-> text[cur[1]]]
           olds == SubSeq(items, 1, kept)
           before == SubSeq(snaps, 1, kept + 1)
<1>1. /\ cur[1] \in 1..Len(text) - 1 /\ text' \in Bodies /\ Len(text') = Len(text)
      /\ \A m \in 1..Len(text) : m # cur[1] => text'[m] = text[m]
      /\ kept \in 0..Len(items) /\ item \in Kept(text)
      /\ items' = Append(olds, item) /\ undone' = 0 /\ snaps' = Append(before, text')
  BY ReplaceOneFacts
<1>2. items \in Seq(Kept(text)) /\ Len(items) \in Nat /\ undone \in 0..Len(items)
  BY LenProperties DEF Typed, Stored
<1>3. /\ snaps \in Seq(Bodies) /\ Len(snaps) = Len(items) + 1 /\ text = snaps[kept + 1]
      /\ \A k \in 1..Len(snaps) : Len(snaps[k]) = Len(text)
      /\ \A k \in 1..Len(items) :
           /\ Apart(snaps[k], snaps[k + 1], items[k].lineno)
           /\ items[k].str = snaps[IF k <= kept THEN k ELSE k + 1][items[k].lineno]
  BY DEF Stacked
<1>4. item.lineno = cur[1] /\ item.str = text[cur[1]]
  OBVIOUS
<1> HIDE DEF item
<1>5. /\ olds \in Seq(Kept(text)) /\ Len(olds) = kept
      /\ \A k \in 1..kept : olds[k] = items[k]
  <2>1. 1 \in 1..Len(items) + 1 /\ kept \in 0..Len(items)
    BY <1>1, <1>2
  <2>2. kept \in Nat /\ kept >= 0 /\ 1 + kept - 1 = kept
    BY <1>1, <1>2
  <2> HIDE DEF kept
  <2> QED BY <1>2, <2>1, <2>2, SubSeqProperties
<1>6. /\ before \in Seq(Bodies) /\ Len(before) = kept + 1
      /\ \A k \in 1..kept + 1 : before[k] = snaps[k]
  <2>1. kept \in Nat /\ kept + 1 \in 1..Len(snaps)
    BY <1>1, <1>2, <1>3
  <2> HIDE DEF kept
  <2> QED BY <1>3, <2>1, SubSeqProperties
<1> HIDE DEF kept, olds, before
<1>7. kept \in Nat
  BY <1>1, <1>2
<1>8. /\ Len(items') = kept + 1 /\ items'[kept + 1] = item
      /\ \A k \in 1..kept : items'[k] = items[k]
  BY <1>1, <1>5, <1>7, AppendProperties
<1>9. /\ snaps' \in Seq(Bodies) /\ Len(snaps') = kept + 2 /\ snaps'[kept + 2] = text'
      /\ \A k \in 1..kept + 1 : snaps'[k] = snaps[k]
  BY <1>1, <1>6, <1>7, AppendProperties
<1>10. \A k \in 1..Len(snaps') : Len(snaps'[k]) = Len(text')
  <2> TAKE k \in 1..Len(snaps')
  <2>1. k = kept + 2 \/ (k \in 1..kept + 1 /\ k \in 1..Len(snaps))
    BY <1>1, <1>2, <1>3, <1>7, <1>9
  <2> QED BY <1>1, <1>3, <1>9, <2>1
<1>11. ASSUME NEW k \in 1..Len(items')
       PROVE  /\ Apart(snaps'[k], snaps'[k + 1], items'[k].lineno)
              /\ items'[k].str = snaps'[k][items'[k].lineno]
  <2>1. k = kept + 1 \/ k \in 1..kept
    BY <1>7, <1>8
  <2>2. CASE k = kept + 1
    <3>1. snaps'[k] = text /\ snaps'[k + 1] = text' /\ items'[k] = item
      BY <1>3, <1>7, <1>8, <1>9, <2>2
    <3> QED BY <1>1, <1>4, <3>1 DEF Apart
  <2>3. CASE k \in 1..kept
    <3>1. /\ snaps'[k] = snaps[k] /\ snaps'[k + 1] = snaps[k + 1] /\ items'[k] = items[k]
          /\ k \in 1..Len(items) /\ k <= kept
      BY <1>1, <1>2, <1>7, <1>8, <1>9, <2>3
    <3> QED BY <1>3, <3>1
  <2> QED BY <2>1, <2>2, <2>3
<1>12. \A k \in 1..Len(items') :
         (IF k <= Len(items') - undone' THEN k ELSE k + 1) = k
  BY <1>1, <1>7, <1>8
<1>13. Len(snaps') = Len(items') + 1 /\ text' = snaps'[Len(items') - undone' + 1]
  BY <1>1, <1>7, <1>8, <1>9
<1> QED BY <1>9, <1>10, <1>11, <1>12, <1>13 DEF Stacked

LEMMA StackedSwap ==
  ASSUME Typed, Stacked, Undo \/ Redo
  PROVE  Stacked'
<1>1. PICK k \in 1..Len(items) :
        /\ Swap(k, text[items[k].lineno])
        /\ \/ Undo /\ k = Len(items) - undone /\ undone' = undone + 1
           \/ Redo /\ k = Len(items) - undone + 1 /\ undone' = undone - 1
        /\ undone' \in 0..Len(items)
  BY Swapped
<1> DEFINE l == items[k].lineno
<1>2. /\ l \in 1..Len(text) - 1
      /\ text' \in Bodies /\ Len(text') = Len(text) /\ text'[l] = items[k].str
      /\ \A m \in 1..Len(text) : m # l => text'[m] = text[m]
      /\ Len(items') = Len(items)
      /\ \A j \in 1..Len(items) : /\ items'[j].lineno = items[j].lineno
                                  /\ j # k => items'[j] = items[j]
      /\ items'[k].str = text[l]
  BY <1>1, SwapFacts
<1>3. items \in Seq(Kept(text)) /\ Len(items) \in Nat /\ undone \in 0..Len(items)
  BY LenProperties DEF Typed, Stored
<1>4. /\ snaps \in Seq(Bodies) /\ Len(snaps) = Len(items) + 1
      /\ text = snaps[Len(items) - undone + 1]
      /\ \A j \in 1..Len(snaps) : Len(snaps[j]) = Len(text)
      /\ \A j \in 1..Len(items) :
           /\ Apart(snaps[j], snaps[j + 1], items[j].lineno)
           /\ items[j].str = snaps[IF j <= Len(items) - undone THEN j ELSE j + 1][items[j].lineno]
  BY DEF Stacked
<1>5. snaps' = snaps
  BY DEF Undo, Redo
<1>6. /\ k \in 1..Len(snaps) /\ k + 1 \in 1..Len(snaps)
      /\ snaps[k] \in Bodies /\ snaps[k + 1] \in Bodies
      /\ Len(snaps[k]) = Len(text) /\ Len(snaps[k + 1]) = Len(text)
  <2>1. k \in 1..Len(snaps) /\ k + 1 \in 1..Len(snaps)
    BY <1>3, <1>4
  <2> QED BY <1>4, <2>1, ElementOfSeq
<1>7. Apart(snaps[k], snaps[k + 1], l)
  BY <1>4
<1> HIDE DEF l
<1>8. CASE k = Len(items) - undone /\ undone' = undone + 1
  <2>1. text = snaps[k + 1] /\ items[k].str = snaps[k][l]
    BY <1>3, <1>4, <1>8 DEF l
  <2>2. \A m \in 1..Len(text) : text'[m] = snaps[k][m]
    BY <1>2, <1>6, <1>7, <2>1 DEF Apart
  <2>3. text' = snaps[k]
    BY <1>2, <1>6, <2>2, SameLines
  <2>4. text' = snaps[Len(items) - undone' + 1]
    BY <1>3, <1>8, <2>3
  <2>5. ASSUME NEW j \in 1..Len(items)
        PROVE  items'[j].str = snaps[IF j <= Len(items) - undone' THEN j ELSE j + 1][items'[j].lineno]
    <3>1. CASE j = k
      <4>1. ~(j <= Len(items) - undone')
        BY <1>3, <1>8, <3>1
      <4> QED BY <1>2, <2>1, <3>1, <4>1 DEF l
    <3>2. CASE j # k
      <4>1. j <= Len(items) - undone' <=> j <= Len(items) - undone
        BY <1>3, <1>8, <3>2
      <4> QED BY <1>2, <1>4, <3>2, <4>1
    <3> QED BY <3>1, <3>2
  <2> QED BY <1>2, <1>4, <1>5, <2>4, <2>5 DEF Stacked
<1>9. CASE k = Len(items) - undone + 1 /\ undone' = undone - 1
  <2>1. text = snaps[k] /\ items[k].str = snaps[k + 1][l]
    <3>1. ~(k <= Len(items) - undone)
      BY <1>3, <1>9
    <3> QED BY <1>4, <1>9, <3>1 DEF l
  <2>2. \A m \in 1..Len(text) : text'[m] = snaps[k + 1][m]
    BY <1>2, <1>6, <1>7, <2>1 DEF Apart
  <2>3. text' = snaps[k + 1]
    BY <1>2, <1>6, <2>2, SameLines
  <2>4. text' = snaps[Len(items) - undone' + 1]
    BY <1>3, <1>9, <2>3
  <2>5. ASSUME NEW j \in 1..Len(items)
        PROVE  items'[j].str = snaps[IF j <= Len(items) - undone' THEN j ELSE j + 1][items'[j].lineno]
    <3>1. CASE j = k
      <4>1. j <= Len(items) - undone'
        BY <1>3, <1>9, <3>1
      <4> QED BY <1>2, <2>1, <3>1, <4>1 DEF l
    <3>2. CASE j # k
      <4>1. j <= Len(items) - undone' <=> j <= Len(items) - undone
        BY <1>3, <1>9, <3>2
      <4> QED BY <1>2, <1>4, <3>2, <4>1
    <3> QED BY <3>1, <3>2
  <2> QED BY <1>2, <1>4, <1>5, <2>4, <2>5 DEF Stacked
<1> QED BY <1>1, <1>8, <1>9

\* Nothing else changes the text, or the items.
LEMMA OtherKeepsText ==
  ASSUME Typed, Other
  PROVE  UNCHANGED <<text, undos>>
<1>1. CASE Ends
  BY <1>1, EndsFinish, FinishKeepsText
<1>2. CASE \E n \in Needles : DoSearch(n) \/ SpellWord(n)
  BY <1>2 DEF DoSearch, SpellWord, buffer
<1>3. CASE \E a \in Replacements : DoReplace(a) \/ Correct(a)
  BY <1>3 DEF DoReplace, Correct
<1>4. CASE \E line \in -1..2, column \in 1..2, relative \in BOOLEAN :
             GotoLine(line, column, relative)
  BY <1>4 DEF GotoLine
<1>5. CASE Asks
  BY <1>5 DEF Asks, DoPrompt, ToggleBackwards, SwitchJob, Abort, AskReplacement, buffer
<1>6. CASE Looks
  BY <1>6 DEF Looks, NextLine, FoundMatch, ReadOn, SkipInstance, buffer
<1>7. CASE BracketSearch
  BY <1>7 DEF BracketSearch, DoFindBracket, BracketStep, BracketLine, NoBracket, buffer
<1> QED BY <1>1, <1>2, <1>3, <1>4, <1>5, <1>6, <1>7 DEF Other

LEMMA StackedStep ==
  ASSUME Typed, Stacked, [Next]_vars
  PROVE  Stacked'
<1>1. CASE Other
  BY <1>1, OtherKeepsText DEF Stacked, undos
<1>2. CASE \E all \in BOOLEAN : ReplaceOne(all)
  BY <1>2, StackedReplaceOne
<1>3. CASE Undo \/ Redo
  BY <1>3, StackedSwap
<1>4. CASE UNCHANGED vars
  BY <1>4 DEF Stacked, vars, buffer, undos
<1> QED BY <1>1, <1>2, <1>3, <1>4, NextCases

\* Undoing any number of replacements, of any number of jobs, gives the text as it was
\* before them, and redoing them the text as it was after them, where no match of no
\* characters is replaced: the line that a replacement in the magicline adds has no item.
THEOREM UndoneTextsKept ==
  ASSUME "empty" \in Avoided
  PROVE  Spec => []UndoneTexts
<1>1. Init => Typed /\ Stacked
  BY TypedInit, StackedInit
<1>2. Typed /\ Stacked /\ [Next]_vars => (Typed /\ Stacked)'
  BY TypedStep, StackedStep
<1>3. Typed /\ Stacked => UndoneTexts
  BY DEF Stacked, UndoneTexts
<1> QED BY <1>1, <1>2, <1>3, PTL DEF Spec

-----------------------------------------------------------------------------
(* Positions: where the cursor and the mark are, if no word is corrected.  *)

LEMMA PositionIff ==
  ASSUME NEW t \in Bodies, NEW p
  PROVE  p \in PositionsOf(t) <=> p \in Spots(t) /\ p[2] \in 0..Len(t[p[1]])
<1>1. \A l \in 1..Len(t) : Len(t[l]) \in Nat
  BY BodyFacts
<1>2. ASSUME p \in PositionsOf(t) PROVE p \in Spots(t) /\ p[2] \in 0..Len(t[p[1]])
  <2>1. PICK l \in 1..Len(t) : p \in {l} \X (0..Len(t[l]))
    BY <1>2 DEF PositionsOf
  <2> QED BY <1>1, <2>1 DEF Spots
<1>3. ASSUME p \in Spots(t), p[2] \in 0..Len(t[p[1]]) PROVE p \in PositionsOf(t)
  <2>1. p \in {p[1]} \X (0..Len(t[p[1]])) /\ p[1] \in 1..Len(t)
    BY <1>3 DEF Spots
  <2> QED BY <2>1 DEF PositionsOf
<1> QED BY <1>2, <1>3

\* The cursor is in the text when a key is read, and so is what the cursor will be put back
\* to; an end of the marked region is the mark, and the other where the cursor was.
Fits ==
    /\ job # "spell" /\ replacing # "first"
    /\ pc \in {"main", "prompt", "with", "bracket"} \/ (pc = "look" /\ job = "search") =>
         cur \in PositionsOf(text)
    /\ pc \in {"look", "found"} /\ job = "replace" =>
         /\ begin \in PositionsOf(text)
         /\ frame # NoFrame => frame.top = IF frame.upright THEN mark ELSE begin
    /\ pc = "bracket" => saved.cur \in PositionsOf(text)

\* Each item is on both sides of it a position of its line.
ItemsFit ==
    \A k \in 1..Len(items) :
      /\ items[k].begin \in 0..Len(snaps[k][items[k].lineno])
      /\ items[k].begin \in 0..Len(snaps[k + 1][items[k].lineno])

\* Nothing has been replaced before the first job, and nothing is undone within it; until
\* the second one, the mark is in the newest of the texts.
MarkFits ==
    /\ jobs = 0 => pc = "main" /\ items = <<>>
    /\ jobs <= 1 /\ undone > 0 => pc = "main"
    /\ jobs <= 1 /\ (markSet \/ frame # NoFrame) => mark \in PositionsOf(snaps[Len(snaps)])

LEMMA Sums ==
  ASSUME NEW c \in Nat, NEW old \in Nat, NEW new \in Nat, NEW n \in Nat, c + old <= n,
         NEW x \in 0..n
  PROVE  /\ n - (c + old) \in Nat /\ c + old \in 0..n /\ c \in 0..n /\ c <= c + old
         /\ c + new + (n - (c + old)) = n + (new - old)
         /\ c \in 0..n + (new - old)
         /\ (c + old) + (new - old) \in 0..n + (new - old)
         /\ x >= c + old => x + (new - old) \in 0..n + (new - old)
OBVIOUS

\* A position that is synced with the replacement is in the text then, and one that is not
\* after the match is where it was.
LEMMA SyncedFits ==
  ASSUME Typed, NEW all, ReplaceOne(all), NEW p \in PositionsOf(text)
  PROVE  /\ SyncedMark(p) \in PositionsOf(text') /\ SyncedBegin(p) \in PositionsOf(text')
         /\ ~Before(cur, p) => p \in PositionsOf(text')
         /\ cur[2] \in 0..Len(text[cur[1]]) /\ cur[2] \in 0..Len(text'[cur[1]])
<1>1. /\ cur[1] \in 1..Len(text) - 1 /\ text' \in Bodies /\ Len(text') = Len(text)
      /\ \A m \in 1..Len(text) : m # cur[1] => text'[m] = text[m]
      /\ text'[cur[1]] = Prefix(text[cur[1]], cur[2]) \o answer \o Suffix(text[cur[1]], MatchEnd)
  BY ReplaceOneFacts
<1>2. /\ text \in Bodies /\ answer \in Line /\ Len(answer) \in Nat /\ pc = "found"
      /\ cur[2] \in Nat /\ cur[2] + Len(last.str) <= Len(text[cur[1]])
  BY LenProperties DEF Typed, Placed, Asking, Matched, Line, ReplaceOne
<1>3. text[cur[1]] \in Line /\ Len(last.str) \in Nat
  BY <1>2, MatchAbove
<1> DEFINE n == Len(text[cur[1]])
           head == Prefix(text[cur[1]], cur[2])
           tail == Suffix(text[cur[1]], MatchEnd)
<1>4. n \in Nat /\ MatchEnd \in 0..n /\ cur[2] \in 0..n /\ n - MatchEnd \in Nat
      /\ cur[2] <= MatchEnd /\ cur[2] + Len(answer) + (n - MatchEnd) = n + Change
      /\ cur[2] \in 0..n + Change /\ MatchEnd + Change \in 0..n + Change
      /\ \A x \in 0..n : x >= MatchEnd => x + Change \in 0..n + Change
  <2>1. n \in Nat
    BY <1>3, LenProperties DEF Line
  <2> HIDE DEF n
  <2>2. cur[2] + Len(last.str) <= n
    BY <1>2 DEF n
  <2>3. \A x \in 0..n :
          LET c == cur[2]  old == Len(last.str)  new == Len(answer) IN
          /\ n - (c + old) \in Nat /\ c + old \in 0..n /\ c \in 0..n /\ c <= c + old
          /\ c + new + (n - (c + old)) = n + (new - old)
          /\ c \in 0..n + (new - old)
          /\ (c + old) + (new - old) \in 0..n + (new - old)
          /\ x >= c + old => x + (new - old) \in 0..n + (new - old)
    BY <1>2, <1>3, <2>1, <2>2, Sums
  <2>4. 0 \in 0..n
    BY <2>1
  <2> QED BY <2>1, <2>3, <2>4, Zenon DEF MatchEnd, Change
<1>5. head \in Line /\ Len(head) = cur[2]
  <2>1. head = SubSeq(text[cur[1]], 1, cur[2])
    BY <1>4 DEF Prefix
  <2>2. Len(SubSeq(text[cur[1]], 1, cur[2])) = cur[2]
    BY <1>3, <1>4, SubSeqProperties DEF Line
  <2> QED BY <1>2, <1>3, <2>1, <2>2, PrefixLine
<1>6. tail \in Line /\ Len(tail) = n - MatchEnd
  <2>1. tail = SubSeq(text[cur[1]], MatchEnd + 1, n)
    BY DEF Suffix
  <2>2. Len(SubSeq(text[cur[1]], MatchEnd + 1, n)) = n - MatchEnd
    <3>1. MatchEnd + 1 \in 1..n + 1 /\ n \in MatchEnd..n /\ n \in Nat
          /\ n - (MatchEnd + 1) + 1 = n - MatchEnd
      BY <1>4
    <3> QED BY <1>3, <1>4, <3>1, SubSeqProperties DEF Line
  <2>3. MatchEnd \in Nat
    BY <1>4
  <2> QED BY <1>3, <2>1, <2>2, <2>3, SuffixLine
<1>7. Len(text'[cur[1]]) = n + Change
  <2> HIDE DEF head, tail
  <2>1. head \o answer \in Line /\ Len(head \o answer) = cur[2] + Len(answer)
    BY <1>2, <1>5, ConcatProperties DEF Line
  <2>2. Len((head \o answer) \o tail) = Len(head \o answer) + Len(tail)
    BY <1>6, <2>1, ConcatProperties DEF Line
  <2>3. Len((head \o answer) \o tail) = n + Change
    BY <1>4, <1>6, <2>1, <2>2
  <2> QED BY <1>1, <2>3 DEF head, tail
<1> HIDE DEF n, head, tail
<1>8. Change \in Int
  BY <1>2, <1>3 DEF Change
<1>9. p \in Spots(text) /\ p[1] \in 1..Len(text) /\ p[2] \in 0..Len(text[p[1]])
  <2>1. p \in Spots(text) /\ p[2] \in 0..Len(text[p[1]])
    BY <1>2, PositionIff
  <2> QED BY <2>1 DEF Spots
<1>10. p = <<p[1], p[2]>> /\ Spots(text') = Spots(text)
  BY <1>1, <1>2, <1>9, SamePlaces DEF Spots
<1>11. CASE p[1] # cur[1]
  <2>1. p \in PositionsOf(text')
    BY <1>1, <1>9, <1>10, <1>11, PositionIff
  <2> QED BY <1>4, <1>7, <1>11, <2>1 DEF SyncedMark, SyncedBegin, n
<1>12. CASE p[1] = cur[1]
  <2>1. p[2] \in 0..n /\ Len(text'[p[1]]) = n + Change
    BY <1>7, <1>9, <1>12 DEF n
  <2>2. \A x \in 0..n + Change : <<p[1], x>> \in PositionsOf(text')
    <3> TAKE x \in 0..n + Change
    <3>1. <<p[1], x>> \in Spots(text')
      BY <1>9, <1>10 DEF Spots
    <3> QED BY <1>1, <2>1, <3>1, PositionIff
  <2>3. cur[2] \in 0..n + Change /\ cur[2] \in 0..n /\ p[2] \in Int /\ MatchEnd \in Int
    BY <1>4, <2>1
  <2>4. CASE p[2] > cur[2]
    <3>1. SyncedMark(p) \in PositionsOf(text')
      <4>1. p[2] >= MatchEnd => p[2] + Change \in 0..n + Change
        BY <1>4, <2>1
      <4> QED BY <1>4, <1>12, <2>1, <2>2, <2>3, <2>4, <4>1 DEF SyncedMark
    <3>2. SyncedBegin(p) \in PositionsOf(text')
      <4>1. (IF p[2] < MatchEnd THEN MatchEnd ELSE p[2]) + Change \in 0..n + Change
        <5>1. CASE p[2] < MatchEnd
          BY <1>4, <5>1
        <5>2. CASE ~(p[2] < MatchEnd)
          <6>1. p[2] >= MatchEnd
            BY <2>3, <5>2
          <6> QED BY <1>4, <2>1, <5>2, <6>1
        <5> QED BY <5>1, <5>2
      <4>2. SyncedBegin(p) = <<p[1], (IF p[2] < MatchEnd THEN MatchEnd ELSE p[2]) + Change>>
        BY <1>4, <1>12, <2>1, <2>4 DEF SyncedBegin
      <4> QED BY <2>2, <4>1, <4>2
    <3>3. Before(cur, p)
      BY <1>12, <2>1, <2>3, <2>4 DEF Before
    <3> QED BY <1>7, <2>3, <3>1, <3>2, <3>3 DEF n
  <2>5. CASE p[2] <= cur[2]
    <3>1. p \in PositionsOf(text')
      <4>1. p[2] \in 0..n + Change
        BY <2>1, <2>3, <2>5
      <4> QED BY <1>10, <2>2, <4>1
    <3>2. SyncedMark(p) = p
      BY <2>5 DEF SyncedMark
    <3>3. SyncedBegin(p) \in PositionsOf(text')
      <4>1. (IF p[2] < MatchEnd THEN MatchEnd ELSE p[2]) + Change \in 0..n + Change
        <5>1. CASE p[2] < MatchEnd
          BY <1>4, <5>1
        <5>2. CASE ~(p[2] < MatchEnd)
          <6>1. p[2] >= MatchEnd
            BY <2>3, <5>2
          <6> QED BY <1>4, <2>1, <5>2, <6>1
        <5> QED BY <5>1, <5>2
      <4>2. SyncedBegin(p) \in {p, <<p[1], (IF p[2] < MatchEnd THEN MatchEnd ELSE p[2]) + Change>>}
        BY DEF SyncedBegin
      <4> QED BY <2>2, <3>1, <4>1, <4>2
    <3> QED BY <1>7, <2>3, <3>1, <3>2, <3>3 DEF n
  <2> QED BY <2>1, <2>3, <2>4, <2>5
<1> QED BY <1>11, <1>12

LEMMA StartIsPosition ==
  ASSUME NEW t \in Bodies, NEW l \in 1..Len(t), NEW x \in 0..Len(t[l])
  PROVE  <<l, x>> \in PositionsOf(t)
<1>1. Len(t[l]) \in Nat
  BY BodyFacts
<1>2. <<l, x>> \in Spots(t)
  BY <1>1 DEF Spots
<1> QED BY <1>2, PositionIff

LEMMA FitsInit == Init => Fits /\ (Stacked => ItemsFit /\ MarkFits)
<1> SUFFICES ASSUME Init PROVE Fits /\ (Stacked => ItemsFit /\ MarkFits)
  OBVIOUS
<1>1. Fits
  BY DEF Fits, Init
<1>2. items = <<>> /\ snaps = <<text>> /\ Len(snaps) = 1 /\ snaps[1] = text /\ Len(items) = 0
  BY DEF Init
<1>3. ItemsFit
  BY <1>2 DEF ItemsFit
<1>4. MarkFits
  BY <1>2 DEF MarkFits, Init
<1> QED BY <1>1, <1>3, <1>4

LEMMA FitsAsks ==
  ASSUME Typed, Fits, "spell" \notin Jobs, Asks
  PROVE  Fits'
<1>1. UNCHANGED <<text, cur>> /\ pc \in {"main", "prompt", "with"} /\ pc' \in {"main", "prompt", "with"}
      /\ job' # "spell" /\ replacing' = replacing
  <2>1. CASE \E j \in Jobs : DoPrompt(j)
    BY <2>1 DEF DoPrompt, buffer, loop
  <2>2. CASE ToggleBackwards
    BY <2>2 DEF ToggleBackwards, buffer, loop, Fits
  <2>3. CASE SwitchJob
    BY <2>3 DEF SwitchJob, buffer, loop
  <2>4. CASE Abort
    BY <2>4 DEF Abort, buffer, loop, Fits
  <2>5. CASE \E n \in Needles : AskReplacement(n)
    BY <2>5 DEF AskReplacement, buffer, loop, Fits
  <2> QED BY <2>1, <2>2, <2>3, <2>4, <2>5 DEF Asks
<1> QED BY <1>1 DEF Fits

LEMMA FitsLooks ==
  ASSUME Typed, Fits, Looks
  PROVE  Fits'
<1>1. CASE NextLine
  BY <1>1 DEF Fits, NextLine, buffer, loop
<1>2. CASE FoundMatch
  <2>1. Found \in 0..Len(text[at]) /\ at \in 1..Len(text) /\ text \in Bodies
    BY <1>2, FoundFacts DEF FoundMatch, Typed, Placed
  <2>2. <<at, Found>> \in PositionsOf(text)
    BY <2>1, StartIsPosition
  <2> QED BY <1>2, <2>2 DEF Fits, FoundMatch, loop
<1>3. CASE ReadOn
  BY <1>3 DEF Fits, ReadOn, loop
<1>4. CASE SkipInstance
  BY <1>4 DEF Fits, SkipInstance, Look, buffer, Typed, Asking
<1> QED BY <1>1, <1>2, <1>3, <1>4 DEF Looks

LEMMA FitsEnds ==
  ASSUME Typed, Fits, Ends
  PROVE  Fits'
<1>1. PICK end : Finish(end)
  BY EndsFinish
<1>2. text' = text /\ pc' = "main" /\ job' = job /\ replacing' = replacing
  BY <1>1, FinishKeepsText, EndsFinish DEF Finish, loop
<1>3. pc \in {"look", "found"}
  BY DEF Ends, NotFound, Interrupt, LeaveRegion, CancelReplace
<1>4. cur' = IF job = "replace" THEN begin ELSE cur
  BY <1>1 DEF Finish, Fits
<1>5. job \in {"search", "replace"} /\ (pc = "found" => job = "replace")
  BY <1>3 DEF Typed, Asking, Fits, AllJobs
<1>6. cur' \in PositionsOf(text)
  BY <1>3, <1>4, <1>5 DEF Fits
<1> QED BY <1>2, <1>5, <1>6 DEF Fits

LEMMA FitsBrackets ==
  ASSUME Typed, Fits, BracketSearch
  PROVE  Fits'
<1>1. CASE DoFindBracket
  BY <1>1 DEF Fits, DoFindBracket, buffer
<1>2. CASE BracketStep
  <2>1. NextBracket \in 0..Len(text[at]) /\ at \in 1..Len(text) /\ text \in Bodies
    BY <1>2, NextBracketFacts DEF BracketStep, Typed, Placed
  <2>2. <<at, NextBracket>> \in PositionsOf(text)
    BY <2>1, StartIsPosition
  <2>3. pc' \in {"main", "bracket"}
    BY <1>2 DEF BracketStep
  <2> QED BY <1>2, <2>2, <2>3 DEF Fits, BracketStep
<1>3. CASE BracketLine
  BY <1>3 DEF Fits, BracketLine, buffer, loop
<1>4. CASE NoBracket
  BY <1>4 DEF Fits, NoBracket, loop
<1> QED BY <1>1, <1>2, <1>3, <1>4 DEF BracketSearch

LEMMA GotoInText ==
  ASSUME Typed, NEW line \in Int, NEW column \in Int, NEW relative, GotoLine(line, column, relative)
  PROVE  cur' \in PositionsOf(text)
<1> DEFINE want == IF relative THEN cur[1] + line ELSE line
           l == Max({1, Min({want, Len(text)})})
<1>1. cur' = <<l, Min({column - 1, Len(text[l])})>> /\ column >= 1
  BY DEF GotoLine
<1>2. cur'[1] = l /\ cur'[2] = Min({column - 1, Len(text[l])})
  BY <1>1
<1> HIDE DEF l
<1>3. Typed'
  BY TypedGoto
<1>4. text' = text /\ text \in Bodies
  BY DEF GotoLine, Typed, Placed
<1>5. l \in 1..Len(text)
  BY <1>2, <1>3, <1>4 DEF Typed, Placed, Spots
<1>6. Len(text[l]) \in Nat
  BY <1>4, <1>5, BodyFacts
<1>7. ASSUME NEW a \in Nat, NEW b \in Nat PROVE Min({a, b}) \in 0..b
  BY DEF Min
<1>8. Min({column - 1, Len(text[l])}) \in 0..Len(text[l])
  <2>1. column - 1 \in Nat
    BY <1>1
  <2> QED BY <1>6, <1>7, <2>1
<1> QED BY <1>1, <1>4, <1>5, <1>8, StartIsPosition

LEMMA FitsReplaceOne ==
  ASSUME Typed, Fits, NEW all, ReplaceOne(all)
  PROVE  Fits'
<1>1. pc = "found" /\ pc' = "look" /\ job' = job /\ job = "replace" /\ ~Outside
      /\ replacing' # "first"
  BY DEF ReplaceOne, Typed, Asking, AllJobs, Fits
<1>2. begin \in PositionsOf(text)
      /\ (frame # NoFrame => frame.top = IF frame.upright THEN mark ELSE begin)
  BY <1>1 DEF Fits
<1>3. begin' = IF frame = NoFrame \/ frame.upright THEN SyncedBegin(begin) ELSE begin
  BY <1>1 DEF ReplaceOne
<1>4. CASE frame = NoFrame
  <2>1. begin' \in PositionsOf(text') /\ frame' = NoFrame
    BY <1>2, <1>3, <1>4, SyncedFits DEF ReplaceOne
  <2> QED BY <1>1, <2>1 DEF Fits
<1>5. CASE frame # NoFrame /\ frame.upright
  <2>1. begin' \in PositionsOf(text') /\ frame' = frame /\ mark' = mark
    BY <1>2, <1>3, <1>5, SyncedFits DEF ReplaceOne
  <2> QED BY <1>1, <1>2, <1>5, <2>1 DEF Fits
<1>6. CASE frame # NoFrame /\ ~frame.upright
  <2>1. frame.top = begin /\ ~Before(cur, begin) /\ begin' = begin
    BY <1>1, <1>2, <1>3, <1>6 DEF Outside
  <2>2. frame' = frame \/ frame' = [frame EXCEPT !.bot = <<@[1], begin[2]>>]
    BY DEF ReplaceOne
  <2>3. frame'.top = frame.top /\ frame'.upright = frame.upright
    BY <1>6, <2>2 DEF Typed, Placed, Frames
  <2> QED BY <1>1, <1>2, <1>6, <2>1, <2>3, SyncedFits DEF Fits
<1> QED BY <1>4, <1>5, <1>6

LEMMA FitsSwap ==
  ASSUME Typed, Stacked, ItemsFit, Fits, Undo \/ Redo
  PROVE  Fits' /\ ItemsFit'
<1>1. PICK k \in 1..Len(items) :
        /\ Swap(k, text[items[k].lineno])
        /\ \/ Undo /\ k = Len(items) - undone /\ undone' = undone + 1
           \/ Redo /\ k = Len(items) - undone + 1 /\ undone' = undone - 1
        /\ undone' \in 0..Len(items)
  BY Swapped
<1> DEFINE l == items[k].lineno
<1>2. /\ l \in 1..Len(text) - 1 /\ text' \in Bodies /\ Len(text') = Len(text)
      /\ items' \in Seq(Kept(text)) /\ Len(items') = Len(items)
      /\ \A j \in 1..Len(items) : /\ items'[j].lineno = items[j].lineno
                                  /\ j # k => items'[j] = items[j]
  BY <1>1, SwapFacts
<1>3. items \in Seq(Kept(text)) /\ Len(items) \in Nat /\ undone \in 0..Len(items)
      /\ Len(text) \in Nat
  BY LenProperties, BodyFacts DEF Typed, Stored, Placed
<1>4. items[k] \in Kept(text)
  BY <1>3, ElementOfSeq
<1>5. items' = [items EXCEPT ![k].str = text[l]] /\ cur' = <<l, items[k].begin>>
  BY <1>1 DEF Swap
<1>6. items'[k].begin = items[k].begin
  BY <1>3, <1>4, <1>5 DEF Kept
<1>7. snaps' = snaps /\ pc = "main" /\ pc' = "main" /\ job' = job /\ replacing' = replacing
  BY DEF Undo, Redo, loop
<1>8. ItemsFit'
  BY <1>2, <1>6, <1>7 DEF ItemsFit
<1>9. Stacked'
  BY StackedSwap
<1>10. text' = snaps[k] \/ text' = snaps[k + 1]
  <2>1. text' = snaps[Len(items) - undone' + 1]
    BY <1>2, <1>7, <1>9 DEF Stacked
  <2>2. Len(items) - undone' + 1 \in {k, k + 1}
    BY <1>1, <1>3
  <2> QED BY <2>1, <2>2
<1>11. items[k].begin \in 0..Len(text'[l])
  BY <1>10 DEF ItemsFit
<1>12. cur' \in PositionsOf(text')
  <2>1. l \in 1..Len(text')
    BY <1>2, <1>3
  <2> HIDE DEF l
  <2> QED BY <1>2, <1>5, <1>11, <2>1, StartIsPosition
<1> QED BY <1>7, <1>8, <1>12 DEF Fits

LEMMA FitsOther ==
  ASSUME Typed, Fits, "spell" \notin Jobs, Other
  PROVE  Fits'
<1>1. CASE \E n \in Needles : DoSearch(n) \/ SpellWord(n)
  <2>1. PICK n \in Needles : DoSearch(n)
    BY <1>1 DEF SpellWord
  <2>2. pc \in {"main", "prompt"} /\ job' = "search" /\ pc' = "look"
        /\ UNCHANGED <<text, cur, replacing>>
    BY <2>1 DEF DoSearch, Look, buffer
  <2> QED BY <2>2 DEF Fits
<1>2. CASE \E a \in Replacements : DoReplace(a) \/ Correct(a)
  <2>1. CASE \E a \in Replacements : DoReplace(a)
    <3>1. PICK a \in Replacements : DoReplace(a)
      BY <2>1
    <3>2. /\ pc = "with" /\ pc' = "look" /\ replacing' = "each" /\ job' = job
          /\ begin' = cur /\ text' = text /\ mark' = mark
          /\ frame' = IF markSet THEN FrameOf(cur, mark) ELSE NoFrame
      BY <3>1 DEF DoReplace, Look
    <3>3. job = "replace" /\ cur \in PositionsOf(text)
      BY <3>2 DEF Typed, Asking, Fits
    <3>4. frame' # NoFrame => frame'.top = IF frame'.upright THEN mark ELSE cur
      BY <3>2 DEF FrameOf
    <3> QED BY <3>2, <3>3, <3>4 DEF Fits
  <2>2. CASE \E a \in Replacements : Correct(a)
    BY <2>2 DEF Correct, Fits
  <2> QED BY <1>2, <2>1, <2>2
<1>3. CASE \E line \in -1..2, column \in 1..2, relative \in BOOLEAN :
             GotoLine(line, column, relative)
  <2>1. PICK line \in Int, column \in Int, relative \in BOOLEAN :
               GotoLine(line, column, relative)
    BY <1>3
  <2>2. cur' \in PositionsOf(text)
    BY <2>1, GotoInText
  <2> QED BY <2>1, <2>2 DEF Fits, GotoLine, loop
<1>4. CASE Asks \/ Looks \/ Ends \/ BracketSearch
  BY <1>4, FitsAsks, FitsLooks, FitsEnds, FitsBrackets
<1> QED BY <1>1, <1>2, <1>3, <1>4 DEF Other

LEMMA ItemsFitReplaceOne ==
  ASSUME Typed, Stacked, ItemsFit, Fits, NEW all, ReplaceOne(all)
  PROVE  ItemsFit'
<1> DEFINE kept == Len(items) - undone
           item == [lineno |-> cur[1], begin |-> cur[2], str |-> text[cur[1]]]
<1>1. /\ kept \in 0..Len(items) /\ item \in Kept(text) /\ undone' = 0
      /\ items' = Append(SubSeq(items, 1, kept), item)
      /\ snaps' = Append(SubSeq(snaps, 1, kept + 1), text')
  BY ReplaceOneFacts
<1>2. items \in Seq(Kept(text)) /\ Len(items) \in Nat
  BY LenProperties DEF Typed, Stored
<1>3. snaps \in Seq(Bodies) /\ Len(snaps) = Len(items) + 1 /\ text = snaps[kept + 1]
  BY DEF Stacked
<1>4. cur[2] \in 0..Len(text[cur[1]]) /\ cur[2] \in 0..Len(text'[cur[1]])
  <2>1. text \in Bodies /\ pc = "found" /\ 0 \in 0..Len(text[1]) /\ 1 \in 1..Len(text)
    BY BodyFacts DEF ReplaceOne, Typed, Placed
  <2>2. <<1, 0>> \in PositionsOf(text)
    BY <2>1, StartIsPosition
  <2> QED BY <2>2, SyncedFits
<1>5. item.lineno = cur[1] /\ item.begin = cur[2]
  OBVIOUS
<1> HIDE DEF item, kept
<1>6. /\ SubSeq(items, 1, kept) \in Seq(Kept(text)) /\ Len(SubSeq(items, 1, kept)) = kept
      /\ \A k \in 1..kept : SubSeq(items, 1, kept)[k] = items[k]
  BY <1>1, <1>2, SubSeqProperties
<1>7. /\ SubSeq(snaps, 1, kept + 1) \in Seq(Bodies) /\ Len(SubSeq(snaps, 1, kept + 1)) = kept + 1
      /\ \A k \in 1..kept + 1 : SubSeq(snaps, 1, kept + 1)[k] = snaps[k]
  BY <1>1, <1>2, <1>3, SubSeqProperties
<1>8. /\ Len(items') = kept + 1 /\ items'[kept + 1] = item
      /\ \A k \in 1..kept : items'[k] = items[k]
  BY <1>1, <1>6, AppendProperties
<1>9. text' \in Bodies
  BY ReplaceOneFacts
<1>10. snaps'[kept + 2] = text' /\ \A k \in 1..kept + 1 : snaps'[k] = snaps[k]
  <2>1. kept + 1 \in Nat /\ kept + 1 + 1 = kept + 2
    BY <1>1, <1>2
  <2> QED BY <1>1, <1>7, <1>9, <2>1, AppendProperties
<1>11. ASSUME NEW k \in 1..Len(items')
       PROVE  /\ items'[k].begin \in 0..Len(snaps'[k][items'[k].lineno])
              /\ items'[k].begin \in 0..Len(snaps'[k + 1][items'[k].lineno])
  <2>1. k = kept + 1 \/ k \in 1..kept
    BY <1>1, <1>2, <1>8
  <2>2. CASE k = kept + 1
    <3>1. snaps'[k] = text /\ snaps'[k + 1] = text' /\ items'[k] = item
      BY <1>1, <1>2, <1>3, <1>8, <1>10, <2>2
    <3> QED BY <1>4, <1>5, <3>1
  <2>3. CASE k \in 1..kept
    <3>1. /\ snaps'[k] = snaps[k] /\ snaps'[k + 1] = snaps[k + 1] /\ items'[k] = items[k]
          /\ k \in 1..Len(items)
      BY <1>1, <1>2, <1>8, <1>10, <2>3
    <3> QED BY <3>1 DEF ItemsFit
  <2> QED BY <2>1, <2>2, <2>3
<1> QED BY <1>11 DEF ItemsFit

LEMMA MarkFitsReplaceOne ==
  ASSUME Typed, Stacked, Fits, MarkFits, NEW all, ReplaceOne(all)
  PROVE  MarkFits'
<1>1. pc = "found" /\ jobs' = jobs /\ undone' = 0 /\ job = "replace" /\ markSet' = markSet
      /\ ~Outside
  BY DEF ReplaceOne, AddItem, Typed, Asking, AllJobs, Fits
<1>2. jobs # 0 /\ (jobs <= 1 => undone = 0)
  <2>1. undone \in Nat
    BY DEF Typed, Stored
  <2> QED BY <1>1, <2>1 DEF MarkFits
<1>3. frame' # NoFrame => frame # NoFrame
  BY DEF ReplaceOne
<1>4. snaps'[Len(snaps')] = text'
  <2>1. Stacked'
    BY StackedReplaceOne
  <2>2. Len(items') \in Nat
    BY TypedReplaceOne, LenProperties DEF Typed, Stored
  <2> QED BY <1>1, <2>1, <2>2 DEF Stacked
<1>5. ASSUME jobs <= 1, markSet \/ frame # NoFrame
      PROVE  mark' \in PositionsOf(text')
  <2>1. mark \in PositionsOf(text)
    <3>1. undone = 0 /\ mark \in PositionsOf(snaps[Len(snaps)])
      BY <1>2, <1>5 DEF MarkFits
    <3>2. Len(items) \in Nat
      BY LenProperties DEF Typed, Stored
    <3> QED BY <3>1, <3>2 DEF Stacked
  <2>2. mark # NoMark
    BY <1>5 DEF Typed, Placed
  <2>3. CASE frame = NoFrame \/ ~frame.upright
    <3>1. mark' = SyncedMark(mark)
      BY <2>2, <2>3 DEF ReplaceOne
    <3> QED BY <2>1, <3>1, SyncedFits
  <2>4. CASE frame # NoFrame /\ frame.upright
    <3>1. mark' = mark /\ frame.top = mark
      BY <1>1, <2>4 DEF ReplaceOne, Fits
    <3>2. ~Before(cur, mark)
      BY <1>1, <2>4, <3>1 DEF Outside
    <3> QED BY <2>1, <3>1, <3>2, SyncedFits
  <2> QED BY <2>3, <2>4
<1> QED BY <1>1, <1>2, <1>3, <1>4, <1>5 DEF MarkFits

\* The other steps keep the items and the mark, and a job is begun with nothing undone.
LEMMA MarkFitsOther ==
  ASSUME Typed, MarkFits, "spell" \notin Jobs, Other
  PROVE  MarkFits'
<1>1. jobs \in Nat /\ undone \in Nat /\ (markSet => mark # NoMark)
  BY DEF Typed, Asking, Stored, Placed
<1>2. UNCHANGED <<items, undone, snaps>>
  BY OtherKeepsText DEF undos
<1>3. mark' = mark /\ (markSet' \/ frame' # NoFrame => markSet \/ frame # NoFrame)
  <2>1. CASE Ends
    BY <2>1, EndsFinish DEF Finish, loop
  <2>2. CASE \E n \in Needles : DoSearch(n) \/ SpellWord(n)
    BY <2>2 DEF DoSearch, SpellWord, buffer
  <2>3. CASE \E a \in Replacements : DoReplace(a) \/ Correct(a)
    BY <2>3 DEF DoReplace, Correct
  <2>4. CASE \E line \in -1..2, column \in 1..2, relative \in BOOLEAN :
               GotoLine(line, column, relative)
    BY <2>4 DEF GotoLine, loop
  <2>5. CASE Asks
    BY <2>5 DEF Asks, DoPrompt, ToggleBackwards, SwitchJob, Abort, AskReplacement, buffer, loop
  <2>6. CASE Looks
    BY <2>6 DEF Looks, NextLine, FoundMatch, ReadOn, SkipInstance, buffer, loop
  <2>7. CASE BracketSearch
    <3>1. UNCHANGED <<mark, markSet, frame>>
      <4>1. CASE DoFindBracket
        BY <4>1 DEF DoFindBracket, buffer
      <4>2. CASE BracketStep
        BY <4>2 DEF BracketStep
      <4>3. CASE BracketLine
        BY <4>3 DEF BracketLine, buffer, loop
      <4>4. CASE NoBracket
        BY <4>4 DEF NoBracket, loop
      <4> QED BY <2>7, <4>1, <4>2, <4>3, <4>4 DEF BracketSearch
    <3> QED BY <3>1
  <2> QED BY <2>1, <2>2, <2>3, <2>4, <2>5, <2>6, <2>7 DEF Other
<1>4. (pc = "main" /\ jobs' = jobs + 1) \/ (pc # "main" /\ jobs' = jobs)
  <2>1. CASE Ends
    BY <2>1, EndsFinish DEF Ends, NotFound, Interrupt, LeaveRegion, CancelReplace
  <2>2. CASE \E n \in Needles : DoSearch(n) \/ SpellWord(n)
    BY <2>2 DEF DoSearch, SpellWord
  <2>3. CASE \E a \in Replacements : DoReplace(a) \/ Correct(a)
    BY <2>3 DEF DoReplace, Correct
  <2>4. CASE \E line \in -1..2, column \in 1..2, relative \in BOOLEAN :
               GotoLine(line, column, relative)
    BY <2>4 DEF GotoLine
  <2>5. CASE Asks
    BY <2>5 DEF Asks, DoPrompt, ToggleBackwards, SwitchJob, Abort, AskReplacement
  <2>6. CASE Looks
    BY <2>6 DEF Looks, NextLine, FoundMatch, ReadOn, SkipInstance
  <2>7. CASE BracketSearch
    BY <2>7 DEF BracketSearch, DoFindBracket, BracketStep, BracketLine, NoBracket
  <2> QED BY <2>1, <2>2, <2>3, <2>4, <2>5, <2>6, <2>7 DEF Other
<1>5. jobs' # 0
  BY <1>1, <1>4 DEF MarkFits
<1>6. jobs' <= 1 => undone = 0
  <2>1. jobs = 0 => undone = 0
    <3>1. items = <<>> => Len(items) = 0
      OBVIOUS
    <3> QED BY <3>1 DEF Typed, Stored, MarkFits
  <2>2. CASE pc = "main" /\ jobs' = jobs + 1
    BY <1>1, <2>1, <2>2
  <2>3. CASE pc # "main" /\ jobs' = jobs
    BY <1>1, <2>3 DEF MarkFits
  <2> QED BY <1>4, <2>2, <2>3
<1>7. jobs' <= 1 => jobs <= 1
  BY <1>1, <1>4
<1> QED BY <1>2, <1>3, <1>5, <1>6, <1>7 DEF MarkFits

Positioned == Typed /\ Stacked /\ Fits /\ ItemsFit /\ MarkFits

LEMMA PositionedStep ==
  ASSUME Positioned, "empty" \in Avoided, "spell" \notin Jobs, [Next]_vars
  PROVE  Positioned'
<1>1. Typed' /\ Stacked'
  BY TypedStep, StackedStep DEF Positioned
<1>2. CASE Other
  <2>1. ItemsFit'
    BY <1>2, OtherKeepsText DEF Positioned, ItemsFit, undos
  <2> QED BY <1>1, <1>2, <2>1, FitsOther, MarkFitsOther DEF Positioned
<1>3. CASE \E all \in BOOLEAN : ReplaceOne(all)
  BY <1>1, <1>3, FitsReplaceOne, ItemsFitReplaceOne, MarkFitsReplaceOne DEF Positioned
<1>4. CASE Undo \/ Redo
  <2>1. Fits' /\ ItemsFit'
    BY <1>4, FitsSwap DEF Positioned
  <2>2. MarkFits'
    <3>1. /\ pc = "main" /\ pc' = "main" /\ UNCHANGED <<jobs, mark, markSet, frame, snaps>>
      BY <1>4 DEF Undo, Redo, loop
    <3>2. jobs # 0
      <4>1. items = <<>> => Len(items) = 0
        OBVIOUS
      <4>2. Len(items) # 0
        BY <1>4 DEF Undo, Redo, Positioned, Typed, Stored
      <4> QED BY <4>1, <4>2 DEF Positioned, MarkFits
    <3> QED BY <3>1, <3>2 DEF Positioned, MarkFits
  <2> QED BY <1>1, <2>1, <2>2 DEF Positioned
<1>5. CASE UNCHANGED vars
  BY <1>1, <1>5 DEF Positioned, Fits, ItemsFit, MarkFits, vars, buffer, loop, undos
<1> QED BY <1>2, <1>3, <1>4, <1>5, NextCases

\* Whatever is searched for and replaced, in any number of jobs and with any undoing, the
\* cursor is in the text when a key is read, and the mark if nothing that was replaced in
\* the first job is undone; where no match of no characters is replaced, as above, and no
\* word is corrected, for the speller leaves the cursor where it was on a line it changed.
THEOREM TypesCorrect ==
  ASSUME "empty" \in Avoided, "spell" \notin Jobs
  PROVE  Spec => []TypeOK
<1>1. Init => Positioned
  BY TypedInit, StackedInit, FitsInit DEF Positioned
<1>2. Positioned /\ [Next]_vars => Positioned'
  BY PositionedStep
<1>3. Positioned => TypeOK
  <2> SUFFICES ASSUME Positioned PROVE TypeOK
    OBVIOUS
  <2>1. /\ pc \in {"main", "prompt", "with", "look", "found", "bracket", "overrun"}
        /\ at \in 1..Len(text) /\ undone \in 0..Len(items) /\ text[Len(text)] = <<>>
    BY Magicline DEF Positioned, Typed, Placed, Asking, Stored
  <2>2. pc \in {"main", "prompt", "with"} => cur \in PositionsOf(text)
    BY DEF Positioned, Fits
  <2>3. markSet /\ undone = 0 /\ jobs <= 1 => mark \in PositionsOf(text)
    <3>1. Len(items) \in Nat
      BY LenProperties DEF Positioned, Typed, Stored
    <3>2. undone = 0 => text = snaps[Len(snaps)]
      BY <3>1 DEF Positioned, Stacked
    <3> QED BY <3>2 DEF Positioned, MarkFits
  <2> QED BY <2>1, <2>2, <2>3 DEF TypeOK
<1> QED BY <1>1, <1>2, <1>3, PTL DEF Spec

-----------------------------------------------------------------------------
(* The next match.                                                         *)

\* A position p is ahead of q in the direction w.
Ahead(w, p, q) == IF w = "backward" THEN Before(p, q) ELSE Before(q, p)

\* The lines that have been looked at when the search has come from line c to line a.
LineGone(w, c, a, l) ==
    IF w = "backward" THEN (a < c /\ a < l /\ l < c) \/ (a > c /\ (l < c \/ l > a))
                      ELSE (a > c /\ c < l /\ l < a) \/ (a < c /\ (l > c \/ l < a))
NextOf(w, a, n) ==
    IF w = "backward" THEN (IF a = 1 THEN n ELSE a - 1) ELSE (IF a = n THEN 1 ELSE a + 1)
StartOf(w, line) == IF w = "backward" THEN Len(line) ELSE 0
Near(w, x, s) == IF w = "backward" THEN x <= s ELSE x >= s

LEMMA NextLineGone ==
  ASSUME NEW w, NEW n \in Nat, NEW c \in 1..n, NEW a \in 1..n, NEW l \in 1..n,
         l # c, l # a, NextOf(w, a, n) = c \/ LineGone(w, c, NextOf(w, a, n), l)
  PROVE  LineGone(w, c, a, l)
<1>1. CASE w = "backward"
  BY <1>1 DEF NextOf, LineGone
<1>2. CASE w # "backward"
  BY <1>2 DEF NextOf, LineGone
<1> QED BY <1>1, <1>2

\* A position p comes at least as soon after c, in the direction, as q.
Sooner(w, c, p, q) ==
    \/ Ahead(w, p, c) /\ Ahead(w, q, c) /\ Ahead(w, q, p)
    \/ ~Ahead(w, p, c) /\ ~Ahead(w, q, c) /\ Ahead(w, q, p)
    \/ Ahead(w, p, c) /\ ~Ahead(w, q, c)

\* What is so when p is the first match found near s in its line, whether the search has
\* gone round or not, and q is another match.
Outrun(w, round, c, p, s, q) ==
    /\ round => p[1] = c[1] /\ ~Ahead(w, p, c)
    /\ p[1] = c[1] /\ ~round =>
         Ahead(w, p, c) /\ (Near(w, q[2], s) <=> Ahead(w, <<c[1], q[2]>>, c))
    /\ q[1] = p[1] /\ ~(p[1] = c[1] /\ ~round) => Near(w, q[2], s)
    /\ q[1] # p[1] \/ q[2] # p[2]
    /\ q[1] = p[1] /\ Near(w, q[2], s) => ~Ahead(w, p, <<p[1], q[2]>>)
    /\ q[1] = c[1] => ~((round \/ p[1] # c[1]) /\ Ahead(w, q, c))
    /\ q[1] # c[1] => ~round /\ ~LineGone(w, c[1], p[1], q[1])

LEMMA OutrunIsSooner ==
  ASSUME NEW w, NEW round \in BOOLEAN, NEW c \in Int \X Int, NEW p \in Int \X Int,
         NEW s \in Int, NEW q \in Int \X Int, Outrun(w, round, c, p, s, q)
  PROVE  Sooner(w, c, p, q)
<1> DEFINE c1 == c[1]  c2 == c[2]  p1 == p[1]  p2 == p[2]  q1 == q[1]  q2 == q[2]
<1>1. /\ c1 \in Int /\ c2 \in Int /\ p1 \in Int /\ p2 \in Int /\ q1 \in Int /\ q2 \in Int
      /\ c = <<c1, c2>> /\ p = <<p1, p2>> /\ q = <<q1, q2>>
  OBVIOUS
<1>2. ASSUME NEW x1 \in Int, NEW x2 \in Int, NEW y1 \in Int, NEW y2 \in Int
      PROVE  Before(<<x1, x2>>, <<y1, y2>>) <=> x1 < y1 \/ (x1 = y1 /\ x2 < y2)
  BY DEF Before
<1>3. /\ round => p1 = c1 /\ ~Ahead(w, <<p1, p2>>, <<c1, c2>>)
      /\ p1 = c1 /\ ~round =>
           /\ Ahead(w, <<p1, p2>>, <<c1, c2>>)
           /\ Near(w, q2, s) <=> Ahead(w, <<c1, q2>>, <<c1, c2>>)
      /\ q1 = p1 /\ ~(p1 = c1 /\ ~round) => Near(w, q2, s)
      /\ q1 # p1 \/ q2 # p2
      /\ q1 = p1 /\ Near(w, q2, s) => ~Ahead(w, <<p1, p2>>, <<p1, q2>>)
      /\ q1 = c1 => ~((round \/ p1 # c1) /\ Ahead(w, <<q1, q2>>, <<c1, c2>>))
      /\ q1 # c1 => ~round /\ ~LineGone(w, c1, p1, q1)
  BY <1>1 DEF Outrun
<1> HIDE DEF c1, c2, p1, p2, q1, q2
<1>4. CASE w = "backward"
  <2>1. Sooner(w, <<c1, c2>>, <<p1, p2>>, <<q1, q2>>)
    BY <1>1, <1>2, <1>3, <1>4 DEF Ahead, LineGone, Sooner
  <2> QED BY <1>1, <2>1
<1>5. CASE w # "backward"
  <2>1. Sooner(w, <<c1, c2>>, <<p1, p2>>, <<q1, q2>>)
    BY <1>1, <1>2, <1>3, <1>5 DEF Ahead, LineGone, Sooner
  <2> QED BY <1>1, <2>1
<1> QED BY <1>4, <1>5

Hits(t, n) == {p \in PositionsOf(t) : MatchAt(n, t[p[1]], p[2])}
FirstHit(t, n, w, c, p) ==
    /\ p \in Hits(t, n)
    /\ \A q \in Hits(t, n) \ {p} :
         IF Ahead(w, p, c) = Ahead(w, q, c) THEN Ahead(w, q, p) ELSE Ahead(w, p, c)

\* What the search has gone past: what is ahead in its first line, and other lines.
Gone(q) ==
    IF q[1] = cur[1] THEN (wrapped \/ at # cur[1]) /\ Ahead(way, q, cur)
                     ELSE wrapped \/ LineGone(way, cur[1], at, q[1])

\* A search has gone past no match, and is at the beginning of a line but for the first.
Searching ==
    pc = "look" /\ job = "search" =>
      /\ from = [text |-> text, cur |-> cur, way |-> way] /\ begin = cur
      /\ wrapped \in BOOLEAN /\ (wrapped => at = cur[1])
      /\ start = IF at = cur[1] /\ ~wrapped THEN StartAt(cur, way) ELSE StartOf(way, text[at])
      /\ \A q \in Hits(text, last) : ~Gone(q)

\* What a search that is over has found.
Searched ==
    pc = "main" /\ job = "search" =>
      /\ outcome = "found" => FirstHit(from.text, last, from.way, from.cur, cur)
      /\ outcome = "not found" => cur = from.cur /\ Hits(from.text, last) = {}

LEMMA SearchedIsFindsNext == Searched => FindsNext
<1> SUFFICES ASSUME Searched, pc = "main", job = "search"
             PROVE  FindsNext
  BY DEF FindsNext
<1>1. CASE from.way = "backward"
  BY <1>1 DEF Searched, FindsNext, FirstHit, Hits, Ahead
<1>2. CASE from.way # "backward"
  BY <1>2 DEF Searched, FindsNext, FirstHit, Hits, Ahead
<1> QED BY <1>1, <1>2

LEMMA HitFacts ==
  ASSUME NEW t \in Bodies, NEW n, NEW q \in Hits(t, n)
  PROVE  /\ q[1] \in 1..Len(t) /\ q[2] \in 0..Len(t[q[1]]) /\ Len(t[q[1]]) \in Nat
         /\ q[2] \in Int /\ q = <<q[1], q[2]>> /\ MatchAt(n, t[q[1]], q[2])
<1>1. q \in PositionsOf(t) /\ MatchAt(n, t[q[1]], q[2])
  BY DEF Hits
<1>2. q \in Spots(t) /\ q[2] \in 0..Len(t[q[1]])
  BY <1>1, PositionIff
<1>3. q[1] \in 1..Len(t) /\ q[2] \in Int /\ q = <<q[1], q[2]>>
  BY <1>2 DEF Spots
<1> QED BY <1>1, <1>2, <1>3, BodyFacts

\* What is found, or not, in the line looked at.
LEMMA SearchFound ==
  ASSUME Positioned, pc = "look", job = "search",
         IF way = "backward" THEN start <= Len(text[at]) ELSE start >= 0
  PROVE  /\ Found # None =>
              /\ <<at, Found>> \in Hits(text, last) /\ Found \in Int /\ Near(way, Found, start)
              /\ \A z \in 0..Len(text[at]) : MatchAt(last, text[at], z) /\ Near(way, z, start) =>
                   IF way = "backward" THEN z <= Found ELSE z >= Found
         /\ Found = None =>
              \A z \in 0..Len(text[at]) : Near(way, z, start) => ~MatchAt(last, text[at], z)
<1>1. /\ last \in Needle /\ text[at] \in Line /\ start \in Int /\ (way = "backward") \in BOOLEAN
      /\ at \in 1..Len(text) /\ text \in Bodies /\ Len(text[at]) \in Nat
  BY BodyFacts DEF Positioned, Typed, Placed, Asking
<1>2. Found = MatchFrom(last, text[at], start, way = "backward")
  BY DEF Found
<1>3. ASSUME Found # None
      PROVE  /\ Found \in 0..Len(text[at]) /\ MatchAt(last, text[at], Found)
             /\ IF way = "backward" THEN Found <= start ELSE Found >= start
             /\ \A z \in 0..Len(text[at]) :
                  MatchAt(last, text[at], z) /\ (IF way = "backward" THEN z <= start ELSE z >= start)
                  => ~(IF way = "backward" THEN z > Found ELSE z < Found)
  BY <1>1, <1>2, <1>3, MatchFromFacts
<1>4. ASSUME Found = None, NEW z \in 0..Len(text[at]), Near(way, z, start)
      PROVE  ~MatchAt(last, text[at], z)
  <2>1. IF way = "backward" THEN z <= start ELSE z >= start
    BY <1>4 DEF Near
  <2> QED BY <1>1, <1>2, <1>4, <2>1, MatchFromFacts
<1>5. ASSUME Found # None PROVE <<at, Found>> \in Hits(text, last)
  <2>1. <<at, Found>> \in PositionsOf(text)
    BY <1>1, <1>3, <1>5, StartIsPosition
  <2> QED BY <1>3, <1>5, <2>1 DEF Hits
<1>6. ASSUME Found # None, NEW z \in 0..Len(text[at]), MatchAt(last, text[at], z),
             Near(way, z, start)
      PROVE  IF way = "backward" THEN z <= Found ELSE z >= Found
  <2>1. IF way = "backward" THEN z <= start ELSE z >= start
    BY <1>6 DEF Near
  <2>2. ~(IF way = "backward" THEN z > Found ELSE z < Found)
    BY <1>3, <1>6, <2>1
  <2>3. z \in Int /\ Found \in Int
    BY <1>1, <1>3, <1>6
  <2> QED BY <2>2, <2>3
<1> QED BY <1>1, <1>3, <1>4, <1>5, <1>6 DEF Near

\* Where a search looks is where MatchFrom looks.
LEMMA SearchStart ==
  ASSUME Positioned, Searching, pc = "look", job = "search"
  PROVE  /\ IF way = "backward" THEN start <= Len(text[at]) ELSE start >= 0
         /\ cur[1] \in 1..Len(text) /\ cur[2] \in 0..Len(text[cur[1]])
         /\ at \in 1..Len(text) /\ start \in Int /\ Len(text) \in Nat \ {0} /\ text \in Bodies
         /\ cur = <<cur[1], cur[2]>> /\ cur[2] \in Int
<1>1. /\ cur \in PositionsOf(text) /\ text \in Bodies /\ at \in 1..Len(text) /\ start \in Int
      /\ Len(text) \in Nat \ {0}
  BY BodyFacts DEF Positioned, Typed, Placed, Fits
<1>2. cur \in Spots(text) /\ cur[2] \in 0..Len(text[cur[1]])
  BY <1>1, PositionIff
<1>3. cur[1] \in 1..Len(text) /\ cur[2] \in Int /\ cur = <<cur[1], cur[2]>>
  BY <1>2 DEF Spots
<1>4. Len(text[at]) \in Nat /\ Len(text[cur[1]]) \in Nat
  BY <1>1, <1>3, BodyFacts
<1>5. IF way = "backward" THEN start <= Len(text[at]) ELSE start >= 0
  <2>1. CASE at = cur[1] /\ ~wrapped
    <3>1. start = StartAt(cur, way)
      BY <2>1 DEF Searching
    <3> QED BY <1>2, <1>3, <1>4, <2>1, <3>1 DEF StartAt
  <2>2. CASE ~(at = cur[1] /\ ~wrapped)
    <3>1. start = StartOf(way, text[at])
      BY <2>2 DEF Searching
    <3> QED BY <1>4, <3>1 DEF StartOf
  <2> QED BY <2>1, <2>2
<1> QED BY <1>1, <1>2, <1>3, <1>5

\* In its first line a search is near what is ahead, and in another near everything.
LEMMA NearIsAhead ==
  ASSUME Positioned, Searching, pc = "look", job = "search", NEW x \in Int
  PROVE  /\ at = cur[1] /\ ~wrapped => (Near(way, x, start) <=> Ahead(way, <<cur[1], x>>, cur))
         /\ ~(at = cur[1] /\ ~wrapped) /\ x \in 0..Len(text[at]) => Near(way, x, start)
<1>1. cur[2] \in Int /\ cur[1] \in Int /\ cur = <<cur[1], cur[2]>>
  BY SearchStart
<1>2. Before(<<cur[1], x>>, cur) <=> x < cur[2]
  BY <1>1 DEF Before
<1>3. Before(cur, <<cur[1], x>>) <=> cur[2] < x
  BY <1>1 DEF Before
<1>4. CASE at = cur[1] /\ ~wrapped
  <2>1. start = StartAt(cur, way)
    BY <1>4 DEF Searching
  <2> QED BY <1>1, <1>2, <1>3, <1>4, <2>1 DEF StartAt, Near, Ahead
<1>5. CASE ~(at = cur[1] /\ ~wrapped)
  <2>1. start = StartOf(way, text[at])
    BY <1>5 DEF Searching
  <2>2. Len(text[at]) \in Nat
    BY SearchStart, BodyFacts
  <2> QED BY <1>5, <2>1, <2>2 DEF StartOf, Near
<1> QED BY <1>4, <1>5

LEMMA SearchingNextLine ==
  ASSUME Positioned, Searching, NextLine
  PROVE  Searching'
<1> SUFFICES ASSUME pc = "look", job = "search" PROVE Searching'
  BY DEF Searching, NextLine
<1>1. /\ cur[1] \in 1..Len(text) /\ at \in 1..Len(text) /\ Len(text) \in Nat \ {0}
      /\ text \in Bodies
      /\ IF way = "backward" THEN start <= Len(text[at]) ELSE start >= 0
  BY SearchStart
<1>2. /\ Found = None /\ ~wrapped /\ at' = NextOf(way, at, Len(text))
      /\ start' = StartOf(way, text[at']) /\ wrapped' = (at' = begin[1])
      /\ UNCHANGED <<text, cur, way, last, begin, from, pc, job>>
  BY DEF NextLine, NextOf, StartOf, buffer, loop
<1>3. begin = cur /\ from = [text |-> text, cur |-> cur, way |-> way]
  BY DEF Searching
<1>4. ASSUME NEW q \in Hits(text, last), Gone(q)' PROVE FALSE
  <2>1. /\ q[1] \in 1..Len(text) /\ q[2] \in 0..Len(text[q[1]]) /\ q[2] \in Int
        /\ q = <<q[1], q[2]>> /\ MatchAt(last, text[q[1]], q[2])
    BY <1>1, HitFacts
  <2>2. ~Gone(q)
    BY DEF Searching
  <2>3. q[1] = at => ~Near(way, q[2], start)
    BY <1>1, <1>2, <2>1, SearchFound
  <2>4. CASE q[1] = cur[1]
    <3>1. Ahead(way, q, cur)
      BY <1>2, <1>4, <2>4 DEF Gone
    <3>2. at = cur[1]
      BY <2>2, <2>4, <3>1 DEF Gone
    <3>3. Near(way, q[2], start)
      BY <1>2, <2>1, <2>4, <3>1, <3>2, NearIsAhead
    <3> QED BY <2>3, <2>4, <3>2, <3>3
  <2>5. CASE q[1] # cur[1]
    <3>1. at' = cur[1] \/ LineGone(way, cur[1], at', q[1])
      BY <1>2, <1>3, <1>4, <2>5 DEF Gone
    <3>2. q[1] # at
      <4>1. q[1] = at => Near(way, q[2], start)
        BY <2>1, <2>5, NearIsAhead
      <4> QED BY <2>3, <4>1
    <3>3. LineGone(way, cur[1], at, q[1])
      BY <1>1, <1>2, <2>1, <2>5, <3>1, <3>2, NextLineGone
    <3> QED BY <2>2, <2>5, <3>3 DEF Gone
  <2> QED BY <2>4, <2>5
<1>5. wrapped' \in BOOLEAN /\ (wrapped' => at' = cur[1])
      /\ (at' = cur[1] /\ ~wrapped' => FALSE)
  BY <1>2, <1>3
<1> QED BY <1>2, <1>3, <1>4, <1>5 DEF Searching

LEMMA SearchedFoundMatch ==
  ASSUME Positioned, Searching, job = "search", FoundMatch
  PROVE  Searched'
<1>1. /\ cur[1] \in 1..Len(text) /\ cur[2] \in Int /\ cur = <<cur[1], cur[2]>>
      /\ at \in 1..Len(text) /\ Len(text) \in Nat \ {0} /\ start \in Int /\ text \in Bodies
      /\ IF way = "backward" THEN start <= Len(text[at]) ELSE start >= 0
  BY SearchStart DEF FoundMatch
<1>2. /\ pc = "look" /\ Found # None /\ ~BeyondBegin(Found) /\ cur' = <<at, Found>>
      /\ pc' = "main" /\ outcome' = "found" /\ UNCHANGED <<job, last, from>>
  BY DEF FoundMatch
<1>3. /\ from = [text |-> text, cur |-> cur, way |-> way] /\ begin = cur
      /\ wrapped \in BOOLEAN /\ (wrapped => at = cur[1])
      /\ \A q \in Hits(text, last) : ~Gone(q)
  BY <1>2 DEF Searching
<1>4. /\ <<at, Found>> \in Hits(text, last) /\ Found \in Int /\ Near(way, Found, start)
      /\ \A z \in 0..Len(text[at]) : MatchAt(last, text[at], z) /\ Near(way, z, start) =>
           IF way = "backward" THEN z <= Found ELSE z >= Found
  BY <1>1, <1>2, SearchFound
<1>5. wrapped => ~Ahead(way, <<at, Found>>, cur)
  <2> SUFFICES ASSUME wrapped PROVE ~Ahead(way, <<at, Found>>, cur)
    OBVIOUS
  <2>1. at = cur[1] /\ BeginX = cur[2]
    BY <1>3 DEF BeginX
  <2>2. ~(IF way = "backward" THEN Found < cur[2] ELSE Found > cur[2])
    BY <1>2, <2>1 DEF BeyondBegin
  <2> QED BY <1>1, <1>4, <2>1, <2>2 DEF Ahead, Before
<1>6. ASSUME NEW q \in Hits(text, last) \ {<<at, Found>>}
      PROVE  Sooner(way, cur, <<at, Found>>, q)
  <2>1. /\ q[1] \in 1..Len(text) /\ q[2] \in 0..Len(text[q[1]]) /\ q[2] \in Int /\ q[1] \in Int
        /\ q = <<q[1], q[2]>> /\ MatchAt(last, text[q[1]], q[2])
    BY <1>1, HitFacts
  <2>2. ~Gone(q)
    BY <1>3
  <2>3. q[1] # at \/ q[2] # Found
    BY <1>6, <2>1
  <2>4. at = cur[1] /\ ~wrapped =>
          \A x \in Int : Near(way, x, start) <=> Ahead(way, <<cur[1], x>>, cur)
    BY <1>2, NearIsAhead
  <2>5. q[1] = at /\ ~(at = cur[1] /\ ~wrapped) => Near(way, q[2], start)
    BY <1>2, <2>1, NearIsAhead
  <2>6. q[1] = at /\ Near(way, q[2], start) => ~Ahead(way, <<at, Found>>, <<at, q[2]>>)
    <3> SUFFICES ASSUME q[1] = at, Near(way, q[2], start)
                 PROVE  ~Ahead(way, <<at, Found>>, <<at, q[2]>>)
      OBVIOUS
    <3>1. IF way = "backward" THEN q[2] <= Found ELSE q[2] >= Found
      BY <1>4, <2>1
    <3> QED BY <1>1, <1>4, <2>1, <3>1 DEF Ahead, Before
  <2>7. q[1] = cur[1] => ~((wrapped \/ at # cur[1]) /\ Ahead(way, q, cur))
    BY <2>2 DEF Gone
  <2>8. q[1] # cur[1] => ~wrapped /\ ~LineGone(way, cur[1], at, q[1])
    BY <2>2 DEF Gone
  <2>9. /\ cur \in Int \X Int /\ <<at, Found>> \in Int \X Int /\ q \in Int \X Int
        /\ start \in Int /\ wrapped \in BOOLEAN /\ Found \in Int /\ Near(way, Found, start)
    BY <1>1, <1>3, <1>4, <2>1
  <2>10. at = cur[1] /\ ~wrapped =>
           /\ Ahead(way, <<at, Found>>, cur)
           /\ Near(way, q[2], start) <=> Ahead(way, <<cur[1], q[2]>>, cur)
    BY <2>1, <2>4, <2>9
  <2> DEFINE p == <<at, Found>>
  <2>11. p[1] = at /\ p[2] = Found
    OBVIOUS
  <2>12. p \in Int \X Int
    BY <2>9
  <2> HIDE DEF p
  <2>13. Outrun(way, wrapped, cur, p, start, q)
    BY <1>3, <1>5, <2>3, <2>5, <2>6, <2>7, <2>8, <2>10, <2>11 DEF Outrun, p
  <2>14. Sooner(way, cur, p, q)
    BY <2>9, <2>12, <2>13, OutrunIsSooner
  <2> QED BY <2>14 DEF p
<1>7. FirstHit(text, last, way, cur, <<at, Found>>)
  <2>1. ASSUME NEW q \in Hits(text, last) \ {<<at, Found>>}
        PROVE  LET p == <<at, Found>> IN
               IF Ahead(way, p, cur) = Ahead(way, q, cur) THEN Ahead(way, q, p)
                                                          ELSE Ahead(way, p, cur)
    <3>1. Ahead(way, <<at, Found>>, cur) \in BOOLEAN /\ Ahead(way, q, cur) \in BOOLEAN
      BY DEF Ahead, Before
    <3> QED BY <1>6, <3>1 DEF Sooner
  <2> QED BY <1>4, <2>1 DEF FirstHit
<1>8. from.text = text /\ from.way = way /\ from.cur = cur
  BY <1>3
<1> QED BY <1>2, <1>7, <1>8 DEF Searched

LEMMA SearchedNotFound ==
  ASSUME Positioned, Searching, job = "search", NotFound
  PROVE  Searched'
<1>1. /\ cur[1] \in 1..Len(text) /\ cur[2] \in Int /\ cur = <<cur[1], cur[2]>>
      /\ at \in 1..Len(text) /\ text \in Bodies
      /\ IF way = "backward" THEN start <= Len(text[at]) ELSE start >= 0
  BY SearchStart DEF NotFound
<1>2. /\ pc = "look" /\ (IF Found = None THEN wrapped ELSE BeyondBegin(Found))
      /\ pc' = "main" /\ cur' = cur /\ outcome' = "not found" /\ last' = last
      /\ UNCHANGED <<job, from>>
  BY DEF NotFound, Finish
<1>3. /\ from = [text |-> text, cur |-> cur, way |-> way] /\ begin = cur
      /\ wrapped \in BOOLEAN /\ (wrapped => at = cur[1])
      /\ \A q \in Hits(text, last) : ~Gone(q)
  BY <1>2 DEF Searching
<1>4. wrapped /\ at = cur[1]
  BY <1>2, <1>3 DEF BeyondBegin
<1>5. Found = None
  <2> SUFFICES ASSUME Found # None PROVE FALSE
    OBVIOUS
  <2>1. <<at, Found>> \in Hits(text, last) /\ Found \in Int
    BY <1>1, <1>2, SearchFound
  <2>2. BeginX = cur[2]
    BY <1>3 DEF BeginX
  <2>3. IF way = "backward" THEN Found < cur[2] ELSE Found > cur[2]
    BY <1>2, <2>2 DEF BeyondBegin
  <2>4. Ahead(way, <<at, Found>>, cur)
    BY <1>1, <1>4, <2>1, <2>3 DEF Ahead, Before
  <2>5. Gone(<<at, Found>>)
    BY <1>4, <2>4 DEF Gone
  <2> QED BY <1>3, <2>1, <2>5
<1>6. ASSUME NEW q \in Hits(text, last) PROVE FALSE
  <2>1. /\ q[1] \in 1..Len(text) /\ q[2] \in 0..Len(text[q[1]]) /\ q[2] \in Int
        /\ MatchAt(last, text[q[1]], q[2])
    BY <1>1, HitFacts
  <2>2. q[1] = cur[1]
    BY <1>3, <1>4 DEF Gone
  <2>3. Near(way, q[2], start)
    BY <1>2, <1>4, <2>1, <2>2, NearIsAhead
  <2> QED BY <1>1, <1>2, <1>4, <1>5, <2>1, <2>2, <2>3, SearchFound
<1>7. from.text = text /\ from.cur = cur
  BY <1>3
<1> QED BY <1>2, <1>6, <1>7 DEF Searched

\* No other step is of a search, or it begins one, or ends one without its having found.
LEMMA SearchSteps ==
  ASSUME Positioned, Searching, Searched, pc = "bracket" => job = "bracket", Other,
         "spell" \notin Jobs
  PROVE  Searching' /\ Searched'
<1>1. CASE Asks
  <2>1. pc' # "look" /\ (pc' = "main" => outcome' = "cancelled")
    BY <1>1 DEF Asks, DoPrompt, ToggleBackwards, SwitchJob, Abort, AskReplacement
  <2> QED BY <2>1 DEF Searching, Searched
<1>2. CASE Ends
  <2>1. pc' = "main" /\ job' = job
    BY <1>2, EndsFinish DEF Finish
  <2>2. Searching'
    BY <2>1 DEF Searching
  <2>3. CASE job = "search" /\ NotFound
    BY <2>2, <2>3, SearchedNotFound
  <2>4. CASE job = "search" /\ Interrupt
    <3>1. outcome' = "interrupted"
      BY <2>4 DEF Interrupt, Finish
    <3> QED BY <2>2, <3>1 DEF Searched
  <2>5. CASE job = "search" /\ (LeaveRegion \/ CancelReplace)
    BY <2>5 DEF LeaveRegion, CancelReplace, Positioned, Typed, Asking
  <2>6. CASE job # "search"
    BY <2>1, <2>2, <2>6 DEF Searched
  <2> QED BY <1>2, <2>3, <2>4, <2>5, <2>6 DEF Ends
<1>3. CASE \E n \in Needles : DoSearch(n) \/ SpellWord(n)
  <2>1. PICK n \in Needles : DoSearch(n)
    BY <1>3 DEF SpellWord
  <2>2. /\ pc' = "look" /\ from' = [text |-> text, cur |-> cur, way |-> way] /\ begin' = cur
        /\ wrapped' = FALSE /\ at' = cur[1] /\ start' = StartAt(cur, way)
        /\ UNCHANGED <<text, cur, way>>
    BY <2>1 DEF DoSearch, Look, buffer
  <2>3. cur \in Spots(text)
    BY DEF Positioned, Typed, Placed
  <2>4. ASSUME NEW q PROVE ~Gone(q)'
    <3>1. cur[1] \in Int /\ ~(cur[1] < cur[1])
      BY <2>3 DEF Spots
    <3>2. ~LineGone(way, cur[1], cur[1], q[1])
      BY <3>1 DEF LineGone
    <3> QED BY <2>2, <3>2 DEF Gone
  <2> QED BY <2>2, <2>4 DEF Searching, Searched
<1>4. CASE \E a \in Replacements : DoReplace(a) \/ Correct(a)
  <2>1. pc' = "look" /\ job' = job /\ pc \in {"with", "found"}
    BY <1>4 DEF DoReplace, Correct, Look
  <2> QED BY <2>1 DEF Searching, Searched, Positioned, Typed, Asking
<1>5. CASE \E line \in -1..2, column \in 1..2, relative \in BOOLEAN :
             GotoLine(line, column, relative)
  <2>1. pc' = "main" /\ outcome' = "none"
    BY <1>5 DEF GotoLine
  <2> QED BY <2>1 DEF Searching, Searched
<1>6. CASE NextLine
  <2>1. pc' = "look"
    BY <1>6 DEF NextLine
  <2> QED BY <1>6, <2>1, SearchingNextLine DEF Searched
<1>7. CASE FoundMatch
  <2>1. pc' # "look" /\ job' = job /\ (pc' = "main" => job = "search")
    BY <1>7 DEF FoundMatch
  <2> QED BY <1>7, <2>1, SearchedFoundMatch DEF Searching, Searched
<1>8. CASE ReadOn \/ SkipInstance
  <2>1. pc' = "overrun" \/ (pc = "found" /\ pc' = "look" /\ job' = job)
    BY <1>8 DEF ReadOn, SkipInstance, Look
  <2> QED BY <2>1 DEF Searching, Searched, Positioned, Typed, Asking
<1>9. CASE BracketSearch
  <2>1. pc' # "look" /\ (pc' = "main" => job' = "bracket")
    BY <1>9 DEF BracketSearch, DoFindBracket, BracketStep, BracketLine, NoBracket
  <2> QED BY <2>1 DEF Searching, Searched
<1> QED BY <1>1, <1>2, <1>3, <1>4, <1>5, <1>6, <1>7, <1>8, <1>9 DEF Other, Looks

LEMMA SearchStep ==
  ASSUME Positioned, Searching, Searched, pc = "bracket" => job = "bracket",
         [Next]_vars, "spell" \notin Jobs
  PROVE  Searching' /\ Searched'
<1>1. CASE Other
  BY <1>1, SearchSteps
<1>2. CASE \E all \in BOOLEAN : ReplaceOne(all)
  <2>1. pc = "found" /\ pc' = "look" /\ job' = job
    BY <1>2 DEF ReplaceOne
  <2> QED BY <2>1 DEF Searching, Searched, Positioned, Typed, Asking
<1>3. CASE Undo \/ Redo
  <2>1. pc' = "main" /\ outcome' = "none"
    BY <1>3 DEF Undo, Redo
  <2> QED BY <2>1 DEF Searching, Searched
<1>4. CASE UNCHANGED vars
  BY <1>4 DEF Searching, Searched, Gone, vars, buffer, finder, loop
<1> QED BY <1>1, <1>2, <1>3, <1>4, NextCases

-----------------------------------------------------------------------------
(* The matching bracket.                                                   *)

LEMMA AheadOrder ==
  ASSUME NEW w, NEW p \in Int \X Int, NEW q \in Int \X Int, NEW r \in Int \X Int
  PROVE  /\ ~Ahead(w, p, p)
         /\ p = q \/ Ahead(w, p, q) \/ Ahead(w, q, p)
         /\ ~(Ahead(w, p, q) /\ Ahead(w, q, p))
         /\ Ahead(w, p, q) /\ Ahead(w, q, r) => Ahead(w, p, r)
<1> DEFINE p1 == p[1]  p2 == p[2]  q1 == q[1]  q2 == q[2]  r1 == r[1]  r2 == r[2]
<1>1. /\ p1 \in Int /\ p2 \in Int /\ q1 \in Int /\ q2 \in Int /\ r1 \in Int /\ r2 \in Int
      /\ p = <<p1, p2>> /\ q = <<q1, q2>>
  OBVIOUS
<1>2. /\ Ahead(w, p, p) <=> IF w = "backward" THEN p1 < p1 \/ (p1 = p1 /\ p2 < p2)
                                              ELSE p1 < p1 \/ (p1 = p1 /\ p2 < p2)
      /\ Ahead(w, p, q) <=> IF w = "backward" THEN p1 < q1 \/ (p1 = q1 /\ p2 < q2)
                                              ELSE q1 < p1 \/ (q1 = p1 /\ q2 < p2)
      /\ Ahead(w, q, p) <=> IF w = "backward" THEN q1 < p1 \/ (q1 = p1 /\ q2 < p2)
                                              ELSE p1 < q1 \/ (p1 = q1 /\ p2 < q2)
      /\ Ahead(w, q, r) <=> IF w = "backward" THEN q1 < r1 \/ (q1 = r1 /\ q2 < r2)
                                              ELSE r1 < q1 \/ (r1 = q1 /\ r2 < q2)
      /\ Ahead(w, p, r) <=> IF w = "backward" THEN p1 < r1 \/ (p1 = r1 /\ p2 < r2)
                                              ELSE r1 < p1 \/ (r1 = p1 /\ r2 < p2)
  BY DEF Ahead, Before
<1> HIDE DEF p1, p2, q1, q2, r1, r2
<1>3. p1 = q1 /\ p2 = q2 => p = q
  BY <1>1
<1> QED BY <1>1, <1>2, <1>3

\* The brackets b from c to p in the direction, both included.
Span(t, w, c, p, b) ==
    {r \in PositionsOf(t) : /\ ~Ahead(w, c, r) /\ ~Ahead(w, r, p)
                            /\ r[2] < Len(t[r[1]]) /\ t[r[1]][r[2] + 1] = b}
Size(t, w, c, p, b) == Cardinality(Span(t, w, c, p, b))
Even(t, w, c, p) ==
    Size(t, w, c, p, "(") = Size(t, w, c, p, ")") /\ OpensAt(t[p[1]], p[2])

\* How many of the brackets up to p are open still.
Open(t, w, c, p) ==
    IF w = "backward" THEN Size(t, w, c, p, ")") - Size(t, w, c, p, "(")
                      ELSE Size(t, w, c, p, "(") - Size(t, w, c, p, ")")

LEMMA PositionsFinite ==
  ASSUME NEW t \in Bodies
  PROVE  IsFiniteSet(PositionsOf(t))
<1> DEFINE row(l) == {l} \X (0..Len(t[l]))
           rows == {row(l) : l \in 1..Len(t)}
<1>1. IsFiniteSet(1..Len(t))
  BY FS_Interval, BodyFacts
<1>2. IsFiniteSet(rows)
  <2> DEFINE f == [l \in 1..Len(t) |-> row(l)]
  <2> HIDE DEF row
  <2>1. f \in [1..Len(t) -> rows] /\ \A S \in rows : \E l \in 1..Len(t) : f[l] = S
    OBVIOUS
  <2> HIDE DEF f, rows
  <2>2. f \in Surjection(1..Len(t), rows)
    BY <2>1, Fun_IsSurj
  <2> QED BY <1>1, <2>2, FS_Surjection
<1>3. ASSUME NEW S \in rows PROVE IsFiniteSet(S)
  <2>1. PICK l \in 1..Len(t) : S = row(l)
    BY <1>3
  <2>2. IsFiniteSet({l}) /\ IsFiniteSet(0..Len(t[l]))
    <3>1. Len(t[l]) \in Int /\ 0 \in Int
      BY BodyFacts
    <3> QED BY <3>1, FS_Singleton, FS_Interval
  <2> QED BY <2>1, <2>2, FS_Product
<1>4. IsFiniteSet(UNION rows)
  <2> HIDE DEF rows
  <2> QED BY <1>2, <1>3, FS_UNION
<1> QED BY <1>4 DEF PositionsOf

LEMMA PositionIsPair ==
  ASSUME NEW t \in Bodies, NEW p \in PositionsOf(t)
  PROVE  /\ p \in Int \X Int /\ p[1] \in 1..Len(t) /\ p[2] \in 0..Len(t[p[1]])
         /\ Len(t[p[1]]) \in Nat /\ p = <<p[1], p[2]>>
<1>1. p \in Spots(t) /\ p[2] \in 0..Len(t[p[1]])
  BY PositionIff
<1>2. p[1] \in 1..Len(t) /\ p[2] \in Int /\ p = <<p[1], p[2]>> /\ p \in Int \X Int
  BY <1>1 DEF Spots
<1> QED BY <1>1, <1>2, BodyFacts

\* From a bracket to itself there is one, and it is open.
LEMMA FirstOpen ==
  ASSUME NEW t \in Bodies, NEW c \in PositionsOf(t), OpensAt(t[c[1]], c[2]),
         NEW w, w = IF t[c[1]][c[2] + 1] = ")" THEN "backward" ELSE "forward"
  PROVE  Open(t, w, c, c) = 1
<1>1. c \in Int \X Int /\ c[2] < Len(t[c[1]]) /\ t[c[1]][c[2] + 1] \in {"(", ")"}
  BY PositionIsPair DEF OpensAt, IsBracket
<1>2. ASSUME NEW r \in PositionsOf(t), ~Ahead(w, c, r), ~Ahead(w, r, c)
      PROVE  r = c
  BY <1>1, <1>2, PositionIsPair, AheadOrder
<1>3. ~Ahead(w, c, c)
  BY <1>1, AheadOrder
<1>4. ASSUME NEW b
      PROVE  Span(t, w, c, c, b) = IF t[c[1]][c[2] + 1] = b THEN {c} ELSE {}
  BY <1>1, <1>2, <1>3 DEF Span
<1>5. Cardinality({c}) = 1 /\ Cardinality({}) = 0
  BY FS_Singleton, FS_EmptySet
<1>6. CASE t[c[1]][c[2] + 1] = ")"
  <2>1. Size(t, w, c, c, ")") = 1 /\ Size(t, w, c, c, "(") = 0
    BY <1>4, <1>5, <1>6 DEF Size
  <2> QED BY <1>6, <2>1 DEF Open
<1>7. CASE t[c[1]][c[2] + 1] = "("
  <2>1. Size(t, w, c, c, "(") = 1 /\ Size(t, w, c, c, ")") = 0
    BY <1>4, <1>5, <1>7 DEF Size
  <2> QED BY <1>7, <2>1 DEF Open
<1> QED BY <1>1, <1>6, <1>7

\* With the next bracket one more is open, or one less, and up to a bracket as many open as
\* close when none is.
LEMMA NextOpen ==
  ASSUME NEW t \in Bodies, NEW c \in PositionsOf(t), NEW p \in PositionsOf(t),
         NEW q \in PositionsOf(t), NEW w, OpensAt(t[q[1]], q[2]),
         p = c \/ Ahead(w, p, c), Ahead(w, q, p),
         \A r \in PositionsOf(t) :
           OpensAt(t[r[1]], r[2]) /\ Ahead(w, r, p) => r = q \/ Ahead(w, r, q)
  PROVE  /\ Open(t, w, c, p) \in Int
         /\ Open(t, w, c, q) =
              Open(t, w, c, p) + (IF w = "backward" THEN IF t[q[1]][q[2] + 1] = ")" THEN 1 ELSE -1
                                                    ELSE IF t[q[1]][q[2] + 1] = "(" THEN 1 ELSE -1)
         /\ Even(t, w, c, q) <=> Open(t, w, c, q) = 0
<1>1. /\ c \in Int \X Int /\ p \in Int \X Int /\ q \in Int \X Int
      /\ q[2] < Len(t[q[1]]) /\ t[q[1]][q[2] + 1] \in {"(", ")"}
  BY PositionIsPair DEF OpensAt, IsBracket
<1>2. ~Ahead(w, c, q)
  BY <1>1, AheadOrder
<1>3. ASSUME NEW b \in {"(", ")"}
      PROVE  /\ IsFiniteSet(Span(t, w, c, p, b)) /\ q \notin Span(t, w, c, p, b)
             /\ Span(t, w, c, q, b) = IF t[q[1]][q[2] + 1] = b THEN Span(t, w, c, p, b) \cup {q}
                                                               ELSE Span(t, w, c, p, b)
  <2>1. IsFiniteSet(Span(t, w, c, p, b))
    BY PositionsFinite, FS_Subset DEF Span
  <2>2. q \notin Span(t, w, c, p, b)
    BY DEF Span
  <2>3. ASSUME NEW r \in PositionsOf(t), r[2] < Len(t[r[1]]), t[r[1]][r[2] + 1] = b, r # q
        PROVE  Ahead(w, r, p) <=> Ahead(w, r, q)
    <3>1. OpensAt(t[r[1]], r[2]) /\ r \in Int \X Int
      BY <2>3, PositionIsPair DEF OpensAt, IsBracket
    <3> QED BY <1>1, <2>3, <3>1, AheadOrder
  <2>4. ~Ahead(w, q, q)
    BY <1>1, AheadOrder
  <2>5. ASSUME NEW r
        PROVE  r \in Span(t, w, c, q, b) <=>
                 r \in Span(t, w, c, p, b) \/ (r = q /\ t[q[1]][q[2] + 1] = b)
    <3>1. CASE r = q
      BY <1>1, <1>2, <2>2, <2>4, <3>1 DEF Span
    <3>2. CASE r # q
      BY <2>3, <3>2 DEF Span
    <3> QED BY <3>1, <3>2
  <2> QED BY <2>1, <2>2, <2>5
<1>4. ASSUME NEW b \in {"(", ")"}
      PROVE  /\ Size(t, w, c, p, b) \in Nat
             /\ Size(t, w, c, q, b) = IF t[q[1]][q[2] + 1] = b THEN Size(t, w, c, p, b) + 1
                                                               ELSE Size(t, w, c, p, b)
  <2>1. Size(t, w, c, p, b) \in Nat
    BY <1>3, FS_CardinalityType DEF Size
  <2>2. Cardinality(Span(t, w, c, p, b) \cup {q}) = Cardinality(Span(t, w, c, p, b)) + 1
    BY <1>3, FS_AddElement
  <2> QED BY <1>3, <2>1, <2>2 DEF Size
<1> DEFINE o == Size(t, w, c, p, "(")  k == Size(t, w, c, p, ")")
<1>5. o \in Nat /\ k \in Nat
  BY <1>4
<1>6. CASE t[q[1]][q[2] + 1] = "("
  <2>1. Size(t, w, c, q, "(") = o + 1 /\ Size(t, w, c, q, ")") = k
    BY <1>4, <1>6
  <2> HIDE DEF o, k
  <2> QED BY <1>5, <1>6, <2>1 DEF Open, Even, o, k
<1>7. CASE t[q[1]][q[2] + 1] = ")"
  <2>1. Size(t, w, c, q, "(") = o /\ Size(t, w, c, q, ")") = k + 1
    BY <1>4, <1>7
  <2> HIDE DEF o, k
  <2> QED BY <1>5, <1>7, <2>1 DEF Open, Even, o, k
<1> QED BY <1>1, <1>6, <1>7

Beyond(w, l, m) == IF w = "backward" THEN l < m ELSE l > m

\* The brackets up to the cursor are counted, none of them matches, and the next is looked
\* for from beside the cursor, or from the beginning of a line beyond which comes before
\* no bracket.
Bracketing ==
    pc = "bracket" =>
      LET w == from.way  c == saved.cur IN
      /\ job = "bracket" /\ from = [text |-> text, cur |-> c, way |-> BracketWay(c)]
      /\ OpensAt(text[c[1]], c[2]) /\ OpensAt(text[cur[1]], cur[2])
      /\ cur = c \/ Ahead(w, cur, c)
      /\ count = Open(text, w, c, cur) /\ count # 0
      /\ \A p \in PositionsOf(text) :
           Ahead(w, p, c) /\ ~Ahead(w, p, cur) => ~Even(text, w, c, p)
      /\ IF at = cur[1] THEN start = StartAt(cur, w)
                        ELSE Beyond(w, at, cur[1]) /\ start = StartOf(w, text[at])
      /\ \A r \in PositionsOf(text) :
           OpensAt(text[r[1]], r[2]) /\ Ahead(w, r, cur) => ~Beyond(w, at, r[1])

\* What the search for a bracket has found.
Bracketed ==
    pc = "main" /\ job = "bracket" =>
      LET t == from.text  w == from.way  c == from.cur IN
      /\ outcome = "found" =>
           /\ t \in Bodies /\ w \in AllWays /\ cur \in PositionsOf(t)
           /\ Ahead(w, cur, c) /\ Even(t, w, c, cur)
           /\ \A p \in PositionsOf(t) : Ahead(w, p, c) /\ Ahead(w, cur, p) => ~Even(t, w, c, p)
      /\ outcome = "not found" =>
           /\ t \in Bodies /\ w \in AllWays /\ cur = c
           /\ \A p \in PositionsOf(t) : Ahead(w, p, c) => ~Even(t, w, c, p)

LEMMA BracketedIsBracketMatches == Bracketed => BracketMatches
<1> SUFFICES ASSUME Bracketed, pc = "main", job = "bracket", outcome \in {"found", "not found"}
             PROVE  BracketMatches
  BY DEF BracketMatches
<1> DEFINE t == from.text  w == from.way  c == from.cur
           between(p, q) == {r \in PositionsOf(t) : ~Before(r, p) /\ ~Before(q, r)}
           marked(S, b) == {r \in S : r[2] < Len(t[r[1]]) /\ t[r[1]][r[2] + 1] = b}
           count1(S, b) == Cardinality(marked(S, b))
           upto(p) == IF w = "forward" THEN between(c, p) ELSE between(p, c)
           even(p) == count1(upto(p), "(") = count1(upto(p), ")") /\ OpensAt(t[p[1]], p[2])
           closer(p, q) == IF w = "forward" THEN Before(p, q) ELSE Before(q, p)
           ahead == {p \in PositionsOf(t) : closer(c, p)}
<1>1. t \in Bodies /\ w \in AllWays
  BY DEF Bracketed
<1>2. w = "forward" \/ w = "backward"
  BY <1>1 DEF AllWays
<1> HIDE DEF t, w, c
<1>3. ASSUME NEW p, NEW q PROVE closer(p, q) <=> Ahead(w, q, p)
  BY <1>2 DEF Ahead
<1>4. ASSUME NEW p, NEW b PROVE marked(upto(p), b) = Span(t, w, c, p, b)
  <2>1. CASE w = "forward"
    BY <2>1 DEF Span, Ahead
  <2>2. CASE w = "backward"
    BY <2>2 DEF Span, Ahead
  <2> QED BY <1>2, <2>1, <2>2
<1>5. ASSUME NEW p PROVE even(p) <=> Even(t, w, c, p)
  <2> HIDE DEF marked, upto
  <2> QED BY <1>4 DEF Even, Size
<1>6. ASSUME NEW p \in PositionsOf(t) PROVE p \in ahead <=> Ahead(w, p, c)
  <2> HIDE DEF closer
  <2> QED BY <1>3
<1>7. outcome = "found" => /\ cur \in PositionsOf(t) /\ Ahead(w, cur, c) /\ Even(t, w, c, cur)
                           /\ \A p \in PositionsOf(t) :
                                Ahead(w, p, c) /\ Ahead(w, cur, p) => ~Even(t, w, c, p)
  BY DEF Bracketed, t, w, c
<1>8. outcome = "not found" => /\ cur = c
                               /\ \A p \in PositionsOf(t) : Ahead(w, p, c) => ~Even(t, w, c, p)
  BY DEF Bracketed, t, w, c
<1>9. \A p \in ahead : p \in PositionsOf(t)
  OBVIOUS
<1> HIDE DEF ahead, closer, even
<1>10. /\ outcome = "found" => cur \in ahead /\ even(cur)
                               /\ \A p \in ahead : closer(p, cur) => ~even(p)
       /\ outcome = "not found" => cur = c /\ \A p \in ahead : ~even(p)
  BY <1>3, <1>5, <1>6, <1>7, <1>8, <1>9
<1> QED BY <1>10 DEF BracketMatches, ahead, closer, even, t, w, c

\* The brackets of the line from where it is looked at.
LEMMA NoNextBracket ==
  ASSUME Typed, NextBracket = None, NEW x \in 0..Len(text[at]), OpensAt(text[at], x)
  PROVE  ~(IF Reversed THEN x <= start ELSE x >= start)
<1> DEFINE here == {y \in 0..Len(text[at]) : OpensAt(text[at], y)}
           hits == {y \in here : IF Reversed THEN y <= start ELSE y >= start}
<1>1. NextBracket = IF hits = {} THEN None ELSE IF Reversed THEN Max(hits) ELSE Min(hits)
  BY DEF NextBracket
<1>2. Len(text[at]) \in Nat
  BY BodyFacts DEF Typed, Placed
<1>3. hits \subseteq 0..Len(text[at]) /\ hits \subseteq Nat
  BY <1>2
<1>4. (IF Reversed THEN x <= start ELSE x >= start) => x \in hits
  OBVIOUS
<1> HIDE DEF hits
<1>5. ASSUME hits # {} PROVE NextBracket \in Nat
  <2>1. Max(hits) \in hits /\ Min(hits) \in hits
    BY <1>2, <1>3, <1>5, GreatestIn, LeastIn
  <2> QED BY <1>1, <1>3, <1>5, <2>1
<1>6. hits = {}
  BY <1>5 DEF None
<1> QED BY <1>4, <1>6

\* What is looked at, and ahead of what.
LEMMA BracketStart ==
  ASSUME Positioned, Bracketing, pc = "bracket"
  PROVE  LET w == from.way IN
         /\ text \in Bodies /\ cur \in PositionsOf(text) /\ saved.cur \in PositionsOf(text)
         /\ w \in AllWays /\ (Reversed <=> w = "backward") /\ w = BracketWay(saved.cur)
         /\ at \in 1..Len(text) /\ start \in Int
         /\ \A x \in 0..Len(text[at]) : Near(w, x, start) => Ahead(w, <<at, x>>, cur)
         /\ \A r \in PositionsOf(text) :
              OpensAt(text[r[1]], r[2]) /\ Ahead(w, r, cur) =>
                (r[1] = at /\ Near(w, r[2], start)) \/ Beyond(w, r[1], at)
<1> DEFINE w == from.way
<1>1. /\ text \in Bodies /\ cur \in PositionsOf(text) /\ saved.cur \in PositionsOf(text)
      /\ at \in 1..Len(text) /\ start \in Int
  BY DEF Positioned, Typed, Placed, Fits
<1>2. w \in AllWays /\ (Reversed <=> w = "backward") /\ w = BracketWay(saved.cur)
  <2>1. w = BracketWay(saved.cur)
    BY DEF Bracketing
  <2> HIDE DEF w
  <2> QED BY <2>1 DEF BracketWay, Reversed, AllWays
<1>3. cur[1] \in Int /\ cur[2] \in Int /\ Len(text[at]) \in Nat /\ at \in Int
      /\ cur = <<cur[1], cur[2]>>
  BY <1>1, PositionIsPair, BodyFacts
<1>4. /\ IF at = cur[1] THEN start = StartAt(cur, w)
                        ELSE Beyond(w, at, cur[1]) /\ start = StartOf(w, text[at])
      /\ \A r \in PositionsOf(text) :
           OpensAt(text[r[1]], r[2]) /\ Ahead(w, r, cur) => ~Beyond(w, at, r[1])
  BY DEF Bracketing
<1> HIDE DEF w
<1>5. ASSUME NEW l \in Int, NEW x \in Int
      PROVE  Ahead(w, <<l, x>>, cur) <=>
               IF w = "backward" THEN l < cur[1] \/ (l = cur[1] /\ x < cur[2])
                                 ELSE cur[1] < l \/ (cur[1] = l /\ cur[2] < x)
  BY DEF Ahead, Before
<1>6. ASSUME NEW x \in 0..Len(text[at]), Near(w, x, start)
      PROVE  Ahead(w, <<at, x>>, cur)
  <2>1. x \in Int
    BY <1>3
  <2>2. Ahead(w, <<at, x>>, cur) <=>
               IF w = "backward" THEN at < cur[1] \/ (at = cur[1] /\ x < cur[2])
                                 ELSE cur[1] < at \/ (cur[1] = at /\ cur[2] < x)
    BY <1>3, <1>5, <2>1
  <2>3. CASE at = cur[1]
    <3>1. start = IF w = "backward" THEN cur[2] - 1 ELSE cur[2] + 1
      BY <1>4, <2>3 DEF StartAt
    <3> QED BY <1>3, <1>6, <2>1, <2>2, <2>3, <3>1 DEF Near
  <2>4. CASE at # cur[1]
    <3>1. Beyond(w, at, cur[1])
      BY <1>4, <2>4
    <3> QED BY <1>3, <2>2, <3>1 DEF Beyond
  <2> QED BY <2>3, <2>4
<1>7. ASSUME NEW r \in PositionsOf(text), OpensAt(text[r[1]], r[2]), Ahead(w, r, cur)
      PROVE  (r[1] = at /\ Near(w, r[2], start)) \/ Beyond(w, r[1], at)
  <2>1. /\ r[1] \in Int /\ r[2] \in Int /\ r = <<r[1], r[2]>> /\ r[2] \in 0..Len(text[r[1]])
    BY <1>1, PositionIsPair
  <2>2. ~Beyond(w, at, r[1])
    BY <1>4, <1>7
  <2>3. IF w = "backward" THEN r[1] < cur[1] \/ (r[1] = cur[1] /\ r[2] < cur[2])
                          ELSE cur[1] < r[1] \/ (cur[1] = r[1] /\ cur[2] < r[2])
    BY <1>5, <1>7, <2>1
  <2>4. r[1] = at \/ Beyond(w, r[1], at)
    BY <1>3, <2>1, <2>2 DEF Beyond
  <2>5. ASSUME r[1] = at PROVE Near(w, r[2], start)
    <3>1. CASE at = cur[1]
      <4>1. start = IF w = "backward" THEN cur[2] - 1 ELSE cur[2] + 1
        BY <1>4, <3>1 DEF StartAt
      <4> QED BY <1>3, <2>1, <2>3, <2>5, <3>1, <4>1 DEF Near
    <3>2. CASE at # cur[1]
      <4>1. start = IF w = "backward" THEN Len(text[at]) ELSE 0
        BY <1>4, <3>2 DEF StartOf
      <4> QED BY <1>3, <2>1, <2>5, <4>1 DEF Near
    <3> QED BY <3>1, <3>2
  <2> QED BY <2>4, <2>5
<1> QED BY <1>1, <1>2, <1>6, <1>7 DEF w

LEMMA BracketingFrom ==
  ASSUME Positioned, DoFindBracket
  PROVE  Bracketing'
<1> DEFINE w == BracketWay(cur)
<1>1. /\ pc = "main" /\ job' = "bracket" /\ OpensAt(text[cur[1]], cur[2])
      /\ saved' = [cur |-> cur, last |-> last, way |-> way] /\ UNCHANGED <<text, cur>>
      /\ at' = cur[1] /\ start' = StartAt(cur, w) /\ count' = 1
      /\ from' = [text |-> text, cur |-> cur, way |-> w]
  BY DEF DoFindBracket, buffer
<1>2. text \in Bodies /\ cur \in PositionsOf(text)
  BY <1>1 DEF Positioned, Typed, Placed, Fits
<1>3. Open(text, w, cur, cur) = 1
  BY <1>1, <1>2, FirstOpen DEF BracketWay
<1>4. BracketWay(cur)' = w
  BY <1>1 DEF BracketWay
<1>5. saved'.cur = cur /\ from'.way = w
  BY <1>1
<1> HIDE DEF w
<1>6. ASSUME NEW r \in PositionsOf(text), Ahead(w, r, cur) PROVE ~Beyond(w, cur[1], r[1])
  <2>1. r[1] \in Int /\ cur[1] \in Int
    BY <1>2, PositionIsPair
  <2> QED BY <1>6, <2>1 DEF Ahead, Before, Beyond
<1>7. from' = [text |-> text', cur |-> saved'.cur, way |-> BracketWay(saved.cur)']
  <2>1. BracketWay(saved.cur)' = w
    BY <1>1, <1>4, <1>5 DEF BracketWay
  <2> QED BY <1>1, <1>5, <2>1
<1>8. \A p \in PositionsOf(text) : ~(Ahead(w, p, cur) /\ ~Ahead(w, p, cur))
  OBVIOUS
<1> QED BY <1>1, <1>3, <1>5, <1>6, <1>7, <1>8 DEF Bracketing

LEMMA BracketingLine ==
  ASSUME Positioned, Bracketing, BracketLine
  PROVE  Bracketing'
<1> DEFINE w == from.way
<1>1. /\ pc = "bracket" /\ NextBracket = None /\ at' = (IF Reversed THEN at - 1 ELSE at + 1)
      /\ start' = IF Reversed THEN Len(text[at']) ELSE 0
      /\ UNCHANGED <<text, cur, job, count, saved, from>>
  BY DEF BracketLine, buffer, loop
<1>2. /\ text \in Bodies /\ cur \in PositionsOf(text) /\ at \in 1..Len(text) /\ start \in Int
      /\ (Reversed <=> w = "backward")
      /\ \A r \in PositionsOf(text) :
           OpensAt(text[r[1]], r[2]) /\ Ahead(w, r, cur) =>
             (r[1] = at /\ Near(w, r[2], start)) \/ Beyond(w, r[1], at)
  BY <1>1, BracketStart
<1>3. IF at = cur[1] THEN TRUE ELSE Beyond(w, at, cur[1])
  BY <1>1 DEF Bracketing
<1>4. cur[1] \in Int /\ at \in Int
  BY <1>2, PositionIsPair
<1> HIDE DEF w
<1>5. start' = StartOf(w, text[at']) /\ at' = IF w = "backward" THEN at - 1 ELSE at + 1
  BY <1>1, <1>2 DEF StartOf
<1>6. at' # cur[1] /\ Beyond(w, at', cur[1])
  BY <1>3, <1>4, <1>5 DEF Beyond
<1>7. ASSUME NEW r \in PositionsOf(text), OpensAt(text[r[1]], r[2]), Ahead(w, r, cur)
      PROVE  ~Beyond(w, at', r[1])
  <2>1. r[1] \in Int /\ r[2] \in 0..Len(text[r[1]])
    BY <1>2, PositionIsPair
  <2>2. ~(r[1] = at /\ Near(w, r[2], start))
    <3> SUFFICES ASSUME r[1] = at, Near(w, r[2], start) PROVE FALSE
      OBVIOUS
    <3>1. IF Reversed THEN r[2] <= start ELSE r[2] >= start
      BY <1>2 DEF Near
    <3> QED BY <1>1, <1>7, <2>1, <3>1, NoNextBracket DEF Positioned
  <2>3. Beyond(w, r[1], at)
    BY <1>2, <1>7, <2>2
  <2> QED BY <1>4, <1>5, <2>1, <2>3 DEF Beyond
<1>8. BracketWay(saved.cur)' = BracketWay(saved.cur)
  BY <1>1 DEF BracketWay
<1> QED BY <1>1, <1>5, <1>6, <1>7, <1>8 DEF Bracketing, w

LEMMA BracketedNone ==
  ASSUME Positioned, Bracketing, NoBracket
  PROVE  Bracketed'
<1> DEFINE w == from.way  c == saved.cur
<1>1. /\ pc = "bracket" /\ NextBracket = None /\ at = (IF Reversed THEN 1 ELSE Len(text))
      /\ pc' = "main" /\ outcome' = "not found" /\ cur' = c /\ UNCHANGED <<text, from, job>>
  BY DEF NoBracket
<1>2. /\ text \in Bodies /\ (Reversed <=> w = "backward") /\ w \in AllWays /\ at \in 1..Len(text)
      /\ \A r \in PositionsOf(text) :
           OpensAt(text[r[1]], r[2]) /\ Ahead(w, r, cur) =>
             (r[1] = at /\ Near(w, r[2], start)) \/ Beyond(w, r[1], at)
  BY <1>1, BracketStart
<1>3. /\ from.text = text /\ from.cur = c
      /\ \A p \in PositionsOf(text) :
           Ahead(w, p, c) /\ ~Ahead(w, p, cur) => ~Even(text, w, c, p)
  <2>1. /\ from = [text |-> text, cur |-> saved.cur, way |-> BracketWay(saved.cur)]
        /\ \A p \in PositionsOf(text) :
             Ahead(w, p, c) /\ ~Ahead(w, p, cur) => ~Even(text, w, c, p)
    BY <1>1 DEF Bracketing
  <2>2. from.text = text /\ from.cur = saved.cur
    BY <2>1
  <2> QED BY <2>1, <2>2
<1> HIDE DEF w, c
<1>4. ASSUME NEW p \in PositionsOf(text), Ahead(w, p, c) PROVE ~Even(text, w, c, p)
  <2>1. CASE ~OpensAt(text[p[1]], p[2])
    BY <2>1 DEF Even
  <2>2. CASE ~Ahead(w, p, cur)
    BY <1>3, <1>4, <2>2
  <2>3. CASE OpensAt(text[p[1]], p[2]) /\ Ahead(w, p, cur)
    <3>1. p[1] \in 1..Len(text) /\ p[2] \in 0..Len(text[p[1]]) /\ Len(text) \in Nat
      BY <1>2, PositionIsPair, BodyFacts
    <3>2. ~Beyond(w, p[1], at)
      <4>1. p[1] \in Int /\ p[1] >= 1 /\ p[1] <= Len(text)
        BY <3>1
      <4>2. at = IF w = "backward" THEN 1 ELSE Len(text)
        BY <1>1, <1>2
      <4> QED BY <3>1, <4>1, <4>2 DEF Beyond
    <3>3. p[1] = at /\ Near(w, p[2], start)
      BY <1>2, <2>3, <3>2
    <3>4. IF Reversed THEN p[2] <= start ELSE p[2] >= start
      BY <1>2, <3>3 DEF Near
    <3> QED BY <1>1, <2>3, <3>1, <3>3, <3>4, NoNextBracket DEF Positioned
  <2> QED BY <2>1, <2>2, <2>3
<1> QED BY <1>1, <1>2, <1>3, <1>4 DEF Bracketed, w, c

LEMMA BracketStepFacts ==
  ASSUME Positioned, Bracketing, BracketStep
  PROVE  LET w == from.way  c == saved.cur  q == <<at, NextBracket>> IN
         /\ q \in PositionsOf(text) /\ OpensAt(text[at], NextBracket) /\ Ahead(w, q, cur)
         /\ Ahead(w, q, c)
         /\ \A r \in PositionsOf(text) :
              OpensAt(text[r[1]], r[2]) /\ Ahead(w, r, cur) => r = q \/ Ahead(w, r, q)
         /\ count' = Open(text, w, c, q) /\ (Even(text, w, c, q) <=> count' = 0)
         /\ \A p \in PositionsOf(text) :
              Ahead(w, p, c) /\ ~Ahead(w, p, q) /\ p # q => ~Even(text, w, c, p)
<1> DEFINE w == from.way  c == saved.cur  q == <<at, NextBracket>>
<1>1. pc = "bracket" /\ NextBracket # None /\ count' = Counted(q)
  <2>1. cur' = q /\ count' = Counted(cur')
    BY DEF BracketStep
  <2> QED BY <2>1 DEF BracketStep
<1>2. /\ NextBracket \in 0..Len(text[at]) /\ OpensAt(text[at], NextBracket)
      /\ IF Reversed THEN NextBracket <= start ELSE NextBracket >= start
      /\ \A x \in 0..Len(text[at]) :
              OpensAt(text[at], x) /\ (IF Reversed THEN x <= start ELSE x >= start) =>
              IF Reversed THEN x <= NextBracket ELSE x >= NextBracket
  BY <1>1, NextBracketFacts DEF Positioned
<1>3. /\ text \in Bodies /\ cur \in PositionsOf(text) /\ c \in PositionsOf(text)
      /\ w \in AllWays /\ (Reversed <=> w = "backward") /\ w = BracketWay(c)
      /\ at \in 1..Len(text) /\ start \in Int
      /\ \A x \in 0..Len(text[at]) : Near(w, x, start) => Ahead(w, <<at, x>>, cur)
      /\ \A r \in PositionsOf(text) :
           OpensAt(text[r[1]], r[2]) /\ Ahead(w, r, cur) =>
             (r[1] = at /\ Near(w, r[2], start)) \/ Beyond(w, r[1], at)
  BY <1>1, BracketStart
<1>4. /\ OpensAt(text[c[1]], c[2]) /\ (cur = c \/ Ahead(w, cur, c))
      /\ count = Open(text, w, c, cur)
      /\ \A p \in PositionsOf(text) :
           Ahead(w, p, c) /\ ~Ahead(w, p, cur) => ~Even(text, w, c, p)
  BY <1>1 DEF Bracketing
<1> HIDE DEF w, c
<1>5. q \in PositionsOf(text)
  BY <1>2, <1>3, StartIsPosition
<1>6. Near(w, NextBracket, start)
  BY <1>2, <1>3 DEF Near
<1>7. Ahead(w, q, cur)
  BY <1>2, <1>3, <1>6
<1>8. q[1] = at /\ q[2] = NextBracket /\ NextBracket \in Int /\ at \in Int
  BY <1>5, PositionIsPair, <1>3
<1>9. Ahead(w, q, c)
  BY <1>3, <1>4, <1>5, <1>7, PositionIsPair, AheadOrder
<1>10. ASSUME NEW r \in PositionsOf(text), OpensAt(text[r[1]], r[2]), Ahead(w, r, cur)
       PROVE  r = q \/ Ahead(w, r, q)
  <2>1. r[1] \in Int /\ r[2] \in Int /\ r = <<r[1], r[2]>> /\ r[2] \in 0..Len(text[r[1]])
    BY <1>3, PositionIsPair
  <2>2. CASE Beyond(w, r[1], at)
    BY <1>8, <2>1, <2>2 DEF Beyond, Ahead, Before
  <2>3. CASE r[1] = at /\ Near(w, r[2], start)
    <3>1. IF Reversed THEN r[2] <= start ELSE r[2] >= start
      BY <1>3, <2>3 DEF Near
    <3>2. IF w = "backward" THEN r[2] <= NextBracket ELSE r[2] >= NextBracket
      BY <1>2, <1>3, <1>10, <2>1, <2>3, <3>1
    <3>3. r[2] = NextBracket => r = q
      BY <2>1, <2>3
    <3> QED BY <1>8, <2>1, <2>3, <3>2, <3>3 DEF Ahead, Before
  <2> QED BY <1>3, <1>10, <2>2, <2>3
<1> DEFINE b == text[at][NextBracket + 1]
<1>11. /\ Open(text, w, c, cur) \in Int
       /\ Open(text, w, c, q) =
            Open(text, w, c, cur) + (IF w = "backward" THEN IF b = ")" THEN 1 ELSE -1
                                                       ELSE IF b = "(" THEN 1 ELSE -1)
       /\ Even(text, w, c, q) <=> Open(text, w, c, q) = 0
  <2>1. OpensAt(text[q[1]], q[2]) /\ text[q[1]][q[2] + 1] = b
    BY <1>2, <1>8
  <2> HIDE DEF q, b
  <2> QED BY <1>3, <1>4, <1>5, <1>7, <1>10, <2>1, NextOpen
<1>12. count' = Open(text, w, c, q)
  <2> DEFINE first == text[c[1]][c[2] + 1]
  <2>1. count' = IF b = first THEN count + 1 ELSE count - 1
    BY <1>1, <1>8 DEF Counted, c
  <2>2. first \in {"(", ")"} /\ b \in {"(", ")"}
    BY <1>2, <1>4 DEF OpensAt, IsBracket
  <2>3. w = IF first = ")" THEN "backward" ELSE "forward"
    BY <1>3 DEF BracketWay
  <2> HIDE DEF b, first, q
  <2>4. CASE first = ")"
    BY <1>4, <1>11, <2>1, <2>2, <2>3, <2>4
  <2>5. CASE first = "("
    BY <1>4, <1>11, <2>1, <2>2, <2>3, <2>5
  <2> QED BY <2>2, <2>4, <2>5
<1>13. ASSUME NEW p \in PositionsOf(text), Ahead(w, p, c), ~Ahead(w, p, q), p # q
       PROVE  ~Even(text, w, c, p)
  <2>1. CASE ~OpensAt(text[p[1]], p[2])
    BY <2>1 DEF Even
  <2>2. CASE OpensAt(text[p[1]], p[2])
    BY <1>4, <1>10, <1>13, <2>2
  <2> QED BY <2>1, <2>2
<1> QED BY <1>2, <1>5, <1>7, <1>9, <1>10, <1>11, <1>12, <1>13 DEF w, c

LEMMA BracketNext ==
  ASSUME Positioned, Bracketing, BracketStep
  PROVE  Bracketing' /\ Bracketed'
<1> DEFINE w == from.way  c == saved.cur  q == <<at, NextBracket>>
<1>1. /\ q \in PositionsOf(text) /\ OpensAt(text[at], NextBracket) /\ Ahead(w, q, cur)
      /\ Ahead(w, q, c)
      /\ \A r \in PositionsOf(text) :
           OpensAt(text[r[1]], r[2]) /\ Ahead(w, r, cur) => r = q \/ Ahead(w, r, q)
      /\ count' = Open(text, w, c, q) /\ (Even(text, w, c, q) <=> count' = 0)
      /\ \A p \in PositionsOf(text) :
           Ahead(w, p, c) /\ ~Ahead(w, p, q) /\ p # q => ~Even(text, w, c, p)
  BY BracketStepFacts
<1>2. /\ pc = "bracket" /\ cur' = q /\ at' = at
      /\ UNCHANGED <<text, job, saved, from>>
      /\ IF count' = 0 THEN pc' = "main" /\ outcome' = "found"
                       ELSE pc' = pc /\ start' = StartAt(cur', BracketWay(saved.cur))
  BY DEF BracketStep
<1>3. /\ text \in Bodies /\ w \in AllWays /\ w = BracketWay(saved.cur)
      /\ c \in PositionsOf(text)
  BY <1>2, BracketStart
<1>4. /\ job = "bracket" /\ from = [text |-> text, cur |-> saved.cur, way |-> BracketWay(saved.cur)]
      /\ OpensAt(text[c[1]], c[2])
  BY <1>2 DEF Bracketing
<1>5. from.text = text /\ from.cur = c
  BY <1>4
<1>6. BracketWay(saved.cur)' = BracketWay(saved.cur)
  BY <1>2 DEF BracketWay
<1>7. q[1] = at /\ q[2] = NextBracket /\ q \in Int \X Int /\ at \in Int
  BY <1>1, <1>3, PositionIsPair
<1> HIDE DEF w, c, q
<1>8. CASE count' = 0
  <2>1. ASSUME NEW p \in PositionsOf(text), Ahead(w, p, c), Ahead(w, q, p)
        PROVE  ~Even(text, w, c, p)
    <3>1. ~Ahead(w, p, q) /\ p # q
      <4>1. p \in Int \X Int /\ q \in Int \X Int
        BY <1>3, <1>7, PositionIsPair
      <4>2. ~(Ahead(w, p, q) /\ Ahead(w, q, p)) /\ ~Ahead(w, q, q)
        BY <4>1, AheadOrder
      <4> QED BY <2>1, <4>2
    <3> QED BY <1>1, <2>1, <3>1
  <2>2. /\ from.text = text /\ from.way = w /\ from.cur = c
    BY <1>5 DEF w
  <2>3. pc' = "main" /\ outcome' = "found" /\ cur' = q /\ from' = from
    BY <1>2, <1>8
  <2>4. Even(text, w, c, q)
    BY <1>1, <1>8
  <2> QED BY <1>1, <1>3, <2>1, <2>2, <2>3, <2>4 DEF Bracketing, Bracketed
<1>9. CASE count' # 0
  <2>1. ASSUME NEW p \in PositionsOf(text), Ahead(w, p, c), ~Ahead(w, p, q)
        PROVE  ~Even(text, w, c, p)
    BY <1>1, <1>9, <2>1
  <2>2. ASSUME NEW r \in PositionsOf(text), Ahead(w, r, q) PROVE ~Beyond(w, at, r[1])
    <3>1. r[1] \in Int
      BY <1>3, PositionIsPair
    <3> QED BY <1>7, <2>2, <3>1 DEF Ahead, Before, Beyond
  <2>3. /\ pc' = "bracket" /\ cur' = q /\ at' = at /\ start' = StartAt(q, w)
        /\ from' = from /\ saved' = saved /\ text' = text /\ job' = job
    BY <1>2, <1>3, <1>9
  <2>4. /\ OpensAt(text[q[1]], q[2]) /\ at = q[1]
    BY <1>1, <1>7
  <2> QED BY <1>1, <1>4, <1>6, <1>9, <2>1, <2>2, <2>3, <2>4 DEF Bracketing, Bracketed, w, c
<1> QED BY <1>8, <1>9

\* No other step is of a search for a bracket.
LEMMA BracketSteps ==
  ASSUME Positioned, Bracketing, Bracketed, [Next]_vars
  PROVE  Bracketing' /\ Bracketed'
<1>1. CASE Asks
  <2>1. pc' \notin {"bracket"} /\ (pc' = "main" => outcome' = "cancelled")
    BY <1>1 DEF Asks, DoPrompt, ToggleBackwards, SwitchJob, Abort, AskReplacement
  <2> QED BY <2>1 DEF Bracketing, Bracketed
<1>2. CASE Ends
  <2>1. pc' = "main" /\ job' = job
    BY <1>2, EndsFinish DEF Finish
  <2>2. pc \in {"look", "found"}
    BY <1>2 DEF Ends, NotFound, Interrupt, LeaveRegion, CancelReplace
  <2> QED BY <2>1, <2>2 DEF Bracketing, Bracketed, Positioned, Typed, Asking
<1>3. CASE \E n \in Needles : DoSearch(n) \/ SpellWord(n)
  <2>1. pc' = "look"
    BY <1>3 DEF DoSearch, SpellWord, Look
  <2> QED BY <2>1 DEF Bracketing, Bracketed
<1>4. CASE \E a \in Replacements : DoReplace(a) \/ Correct(a)
  <2>1. pc' = "look"
    BY <1>4 DEF DoReplace, Correct, Look
  <2> QED BY <2>1 DEF Bracketing, Bracketed
<1>5. CASE \E line \in -1..2, column \in 1..2, relative \in BOOLEAN :
             GotoLine(line, column, relative)
  <2>1. pc' = "main" /\ outcome' = "none"
    BY <1>5 DEF GotoLine
  <2> QED BY <2>1 DEF Bracketing, Bracketed
<1>6. CASE Looks
  <2>1. pc' # "bracket" /\ (pc' = "main" => job' = "search")
    BY <1>6 DEF Looks, NextLine, FoundMatch, ReadOn, SkipInstance, Look
  <2> QED BY <2>1 DEF Bracketing, Bracketed
<1>7. CASE DoFindBracket
  <2>1. pc' = "bracket"
    BY <1>7 DEF DoFindBracket
  <2> QED BY <1>7, <2>1, BracketingFrom DEF Bracketed
<1>8. CASE BracketStep
  BY <1>8, BracketNext
<1>9. CASE BracketLine
  <2>1. pc' = "bracket"
    BY <1>9 DEF BracketLine
  <2> QED BY <1>9, <2>1, BracketingLine DEF Bracketed
<1>10. CASE NoBracket
  <2>1. pc' = "main"
    BY <1>10 DEF NoBracket
  <2> QED BY <1>10, <2>1, BracketedNone DEF Bracketing
<1>11. CASE \E all \in BOOLEAN : ReplaceOne(all)
  <2>1. pc' = "look"
    BY <1>11 DEF ReplaceOne
  <2> QED BY <2>1 DEF Bracketing, Bracketed
<1>12. CASE Undo \/ Redo
  <2>1. pc' = "main" /\ outcome' = "none"
    BY <1>12 DEF Undo, Redo
  <2> QED BY <2>1 DEF Bracketing, Bracketed
<1>13. CASE UNCHANGED vars
  <2>1. UNCHANGED <<pc, text, cur, from, saved, job, count, at, start, outcome>>
    BY <1>13 DEF vars, buffer, finder, loop
  <2>2. BracketWay(saved.cur)' = BracketWay(saved.cur)
    BY <2>1 DEF BracketWay
  <2> QED BY <2>1, <2>2 DEF Bracketing, Bracketed
<1>14. Other => \/ Asks \/ Ends \/ Looks \/ DoFindBracket \/ BracketStep \/ BracketLine \/ NoBracket
                \/ \E n \in Needles : DoSearch(n) \/ SpellWord(n)
                \/ \E a \in Replacements : DoReplace(a) \/ Correct(a)
                \/ \E line \in -1..2, column \in 1..2, relative \in BOOLEAN :
                     GotoLine(line, column, relative)
  BY DEF Other, BracketSearch
<1> QED BY <1>1, <1>2, <1>3, <1>4, <1>5, <1>6, <1>7, <1>8, <1>9, <1>10, <1>11, <1>12, <1>13, <1>14,
           NextCases

\* A search finds the first match in its direction from the cursor, around the text, and none
\* only if there is none; and a bracket is matched by the first before, or after, which the
\* brackets from it on are even.  So it is for any text, and whatever has been replaced and
\* undone, with the hypotheses of TypesCorrect: the search starts from where the cursor is.
THEOREM FindsRightAlways ==
  ASSUME "empty" \in Avoided, "spell" \notin Jobs
  PROVE  Spec => []FindsRight
<1> DEFINE Inv == Positioned /\ Searching /\ Searched /\ Bracketing /\ Bracketed
<1>1. Init => Inv
  <2>1. Init => Positioned
    BY TypedInit, StackedInit, FitsInit DEF Positioned
  <2>2. Init => Searching /\ Searched /\ Bracketing /\ Bracketed
    BY DEF Init, Searching, Searched, Bracketing, Bracketed
  <2> QED BY <2>1, <2>2
<1>2. Inv /\ [Next]_vars => Inv'
  <2> SUFFICES ASSUME Inv, [Next]_vars PROVE Inv'
    OBVIOUS
  <2>1. Positioned'
    BY PositionedStep
  <2>2. pc = "bracket" => job = "bracket"
    BY DEF Bracketing
  <2>3. Searching' /\ Searched'
    BY <2>2, SearchStep
  <2>4. Bracketing' /\ Bracketed'
    BY BracketSteps
  <2> QED BY <2>1, <2>3, <2>4
<1>3. Inv => FindsRight
  BY SearchedIsFindsNext, BracketedIsBracketMatches DEF FindsRight
<1> QED BY <1>1, <1>2, <1>3, PTL DEF Spec
=================================================================================
