----------------------------- MODULE EditorProofs -----------------------------
(***************************************************************************)
(* Proofs about editing and undoing.                                       *)
(*                                                                         *)
(* Texts with Attach are a monoid: attaching is associative, and the text  *)
(* of one empty line is its unit.  A position takes a text apart into two  *)
(* that are attached, and every edit, cut and paste puts a text between    *)
(* two others or takes it out.  An undo item says which texts it stands    *)
(* between in these terms, and what undo and redo come back to is shown    *)
(* with nothing else.  That the cursor and the mark are in the text is     *)
(* shown line by line.                                                     *)
(***************************************************************************)
EXTENDS EditorHistory, SequenceTheorems, FiniteSetTheorems, WellFoundedInduction, TLAPS

Char  == Chars \cup Blanks
Lines == Seq(Line)

-----------------------------------------------------------------------------
(* Induction.                                                              *)

\* A set that holds 0, and with every natural number the next one, holds all of them.
LEMMA NatSet ==
  ASSUME NEW S, 0 \in S, \A n \in Nat : n \in S => n + 1 \in S
  PROVE  \A n \in Nat : n \in S
<1> DEFINE T == {n \in Nat : n \notin S}
           R == {p \in Nat \X Nat : p[1] < p[2]}
<1>1. IsWellFoundedOn(R, Nat)
  BY NatLessThanWellFounded DEF OpToRel
<1>2. ASSUME T # {} PROVE \E a \in T : \A b \in T : <<b, a>> \notin R
  <2>1. T \subseteq Nat
    OBVIOUS
  <2> HIDE DEF R, T
  <2> QED BY <1>1, <1>2, <2>1, WFMin
<1>3. ASSUME T # {} PROVE FALSE
  <2>1. PICK a \in T : \A b \in T : <<b, a>> \notin R
    BY <1>2, <1>3
  <2>2. a \in Nat \ {0} /\ a \notin S
    OBVIOUS
  <2>3. a - 1 \in Nat /\ a - 1 + 1 = a /\ <<a - 1, a>> \in R
    BY <2>2
  <2>4. a - 1 \notin T
    BY <2>1, <2>3
  <2>5. a - 1 \in S
    BY <2>3, <2>4
  <2> QED BY <2>2, <2>3, <2>5
<1> QED BY <1>3

-----------------------------------------------------------------------------
(* Sequences.                                                              *)

LEMMA LenNat ==
  ASSUME NEW S, NEW s \in Seq(S)
  PROVE  Len(s) \in Nat /\ (s # <<>> => Len(s) \in Nat \ {0})
BY EmptySeq, LenProperties

LEMMA One ==
  ASSUME NEW S, NEW e \in S
  PROVE  <<e>> \in Seq(S) /\ Len(<<e>>) = 1 /\ <<e>>[1] = e /\ <<e>> # <<>>
OBVIOUS

\* A sequence is its last element appended to the others, or empty.
LEMMA LastApart ==
  ASSUME NEW S, NEW s \in Seq(S), s # <<>>
  PROVE  \E r \in Seq(S), e \in S : s = Append(r, e) /\ e = s[Len(s)] /\ Len(s) = Len(r) + 1
<1>1. PICK r \in Seq(S), e \in S : s = Append(r, e)
  BY SequenceEmptyOrAppend
<1>2. Len(s) = Len(r) + 1 /\ s[Len(r) + 1] = e
  BY <1>1, AppendProperties
<1> QED BY <1>1, <1>2

\* Appending to the second of two sequences is appending to both.
LEMMA ConcatAppend ==
  ASSUME NEW S, NEW s \in Seq(S), NEW t \in Seq(S), NEW e \in S
  PROVE  s \o Append(t, e) = Append(s \o t, e)
<1>1. Append(t, e) = t \o <<e>> /\ <<e>> \in Seq(S)
  BY AppendIsConcat, One
<1>2. s \o t \in Seq(S)
  BY ConcatProperties
<1>3. Append(s \o t, e) = (s \o t) \o <<e>>
  BY <1>2, AppendIsConcat
<1> QED BY <1>1, <1>3, ConcatAssociative

-----------------------------------------------------------------------------
(* The size of a text.                                                     *)

SizeRec(s, f) ==
    f = [n \in 0..Len(s) |-> IF n = 0 THEN -1 ELSE f[n - 1] + Len(s[n]) + 1]

\* What SizeRec says of the numbers of f.
LEMMA SizeSteps ==
  ASSUME NEW s \in Lines, NEW f, SizeRec(s, f)
  PROVE  /\ DOMAIN f = 0..Len(s) /\ f[0] = -1
         /\ \A n \in 1..Len(s) : f[n] = f[n - 1] + Len(s[n]) + 1
<1> DEFINE g == [n \in 0..Len(s) |-> IF n = 0 THEN -1 ELSE f[n - 1] + Len(s[n]) + 1]
<1>1. Len(s) \in Nat
  BY LenNat DEF Lines
<1>2. DOMAIN g = 0..Len(s) /\ g[0] = -1
  BY <1>1
<1>3. \A n \in 1..Len(s) : g[n] = f[n - 1] + Len(s[n]) + 1
  BY <1>1
<1>4. f = g
  BY DEF SizeRec
<1> HIDE DEF g
<1> QED BY <1>2, <1>3, <1>4

\* A function that begins with -1 and goes on with the lengths is SizeRec.
LEMMA SizeFrom ==
  ASSUME NEW s \in Lines, NEW f, f \in [0..Len(s) -> Int], f[0] = -1,
         \A n \in 1..Len(s) : f[n] = f[n - 1] + Len(s[n]) + 1
  PROVE  SizeRec(s, f)
<1> DEFINE g == [n \in 0..Len(s) |-> IF n = 0 THEN -1 ELSE f[n - 1] + Len(s[n]) + 1]
<1>1. Len(s) \in Nat
  BY LenNat DEF Lines
<1>2. ASSUME NEW n \in 0..Len(s) PROVE f[n] = g[n]
  <2>1. CASE n = 0
    BY <1>1, <2>1
  <2>2. CASE n # 0
    <3>1. n \in 1..Len(s)
      BY <1>1, <2>2
    <3> QED BY <3>1, <2>2
  <2> QED BY <2>1, <2>2
<1>3. f = g
  <2>1. g = [n \in 0..Len(s) |-> g[n]] /\ f = [n \in 0..Len(s) |-> f[n]]
    OBVIOUS
  <2> HIDE DEF g
  <2> QED BY <2>1, <1>2
<1> QED BY <1>3 DEF SizeRec

\* There is such a function of integers,
LEMMA SizeExists ==
  ASSUME NEW s \in Lines
  PROVE  \E f \in [0..Len(s) -> Int] : SizeRec(s, f)
<1> DEFINE Has(n) == \A r \in Lines : Len(r) = n => \E f \in [0..Len(r) -> Int] : SizeRec(r, f)
           S == {n \in Nat : Has(n)}
<1>1. 0 \in S
  <2> SUFFICES ASSUME NEW r \in Lines, Len(r) = 0
               PROVE  \E f \in [0..Len(r) -> Int] : SizeRec(r, f)
    OBVIOUS
  <2> DEFINE f == [n \in 0..Len(r) |-> -1]
  <2>1. f \in [0..Len(r) -> Int] /\ f[0] = -1
    OBVIOUS
  <2>2. \A n \in 1..Len(r) : f[n] = f[n - 1] + Len(r[n]) + 1
    OBVIOUS
  <2> HIDE DEF f
  <2> QED BY <2>1, <2>2, SizeFrom
<1>2. ASSUME NEW n \in Nat, n \in S PROVE n + 1 \in S
  <2> SUFFICES ASSUME NEW r \in Lines, Len(r) = n + 1
               PROVE  \E f \in [0..Len(r) -> Int] : SizeRec(r, f)
    OBVIOUS
  <2>1. r # <<>>
    BY EmptySeq
  <2>2. PICK q \in Lines, l \in Line : r = Append(q, l) /\ Len(r) = Len(q) + 1
    BY <2>1, LastApart DEF Lines
  <2>3. Len(q) = n /\ Len(q) \in Nat /\ Len(l) \in Nat
    BY <2>2, LenNat DEF Lines, Line
  <2>4. PICK g \in [0..n -> Int] : SizeRec(q, g)
    BY <1>2, <2>3
  <2>5. /\ g[0] = -1
        /\ \A m \in 1..n : g[m] = g[m - 1] + Len(q[m]) + 1
    BY <2>3, <2>4, SizeSteps
  <2>6. /\ \A m \in 1..n : r[m] = q[m]
        /\ r[n + 1] = l
    BY <2>2, <2>3, AppendProperties DEF Lines
  <2> DEFINE f == [m \in 0..n + 1 |-> IF m = n + 1 THEN g[n] + Len(l) + 1 ELSE g[m]]
  <2>7. f \in [0..Len(r) -> Int] /\ f[0] = -1
    BY <2>3, <2>5
  <2>8. ASSUME NEW m \in 1..Len(r) PROVE f[m] = f[m - 1] + Len(r[m]) + 1
    <3>1. CASE m = n + 1
      BY <3>1, <2>6
    <3>2. CASE m # n + 1
      <4>1. m \in 1..n /\ m \in 0..n + 1 /\ m - 1 \in 0..n + 1 /\ m - 1 # n + 1
        BY <3>2
      <4>2. f[m] = g[m] /\ f[m - 1] = g[m - 1]
        BY <4>1, <3>2
      <4> QED BY <4>1, <4>2, <2>5, <2>6
    <3> QED BY <3>1, <3>2
  <2> HIDE DEF f
  <2> QED BY <2>7, <2>8, SizeFrom
<1>3. \A n \in Nat : n \in S
  <2> HIDE DEF S
  <2> QED BY <1>1, <1>2, NatSet
<1>4. Len(s) \in Nat
  BY LenNat DEF Lines
<1> QED BY <1>3, <1>4

\* and of two such functions, of a sequence and of one that goes on, the one is
\* the beginning of the other.
LEMMA SizeAgree ==
  ASSUME NEW s \in Lines, NEW r \in Lines, NEW f, NEW g, SizeRec(s, f), SizeRec(r, g),
         Len(s) <= Len(r), \A n \in 1..Len(s) : r[n] = s[n]
  PROVE  f[Len(s)] = g[Len(s)]
<1> DEFINE S == {n \in Nat : n <= Len(s) => f[n] = g[n]}
<1>1. Len(s) \in Nat /\ Len(r) \in Nat
  BY LenNat DEF Lines
<1>2. 0 \in S
  BY SizeSteps
<1>3. ASSUME NEW n \in Nat, n \in S PROVE n + 1 \in S
  <2> SUFFICES ASSUME n + 1 <= Len(s) PROVE f[n + 1] = g[n + 1]
    OBVIOUS
  <2>1. f[n] = g[n] /\ n + 1 \in 1..Len(s) /\ n + 1 \in 1..Len(r) /\ n + 1 - 1 = n
    BY <1>1, <1>3
  <2>2. f[n + 1] = f[n] + Len(s[n + 1]) + 1
    BY <2>1, SizeSteps
  <2>3. g[n + 1] = g[n] + Len(r[n + 1]) + 1
    BY <2>1, SizeSteps
  <2> QED BY <2>1, <2>2, <2>3
<1>4. \A n \in Nat : n \in S
  <2> HIDE DEF S
  <2> QED BY <1>2, <1>3, NatSet
<1> QED BY <1>1, <1>4

LEMMA SizeIs ==
  ASSUME NEW s \in Lines
  PROVE  \E f \in [0..Len(s) -> Int] : SizeRec(s, f) /\ TotSize(s) = f[Len(s)]
<1> DEFINE size == CHOOSE f : SizeRec(s, f)
<1>1. PICK g \in [0..Len(s) -> Int] : SizeRec(s, g)
  BY SizeExists
<1>2. SizeRec(s, size)
  BY <1>1
<1>3. TotSize(s) = size[Len(s)]
  BY DEF TotSize, SizeRec
<1> HIDE DEF size
<1>4. Len(s) \in Nat
  BY LenNat DEF Lines
<1>5. TotSize(s) = g[Len(s)]
  BY <1>1, <1>2, <1>3, <1>4, SizeAgree
<1> QED BY <1>1, <1>5

LEMMA SizeInt ==
  ASSUME NEW s \in Lines
  PROVE  TotSize(s) \in Int
<1>1. Len(s) \in Nat
  BY LenNat DEF Lines
<1> QED BY <1>1, SizeIs

LEMMA SizeEmpty == TotSize(<<>>) = -1
<1>1. <<>> \in Lines /\ Len(<<>>) = 0
  BY EmptySeq DEF Lines
<1>2. PICK f : SizeRec(<<>>, f) /\ TotSize(<<>>) = f[0]
  BY <1>1, SizeIs
<1> QED BY <1>1, <1>2, SizeSteps

LEMMA SizeAppend ==
  ASSUME NEW s \in Lines, NEW l \in Line
  PROVE  TotSize(Append(s, l)) = TotSize(s) + Len(l) + 1
<1> DEFINE r == Append(s, l)
<1>1. r \in Lines /\ Len(r) = Len(s) + 1 /\ r[Len(s) + 1] = l
      /\ \A n \in 1..Len(s) : r[n] = s[n]
  BY AppendProperties DEF Lines
<1> HIDE DEF r
<1>2. Len(s) \in Nat
  BY LenNat DEF Lines
<1>3. PICK f : SizeRec(s, f) /\ TotSize(s) = f[Len(s)]
  BY SizeIs
<1>4. PICK g : SizeRec(r, g) /\ TotSize(r) = g[Len(r)]
  BY <1>1, SizeIs
<1>5. f[Len(s)] = g[Len(s)]
  <2>1. Len(s) <= Len(r)
    BY <1>1, <1>2
  <2> QED BY <2>1, <1>1, <1>3, <1>4, SizeAgree
<1>6. Len(r) \in 1..Len(r) /\ Len(r) - 1 = Len(s)
  BY <1>1, <1>2
<1>7. g[Len(r)] = g[Len(r) - 1] + Len(r[Len(r)]) + 1
  BY <1>1, <1>4, <1>6, SizeSteps
<1>8. TotSize(r) = TotSize(s) + Len(l) + 1
  BY <1>1, <1>3, <1>4, <1>5, <1>6, <1>7
<1> QED BY <1>8 DEF r

LEMMA SizeConcat ==
  ASSUME NEW s \in Lines, NEW t \in Lines
  PROVE  TotSize(s \o t) = TotSize(s) + TotSize(t) + 1
<1> DEFINE S == {n \in Nat : \A r \in Lines : Len(r) = n =>
                               TotSize(s \o r) = TotSize(s) + TotSize(r) + 1}
<1>1. 0 \in S
  <2> SUFFICES ASSUME NEW r \in Lines, Len(r) = 0
               PROVE  TotSize(s \o r) = TotSize(s) + TotSize(r) + 1
    OBVIOUS
  <2>1. r = <<>> /\ s \o r = s
    BY EmptySeq, ConcatEmptySeq DEF Lines
  <2> QED BY <2>1, SizeEmpty, SizeInt
<1>2. ASSUME NEW n \in Nat, n \in S PROVE n + 1 \in S
  <2> SUFFICES ASSUME NEW r \in Lines, Len(r) = n + 1
               PROVE  TotSize(s \o r) = TotSize(s) + TotSize(r) + 1
    OBVIOUS
  <2>1. r # <<>>
    BY EmptySeq
  <2>2. PICK q \in Lines, l \in Line : r = Append(q, l) /\ Len(r) = Len(q) + 1
    BY <2>1, LastApart DEF Lines
  <2>3. Len(q) = n /\ Len(l) \in Nat
    BY <2>2, LenNat DEF Lines, Line
  <2>4. TotSize(s \o q) = TotSize(s) + TotSize(q) + 1
    BY <1>2, <2>3
  <2>5. s \o r = Append(s \o q, l) /\ s \o q \in Lines
    BY <2>2, ConcatAppend, ConcatProperties DEF Lines
  <2>6. TotSize(s \o r) = TotSize(s \o q) + Len(l) + 1 /\ TotSize(r) = TotSize(q) + Len(l) + 1
    BY <2>2, <2>5, SizeAppend
  <2> QED BY <2>3, <2>4, <2>6, SizeInt
<1>3. \A n \in Nat : n \in S
  <2> HIDE DEF S
  <2> QED BY <1>1, <1>2, NatSet
<1>4. Len(t) \in Nat
  BY LenNat DEF Lines
<1> QED BY <1>3, <1>4

LEMMA SizeOne ==
  ASSUME NEW l \in Line
  PROVE  TotSize(<<l>>) = Len(l)
<1>1. <<>> \in Lines /\ <<l>> = Append(<<>>, l)
  BY EmptySeq DEF Lines
<1>2. TotSize(<<l>>) = -1 + Len(l) + 1
  BY <1>1, SizeAppend, SizeEmpty
<1> QED BY <1>2, LenNat DEF Line

-----------------------------------------------------------------------------
(* Attaching texts.                                                        *)

x \oplus y == Attach(x, y)
Unit       == << <<>> >>
Newline    == << <<>>, <<>> >>

\* Where a text ends: its last line, and the length of that.
End(t) == <<Len(t), Len(t[Len(t)])>>

LEMMA ConcatIn ==
  \A s, t \in Lines : s \o t \in Lines /\ Len(s \o t) = Len(s) + Len(t)
BY ConcatProperties DEF Lines

LEMMA OneIn ==
  ASSUME NEW l \in Line
  PROVE  <<l>> \in Lines /\ <<l>> \in Texts /\ Len(<<l>>) = 1 /\ <<l>>[1] = l
<1> QED BY One DEF Lines, Texts

LEMMA Assoc == \A s, t, u \in Lines : (s \o t) \o u = s \o (t \o u)
BY ConcatAssociative DEF Lines

LEMMA LineConcat ==
  \A l, m \in Line : l \o m \in Line /\ Len(l \o m) = Len(l) + Len(m) /\ Len(l) \in Nat /\ Len(m) \in Nat
BY ConcatProperties, LenNat DEF Line

\* Beginnings and ends of a concatenation.
LEMMA ConcatParts ==
  ASSUME NEW S, NEW A \in Seq(S), NEW D \in Seq(S)
  PROVE  /\ SubSeq(A \o D, 1, Len(A)) = A
         /\ SubSeq(A \o D, Len(A) + 1, Len(A \o D)) = D
<1>1. /\ A \o D \in Seq(S) /\ Len(A \o D) = Len(A) + Len(D) /\ Len(A) \in Nat /\ Len(D) \in Nat
      /\ \A i \in 1..Len(A) + Len(D) : (A \o D)[i] = IF i <= Len(A) THEN A[i] ELSE D[i - Len(A)]
  BY ConcatProperties, LenNat
<1>2. \A i \in 1..Len(A) + Len(D) : (A \o D)[i] \in S
  BY <1>1, ElementOfSeq
<1>3. SubSeq(A \o D, 1, Len(A)) = A
  <2> DEFINE u == SubSeq(A \o D, 1, Len(A))
  <2>1. \A i \in 1..Len(A) : (A \o D)[i] \in S
    BY <1>1, <1>2
  <2>2. u \in Seq(S) /\ Len(u) = Len(A) /\ \A i \in 1..Len(A) - 1 + 1 : u[i] = (A \o D)[1 + i - 1]
    BY <1>1, <2>1, SubSeqProperties
  <2>3. \A i \in 1..Len(A) : u[i] = A[i]
    BY <1>1, <2>2
  <2> HIDE DEF u
  <2>4. u = A
    BY <2>2, <2>3, SeqEqual
  <2> QED BY <2>4 DEF u
<1>4. SubSeq(A \o D, Len(A) + 1, Len(A \o D)) = D
  <2> DEFINE m == Len(A) + 1
             n == Len(A) + Len(D)
             u == SubSeq(A \o D, m, n)
  <2>1. \A i \in m..n : (A \o D)[i] \in S
    BY <1>1, <1>2
  <2>2. u \in Seq(S) /\ Len(u) = (IF m <= n THEN n - m + 1 ELSE 0)
        /\ \A i \in 1..n - m + 1 : u[i] = (A \o D)[m + i - 1]
    BY <1>1, <2>1, SubSeqProperties
  <2>3. Len(u) = Len(D)
    BY <1>1, <2>2
  <2>4. \A i \in 1..Len(D) : u[i] = D[i]
    BY <1>1, <2>2
  <2>5. u = SubSeq(A \o D, Len(A) + 1, Len(A \o D))
    BY <1>1
  <2> HIDE DEF u
  <2>6. u = D
    BY <2>2, <2>3, <2>4, SeqEqual
  <2> QED BY <2>5, <2>6
<1> QED BY <1>3, <1>4

\* A text has a last line, and a first one.
LEMMA LastLine ==
  ASSUME NEW t \in Texts
  PROVE  \E A \in Lines, a \in Line : t = A \o <<a>>
<1>1. t \in Seq(Line) /\ t # <<>>
  BY DEF Texts
<1>2. PICK r \in Seq(Line), e \in Line : t = Append(r, e)
  BY <1>1, LastApart
<1>3. t = r \o <<e>>
  BY <1>2, AppendIsConcat
<1> QED BY <1>3 DEF Lines

LEMMA FirstLine ==
  ASSUME NEW t \in Texts
  PROVE  \E b \in Line, C \in Lines : t = <<b>> \o C
<1>1. t \in Seq(Line) /\ t # <<>>
  BY DEF Texts
<1>2. Len(t) \in Nat \ {0}
  BY <1>1, LenNat
<1>3. t[1] \in Line /\ Tail(t) \in Lines
  BY <1>1, <1>2, HeadTailProperties DEF Lines
<1>4. t = <<t[1]>> \o Tail(t)
  <2>1. <<t[1]>> \in Seq(Line) /\ Tail(t) \in Seq(Line) /\ Len(Tail(t)) = Len(t) - 1
        /\ \A i \in 1..Len(Tail(t)) : Tail(t)[i] = t[i + 1]
    BY <1>1, <1>3, HeadTailProperties, One DEF Lines
  <2>2. /\ <<t[1]>> \o Tail(t) \in Seq(Line) /\ Len(<<t[1]>> \o Tail(t)) = Len(t)
        /\ \A i \in 1..Len(t) : (<<t[1]>> \o Tail(t))[i] = t[i]
    <3> DEFINE u == <<t[1]>> \o Tail(t)
    <3>1. u \in Seq(Line) /\ Len(u) = 1 + (Len(t) - 1)
      BY <2>1, ConcatProperties
    <3>2. \A i \in 1..1 + (Len(t) - 1) : u[i] = IF i <= 1 THEN <<t[1]>>[i] ELSE Tail(t)[i - 1]
      BY <2>1, ConcatProperties
    <3>3. ASSUME NEW i \in 1..Len(t) PROVE u[i] = t[i]
      <4>1. CASE i = 1
        BY <1>2, <3>2, <4>1
      <4>2. CASE i # 1
        <5>1. i \in 1..1 + (Len(t) - 1) /\ ~(i <= 1) /\ i - 1 \in 1..Len(Tail(t)) /\ i - 1 + 1 = i
          BY <1>2, <2>1, <4>2
        <5> HIDE DEF u
        <5> QED BY <5>1, <2>1, <3>2
      <4> QED BY <4>1, <4>2
    <3> QED BY <1>2, <3>1, <3>3
  <2> QED BY <1>1, <2>2, SeqEqual
<1> QED BY <1>3, <1>4

\* Attaching joins the last line of the one to the first of the other.
LEMMA Attached ==
  \A A, C \in Lines, a, b \in Line :
     (A \o <<a>>) \oplus (<<b>> \o C) = A \o (<<a \o b>> \o C)
<1> TAKE A, C \in Lines, a, b \in Line
<1> DEFINE B == A \o <<a>>
           D == <<b>> \o C
<1>1. <<a>> \in Lines /\ Len(<<a>>) = 1 /\ <<b>> \in Lines /\ Len(<<b>>) = 1
      /\ <<a>>[1] = a /\ <<b>>[1] = b
  BY One DEF Lines
<1>2. /\ Len(A) \in Nat /\ Len(C) \in Nat
  BY LenNat DEF Lines
<1>3. /\ B \in Lines /\ Len(B) = Len(A) + 1 /\ B[Len(A) + 1] = a
      /\ SubSeq(B, 1, Len(A)) = A
  <2>1. /\ B \in Lines /\ Len(B) = Len(A) + 1
        /\ \A i \in 1..Len(A) + 1 : B[i] = IF i <= Len(A) THEN A[i] ELSE <<a>>[i - Len(A)]
    BY <1>1, ConcatProperties DEF Lines
  <2>2. SubSeq(B, 1, Len(A)) = A
    BY <1>1, ConcatParts DEF Lines
  <2>3. B[Len(A) + 1] = <<a>>[Len(A) + 1 - Len(A)]
    BY <1>2, <2>1
  <2>4. Len(A) + 1 - Len(A) = 1
    BY <1>2
  <2> QED BY <1>1, <2>1, <2>2, <2>3, <2>4
<1>4. /\ D \in Lines /\ D[1] = b /\ SubSeq(D, 2, Len(D)) = C
  BY <1>1, ConcatProperties, ConcatParts, <1>2 DEF Lines
<1> HIDE DEF B, D
<1>5. Attach(B, D) = A \o <<a \o b>> \o C
  <2>1. Len(B) - 1 = Len(A) /\ B[Len(B)] = a
    BY <1>2, <1>3
  <2> QED BY <1>3, <1>4, <2>1 DEF Attach
<1>6. <<a \o b>> \in Lines
  BY LineConcat, OneIn
<1>7. (A \o <<a \o b>>) \o C = A \o (<<a \o b>> \o C)
  BY <1>6, Assoc
<1> QED BY <1>5, <1>7 DEF B, D, \oplus

Att(A, a, b, C) == (A \o <<a>>) \oplus (<<b>> \o C) = A \o (<<a \o b>> \o C)

LEMMA Attaching == \A A, C \in Lines, a, b \in Line : Att(A, a, b, C)
BY Attached DEF Att

\* The last element of a sequence with one line behind it.
LEMMA EndIs ==
  \A A \in Lines, a \in Line :
     /\ A \o <<a>> \in Texts /\ Len(A \o <<a>>) = Len(A) + 1 /\ (A \o <<a>>)[Len(A) + 1] = a
     /\ End(A \o <<a>>) = <<Len(A) + 1, Len(a)>>
<1> TAKE A \in Lines, a \in Line
<1>1. <<a>> \in Lines /\ Len(<<a>>) = 1 /\ <<a>>[1] = a /\ Len(A) \in Nat
  BY One, LenNat DEF Lines
<1> DEFINE t == A \o <<a>>
<1>2. /\ t \in Lines /\ Len(t) = Len(A) + 1
      /\ \A i \in 1..Len(A) + 1 : t[i] = IF i <= Len(A) THEN A[i] ELSE <<a>>[i - Len(A)]
  BY <1>1, ConcatProperties DEF Lines
<1> HIDE DEF t
<1>3. Len(A) + 1 \in 1..Len(A) + 1 /\ ~(Len(A) + 1 <= Len(A)) /\ Len(A) + 1 - Len(A) = 1
  BY <1>1
<1>4. t[Len(A) + 1] = a
  BY <1>1, <1>2, <1>3
<1>5. t \in Texts
  BY <1>1, <1>2, EmptySeq DEF Texts, Lines
<1> QED BY <1>2, <1>4, <1>5 DEF t, End

LEMMA StartIs ==
  \A b \in Line, C \in Lines :
     /\ <<b>> \o C \in Texts /\ Len(<<b>> \o C) = 1 + Len(C) /\ (<<b>> \o C)[1] = b
     /\ \A i \in 1..Len(C) : (<<b>> \o C)[1 + i] = C[i]
<1> TAKE b \in Line, C \in Lines
<1>1. <<b>> \in Lines /\ Len(<<b>>) = 1 /\ <<b>>[1] = b /\ Len(C) \in Nat
  BY One, LenNat DEF Lines
<1> DEFINE t == <<b>> \o C
<1>2. /\ t \in Lines /\ Len(t) = 1 + Len(C)
      /\ \A i \in 1..1 + Len(C) : t[i] = IF i <= 1 THEN <<b>>[i] ELSE C[i - 1]
  BY <1>1, ConcatProperties DEF Lines
<1> HIDE DEF t
<1>3. t[1] = b
  BY <1>1, <1>2
<1>4. t \in Texts
  BY <1>1, <1>2, EmptySeq DEF Texts, Lines
<1>5. ASSUME NEW i \in 1..Len(C) PROVE t[1 + i] = C[i]
  BY <1>1, <1>2
<1> QED BY <1>2, <1>3, <1>4, <1>5 DEF t

-----------------------------------------------------------------------------

LEMMA AttachIn == \A s, t \in Texts : s \oplus t \in Texts
<1> TAKE s, t \in Texts
<1>1. PICK A \in Lines, a \in Line : s = A \o <<a>>
  BY LastLine
<1>2. PICK b \in Line, C \in Lines : t = <<b>> \o C
  BY FirstLine
<1>3. s \oplus t = A \o (<<a \o b>> \o C)
  BY <1>1, <1>2, Attached
<1>4. a \o b \in Line
  BY LineConcat
<1>5. <<a \o b>> \o C \in Texts
  BY <1>4, StartIs
<1> DEFINE D == <<a \o b>> \o C
<1>6. D \in Lines /\ Len(D) \in Nat \ {0} /\ Len(A) \in Nat
  BY <1>5, LenNat DEF Texts, Lines
<1> HIDE DEF D
<1>7. A \o D \in Lines /\ Len(A \o D) = Len(A) + Len(D)
  BY <1>6, ConcatIn
<1>8. A \o D # <<>>
  BY <1>6, <1>7, EmptySeq
<1> QED BY <1>3, <1>7, <1>8 DEF D, Texts, Lines

LEMMA AttachAssoc == \A s, t, u \in Texts : (s \oplus t) \oplus u = s \oplus (t \oplus u)
<1> TAKE s, t, u \in Texts
<1>1. PICK A \in Lines, a \in Line : s = A \o <<a>>
  BY LastLine
<1>2. PICK c \in Line, C \in Lines : u = <<c>> \o C
  BY FirstLine
<1>3. PICK h \in Line, M \in Lines : t = <<h>> \o M
  BY FirstLine
<1>4. a \o h \in Line /\ h \o c \in Line /\ <<>> \in Lines
  BY LineConcat, EmptySeq DEF Lines
<1>5. s \oplus t = A \o (<<a \o h>> \o M)
  <2>1. (A \o <<a>>) \oplus (<<h>> \o M) = A \o (<<a \o h>> \o M)
    <3>1. Att(A, a, h, M)
      BY Attaching
    <3> QED BY <3>1 DEF Att
  <2> QED BY <1>1, <1>3, <2>1
<1>6. CASE M = <<>>
  <2>1. t = <<>> \o <<h>> /\ t = <<h>> /\ <<a \o h>> \o M = <<a \o h>>
    BY <1>3, <1>4, <1>6, OneIn, ConcatEmptySeq DEF Lines
  <2>2. s \oplus t = A \o <<a \o h>>
    BY <1>5, <2>1
  <2>3. (s \oplus t) \oplus u = A \o (<<(a \o h) \o c>> \o C)
    <3>1. (A \o <<a \o h>>) \oplus (<<c>> \o C) = A \o (<<(a \o h) \o c>> \o C)
      <4>1. Att(A, a \o h, c, C)
        BY <1>4, Attaching
      <4> QED BY <4>1 DEF Att
    <3> QED BY <1>2, <2>2, <3>1
  <2>4. t \oplus u = <<>> \o (<<h \o c>> \o C)
    <3>1. (<<>> \o <<h>>) \oplus (<<c>> \o C) = <<>> \o (<<h \o c>> \o C)
      <4>1. Att(<<>>, h, c, C)
        BY <1>4, Attaching
      <4> QED BY <4>1 DEF Att
    <3> QED BY <1>2, <2>1, <3>1
  <2>5. t \oplus u = <<h \o c>> \o C
    <3>1. <<h \o c>> \o C \in Lines
      BY <1>4, StartIs DEF Texts, Lines
    <3> QED BY <2>4, <3>1, ConcatEmptySeq DEF Lines
  <2>6. s \oplus (t \oplus u) = A \o (<<a \o (h \o c)>> \o C)
    <3>1. (A \o <<a>>) \oplus (<<h \o c>> \o C) = A \o (<<a \o (h \o c)>> \o C)
      <4>1. Att(A, a, h \o c, C)
        BY <1>4, Attaching
      <4> QED BY <4>1 DEF Att
    <3> QED BY <1>1, <2>5, <3>1
  <2>7. (a \o h) \o c = a \o (h \o c)
    BY ConcatAssociative DEF Line
  <2> QED BY <2>3, <2>6, <2>7
<1>7. CASE M # <<>>
  <2>1. M \in Texts
    BY <1>7 DEF Texts, Lines
  <2>2. PICK N \in Lines, l \in Line : M = N \o <<l>>
    BY <2>1, LastLine
  <2>3. l \o c \in Line /\ <<l>> \in Lines /\ <<h>> \in Lines /\ <<a \o h>> \in Lines
    BY <1>4, LineConcat, OneIn
  <2>4. t = (<<h>> \o N) \o <<l>>
    BY <1>3, <2>2, <2>3, Assoc
  <2>5. <<h>> \o N \in Lines /\ <<a \o h>> \o N \in Lines
    BY <2>3, ConcatIn
  <2>6. s \oplus t = (A \o (<<a \o h>> \o N)) \o <<l>>
    <3>1. <<a \o h>> \o M = (<<a \o h>> \o N) \o <<l>>
      BY <2>2, <2>3, Assoc
    <3>2. A \o ((<<a \o h>> \o N) \o <<l>>) = (A \o (<<a \o h>> \o N)) \o <<l>>
      BY <2>3, <2>5, Assoc
    <3> QED BY <1>5, <3>1, <3>2
  <2>7. A \o (<<a \o h>> \o N) \in Lines
    BY <2>5, ConcatIn
  <2> DEFINE X == <<l \o c>> \o C
  <2>8. X \in Lines
    BY <2>3, StartIs DEF Texts, Lines
  <2>9. (s \oplus t) \oplus u = (A \o (<<a \o h>> \o N)) \o X
    <3> DEFINE AA == A \o (<<a \o h>> \o N)
    <3>1. AA \in Lines
      BY <2>7
    <3> HIDE DEF AA
    <3>2. (AA \o <<l>>) \oplus (<<c>> \o C) = AA \o (<<l \o c>> \o C)
      <4>1. Att(AA, l, c, C)
        BY <3>1, Attaching
      <4> QED BY <4>1 DEF Att
    <3> QED BY <1>2, <2>6, <3>2 DEF AA, X
  <2>10. t \oplus u = (<<h>> \o N) \o X
    <3> DEFINE AA == <<h>> \o N
    <3>1. AA \in Lines
      BY <2>5
    <3> HIDE DEF AA
    <3>2. (AA \o <<l>>) \oplus (<<c>> \o C) = AA \o (<<l \o c>> \o C)
      <4>1. Att(AA, l, c, C)
        BY <3>1, Attaching
      <4> QED BY <4>1 DEF Att
    <3> QED BY <1>2, <2>4, <3>2 DEF AA, X
  <2> HIDE DEF X
  <2>11. t \oplus u = <<h>> \o (N \o X) /\ N \o X \in Lines
    BY <2>3, <2>8, <2>10, Assoc, ConcatIn
  <2>12. s \oplus (t \oplus u) = A \o (<<a \o h>> \o (N \o X))
    <3> DEFINE CC == N \o X
    <3>1. CC \in Lines
      BY <2>11
    <3> HIDE DEF CC
    <3>2. (A \o <<a>>) \oplus (<<h>> \o CC) = A \o (<<a \o h>> \o CC)
      <4>1. Att(A, a, h, CC)
        BY <3>1, Attaching
      <4> QED BY <4>1 DEF Att
    <3> QED BY <1>1, <2>11, <3>2 DEF CC
  <2>13. (A \o (<<a \o h>> \o N)) \o X = A \o ((<<a \o h>> \o N) \o X)
    BY <2>5, <2>8, Assoc
  <2>14. (<<a \o h>> \o N) \o X = <<a \o h>> \o (N \o X)
    BY <2>3, <2>8, Assoc
  <2> QED BY <2>9, <2>12, <2>13, <2>14
<1> QED BY <1>6, <1>7

LEMMA UnitIn == Unit \in Texts /\ Newline \in Texts /\ <<>> \in Line /\ <<>> \in Lines
<1>1. <<>> \in Line /\ <<>> \in Lines
  BY EmptySeq DEF Line, Lines
<1>2. Unit \in Texts
  BY <1>1, OneIn DEF Unit
<1>3. Newline = <<(<<>>)>> \o <<(<<>>)>>
  BY DEF Newline
<1>4. Newline \in Texts
  BY <1>1, <1>3, OneIn, StartIs
<1> QED BY <1>1, <1>2, <1>4

LEMMA UnitRight ==
  ASSUME NEW t \in Texts
  PROVE  t \oplus Unit = t
<1>1. PICK A \in Lines, a \in Line : t = A \o <<a>>
  BY LastLine
<1>2. Unit = <<(<<>>)>> \o <<>> /\ <<a>> \o <<>> = <<a>>
  BY UnitIn, OneIn, ConcatEmptySeq DEF Lines, Unit
<1>3. t \oplus Unit = A \o (<<a \o <<>> >> \o <<>>)
  BY <1>1, <1>2, UnitIn, Attached
<1>4. a \o <<>> = a
  BY ConcatEmptySeq DEF Line
<1> QED BY <1>1, <1>2, <1>3, <1>4

LEMMA UnitLeft ==
  ASSUME NEW t \in Texts
  PROVE  Unit \oplus t = t
<1>1. PICK b \in Line, C \in Lines : t = <<b>> \o C
  BY FirstLine
<1>2. Unit = <<>> \o <<(<<>>)>>
  BY UnitIn, OneIn, ConcatEmptySeq DEF Lines, Unit
<1>3. Unit \oplus t = <<>> \o (<< <<>> \o b>> \o C)
  BY <1>1, <1>2, UnitIn, Attached
<1>4. <<>> \o b = b
  BY ConcatEmptySeq DEF Line
<1>5. <<b>> \o C \in Seq(Line)
  BY <1>1 DEF Texts
<1> QED BY <1>1, <1>3, <1>4, <1>5, ConcatEmptySeq

LEMMA LineSides ==
  ASSUME NEW a \in Line, NEW b \in Line
  PROVE  Prefix(a \o b, Len(a)) = a /\ Suffix(a \o b, Len(a)) = b
<1>1. Len(a \o b) = Len(a) + Len(b) /\ Len(a) \in Nat /\ Len(b) \in Nat
  BY LineConcat
<1>2. SubSeq(a \o b, 1, Len(a)) = a /\ SubSeq(a \o b, Len(a) + 1, Len(a \o b)) = b
  BY ConcatParts DEF Line
<1>3. (IF Len(a) < Len(a \o b) THEN Len(a) ELSE Len(a \o b)) = Len(a)
  BY <1>1
<1> QED BY <1>2, <1>3 DEF Prefix, Suffix

\* Two texts attached are taken apart where the first one ends.
LEMMA Parted ==
  ASSUME NEW s \in Texts, NEW t \in Texts
  PROVE  TextBefore(s \oplus t, End(s)) = s /\ TextFrom(s \oplus t, End(s)) = t
         /\ End(s) \in PositionsOf(s \oplus t)
<1>1. PICK A \in Lines, a \in Line : s = A \o <<a>>
  BY LastLine
<1>2. PICK b \in Line, C \in Lines : t = <<b>> \o C
  BY FirstLine
<1> DEFINE l == a \o b
           u == s \oplus t
           D == <<l>> \o C
           B == A \o <<l>>
<1>3. l \in Line /\ Len(l) = Len(a) + Len(b) /\ Len(a) \in Nat /\ Len(b) \in Nat
  BY LineConcat
<1>4. u = A \o D
  BY <1>1, <1>2, Attached
<1>5. End(s) = <<Len(A) + 1, Len(a)>>
  BY <1>1, EndIs
<1>6. D \in Lines /\ Len(D) = 1 + Len(C) /\ D[1] = l /\ Len(A) \in Nat /\ Len(C) \in Nat
  BY <1>3, StartIs, LenNat DEF Texts, Lines
<1>7. B \in Lines /\ Len(B) = Len(A) + 1 /\ B[Len(A) + 1] = l
  BY <1>3, EndIs DEF Texts, Lines
<1>8. u = B \o C
  <2>1. <<l>> \in Lines
    BY <1>3, OneIn
  <2> QED BY <1>4, <2>1, Assoc
<1>9. Prefix(l, Len(a)) = a /\ Suffix(l, Len(a)) = b
  BY LineSides
<1> HIDE DEF l, u, D, B
<1>10. Len(u) = Len(A) + 1 + Len(C) /\ u[Len(A) + 1] = l /\ u \in Lines
  <2>1. /\ u \in Lines /\ Len(u) = Len(A) + Len(D)
        /\ \A i \in 1..Len(A) + Len(D) : u[i] = IF i <= Len(A) THEN A[i] ELSE D[i - Len(A)]
    <3>1. /\ A \o D \in Lines /\ Len(A \o D) = Len(A) + Len(D)
          /\ \A i \in 1..Len(A) + Len(D) : (A \o D)[i] = IF i <= Len(A) THEN A[i] ELSE D[i - Len(A)]
      BY <1>6, ConcatProperties DEF Lines
    <3> QED BY <1>4, <3>1
  <2>2. Len(A) + 1 \in 1..Len(A) + Len(D) /\ ~(Len(A) + 1 <= Len(A)) /\ Len(A) + 1 - Len(A) = 1
    BY <1>6
  <2> QED BY <1>6, <2>1, <2>2
<1>11. SubSeq(u, 1, Len(A)) = A
  BY <1>4, <1>6, ConcatParts DEF Lines
<1>12. SubSeq(u, Len(A) + 2, Len(u)) = C
  <2>1. SubSeq(u, Len(B) + 1, Len(u)) = C
    BY <1>7, <1>8, ConcatParts DEF Lines
  <2>2. Len(B) + 1 = Len(A) + 2
    BY <1>6, <1>7
  <2> QED BY <2>1, <2>2
<1>13. End(s)[1] = Len(A) + 1 /\ End(s)[2] = Len(a) /\ End(s)[1] - 1 = Len(A) /\ End(s)[1] + 1 = Len(A) + 2
  BY <1>5, <1>6
<1>14. TextBefore(u, End(s)) = s
  BY <1>1, <1>9, <1>10, <1>11, <1>13 DEF TextBefore
<1>15. TextFrom(u, End(s)) = t
  BY <1>2, <1>9, <1>10, <1>12, <1>13 DEF TextFrom
<1>16. End(s) \in PositionsOf(u)
  <2>1. Len(A) + 1 \in 1..Len(u) /\ Len(a) \in 0..Len(u[Len(A) + 1])
    BY <1>3, <1>6, <1>10
  <2> QED BY <1>5, <2>1 DEF PositionsOf
<1> QED BY <1>14, <1>15, <1>16 DEF u

\* A position takes a text apart.
LEMMA PlaceIn ==
  ASSUME NEW t \in Texts, NEW p \in PositionsOf(t)
  PROVE  p = <<p[1], p[2]>> /\ p[1] \in 1..Len(t) /\ p[2] \in 0..Len(t[p[1]])
<1>1. PICK l \in 1..Len(t) : p \in {l} \X (0..Len(t[l]))
  BY DEF PositionsOf
<1> QED BY <1>1

LEMMA Place ==
  \A t \in Texts : \A l \in 1..Len(t) : \A x \in 0..Len(t[l]) : <<l, x>> \in PositionsOf(t)
BY DEF PositionsOf

LEMMA TextLen ==
  ASSUME NEW t \in Texts
  PROVE  t \in Lines /\ Len(t) \in Nat \ {0}
<1>1. t \in Seq(Line) /\ t # <<>>
  BY DEF Texts
<1> QED BY <1>1, LenNat DEF Lines

LEMMA LineIn ==
  ASSUME NEW t \in Lines, NEW l \in 1..Len(t)
  PROVE  t[l] \in Line /\ Len(t[l]) \in Nat
<1>1. t[l] \in Line
  BY ElementOfSeq DEF Lines
<1> QED BY <1>1, LenNat DEF Line

\* The two sides of a line.
LEMMA Sides ==
  ASSUME NEW line \in Line, NEW x \in 0..Len(line)
  PROVE  /\ Prefix(line, x) \in Line /\ Suffix(line, x) \in Line
         /\ Len(Prefix(line, x)) = x /\ Len(Suffix(line, x)) = Len(line) - x
         /\ line = Prefix(line, x) \o Suffix(line, x)
<1>1. Len(line) \in Nat
  BY LenNat DEF Line
<1>2. Prefix(line, x) = SubSeq(line, 1, x)
  BY <1>1 DEF Prefix
<1>3. \A i \in 1..x : line[i] \in Char
  BY <1>1, ElementOfSeq DEF Line, Char
<1>4. SubSeq(line, 1, x) \in Line /\ Len(SubSeq(line, 1, x)) = x
  BY <1>1, <1>3, SubSeqProperties DEF Line, Char
<1>5. \A i \in x + 1..Len(line) : line[i] \in Char
  BY <1>1, ElementOfSeq DEF Line, Char
<1>6. Suffix(line, x) \in Line
  BY <1>1, <1>5, SubSeqProperties DEF Line, Suffix, Char
<1>7. SubSeq(line, 1, x) \o SubSeq(line, x + 1, Len(line)) = SubSeq(line, 1, Len(line))
  <2>1. 1 \in 1..Len(line) + 1 /\ x \in 1 - 1..Len(line) /\ Len(line) \in x..Len(line)
    BY <1>1
  <2>2. line \in Seq(Char)
    BY DEF Line, Char
  <2> QED BY ONLY <2>1, <2>2, ConcatAdjacentSubSeq
<1>8. SubSeq(line, 1, Len(line)) = line
  BY SubSeqFull DEF Line
<1>9. Len(Suffix(line, x)) = Len(line) - x
  <2>1. Prefix(line, x) \in Line /\ Suffix(line, x) \in Line /\ line = Prefix(line, x) \o Suffix(line, x)
    BY <1>2, <1>4, <1>6, <1>7, <1>8 DEF Suffix
  <2>2. Len(line) = Len(Prefix(line, x)) + Len(Suffix(line, x)) /\ Len(Suffix(line, x)) \in Nat
    BY <2>1, LineConcat
  <2> QED BY <1>1, <1>2, <1>4, <2>2
<1> QED BY <1>2, <1>4, <1>6, <1>7, <1>8, <1>9 DEF Suffix

\* The lines before and behind a line, and the text made of all three.
LEMMA Around ==
  ASSUME NEW t \in Lines, NEW l \in 1..Len(t)
  PROVE  /\ SubSeq(t, 1, l - 1) \in Lines /\ Len(SubSeq(t, 1, l - 1)) = l - 1
         /\ SubSeq(t, l + 1, Len(t)) \in Lines /\ Len(SubSeq(t, l + 1, Len(t))) = Len(t) - l
         /\ t = SubSeq(t, 1, l - 1) \o (<<t[l]>> \o SubSeq(t, l + 1, Len(t)))
<1>1. Len(t) \in Nat /\ \A i \in 1..Len(t) : t[i] \in Line
  BY LineIn, LenNat DEF Lines
<1> DEFINE A == SubSeq(t, 1, l - 1)
           C == SubSeq(t, l + 1, Len(t))
<1>2. A \in Lines /\ Len(A) = l - 1
  BY <1>1, SubSeqProperties DEF Lines
<1>3. C \in Lines /\ Len(C) = Len(t) - l
  BY <1>1, SubSeqProperties DEF Lines
<1>4. SubSeq(t, l, Len(t)) = <<t[l]>> \o C
  <2>1. l \in 1..Len(t) /\ Len(t) \in l..Len(t) /\ t \in Seq(Line)
    BY <1>1 DEF Lines
  <2> QED BY ONLY <2>1, SubSeqRecursiveFirst
<1>5. A \o SubSeq(t, l, Len(t)) = SubSeq(t, 1, Len(t))
  <2>1. l - 1 \in 1 - 1..Len(t) /\ Len(t) \in l - 1..Len(t) /\ 1 \in 1..Len(t) + 1
        /\ l - 1 + 1 = l /\ t \in Seq(Line)
    BY <1>1 DEF Lines
  <2>2. SubSeq(t, 1, l - 1) \o SubSeq(t, l - 1 + 1, Len(t)) = SubSeq(t, 1, Len(t))
    BY ONLY <2>1, ConcatAdjacentSubSeq
  <2> QED BY <2>1, <2>2
<1>6. SubSeq(t, 1, Len(t)) = t
  BY <1>1, SubSeqFull DEF Lines
<1> QED BY <1>2, <1>3, <1>4, <1>5, <1>6

LEMMA TakenApart ==
  ASSUME NEW t \in Texts, NEW p \in PositionsOf(t)
  PROVE  /\ TextBefore(t, p) \in Texts /\ TextFrom(t, p) \in Texts
         /\ t = TextBefore(t, p) \oplus TextFrom(t, p)
         /\ End(TextBefore(t, p)) = p
<1> DEFINE l == p[1]
           x == p[2]
           A == SubSeq(t, 1, l - 1)
           C == SubSeq(t, l + 1, Len(t))
           a == Prefix(t[l], x)
           b == Suffix(t[l], x)
<1>1. p = <<l, x>> /\ l \in 1..Len(t) /\ x \in 0..Len(t[l]) /\ t \in Lines
  BY PlaceIn, TextLen
<1>2. t[l] \in Line
  BY <1>1, LineIn
<1>3. a \in Line /\ b \in Line /\ Len(a) = x /\ t[l] = a \o b
  BY <1>1, <1>2, Sides
<1>4. A \in Lines /\ Len(A) = l - 1 /\ C \in Lines /\ t = A \o (<<t[l]>> \o C)
  BY <1>1, Around
<1>5. TextBefore(t, p) = A \o <<a>> /\ TextFrom(t, p) = <<b>> \o C
  BY DEF TextBefore, TextFrom
<1> HIDE DEF a, b, A, C
<1>6. t = TextBefore(t, p) \oplus TextFrom(t, p)
  <2>1. (A \o <<a>>) \oplus (<<b>> \o C) = A \o (<<a \o b>> \o C)
    <3>1. Att(A, a, b, C)
      BY <1>3, <1>4, Attaching
    <3> QED BY <3>1 DEF Att
  <2> QED BY <1>3, <1>4, <1>5, <2>1
<1>7. End(A \o <<a>>) = p
  BY <1>3, <1>4, EndIs, <1>1
<1> QED BY <1>3, <1>4, <1>5, <1>6, <1>7, EndIs, StartIs

\* A line and the lines around it.
AtLine(t, A, l, C) ==
    /\ t = A \o (<<l>> \o C) /\ t \in Texts
    /\ Len(A) \in Nat /\ Len(C) \in Nat
    /\ Len(t) = Len(A) + 1 + Len(C) /\ t[Len(A) + 1] = l
    /\ SubSeq(t, 1, Len(A)) = A /\ SubSeq(t, Len(A) + 2, Len(t)) = C

LEMMA AtLineIs ==
  ASSUME NEW A \in Lines, NEW C \in Lines, NEW l \in Line
  PROVE  AtLine(A \o (<<l>> \o C), A, l, C)
<1> DEFINE D == <<l>> \o C
           u == A \o D
           B == A \o <<l>>
<1>1. D \in Lines /\ Len(D) = 1 + Len(C) /\ D[1] = l /\ Len(A) \in Nat /\ Len(C) \in Nat /\ D \in Texts
  BY StartIs, LenNat DEF Texts, Lines
<1>2. B \in Lines /\ Len(B) = Len(A) + 1
  BY EndIs DEF Texts, Lines
<1>3. u = B \o C
  <2>1. <<l>> \in Lines
    BY OneIn
  <2> QED BY <2>1, Assoc
<1>4. /\ u \in Lines /\ Len(u) = Len(A) + Len(D)
      /\ \A i \in 1..Len(A) + Len(D) : u[i] = IF i <= Len(A) THEN A[i] ELSE D[i - Len(A)]
  <2> HIDE DEF D
  <2> QED BY <1>1, ConcatProperties DEF Lines
<1>5. SubSeq(u, 1, Len(A)) = A
  <2> HIDE DEF D
  <2> QED BY <1>1, ConcatParts DEF Lines
<1>6. SubSeq(u, Len(B) + 1, Len(u)) = C
  <2>1. SubSeq(B \o C, Len(B) + 1, Len(B \o C)) = C
    <3> HIDE DEF B
    <3> QED BY <1>2, ConcatParts DEF Lines
  <2> QED BY <1>3, <2>1
<1> HIDE DEF u, D, B
<1>7. Len(u) = Len(A) + 1 + Len(C)
  BY <1>1, <1>4
<1>8. u[Len(A) + 1] = l
  <2>1. Len(A) + 1 \in 1..Len(A) + Len(D) /\ ~(Len(A) + 1 <= Len(A)) /\ Len(A) + 1 - Len(A) = 1
    BY <1>1
  <2> QED BY <1>1, <1>4, <2>1
<1>9. Len(B) + 1 = Len(A) + 2
  BY <1>1, <1>2
<1>10. u \in Texts
  <2>1. u # <<>>
    BY <1>1, <1>7, EmptySeq
  <2> QED BY <1>4, <2>1 DEF Texts, Lines
<1>11. SubSeq(u, Len(A) + 2, Len(u)) = C
  BY <1>6, <1>9
<1> QED BY <1>1, <1>5, <1>7, <1>8, <1>10, <1>11 DEF u, D, AtLine

\* Two texts that are attached, by the lines at which they are.
Split(s, t, A, a, b, C) ==
    /\ A \in Lines /\ C \in Lines /\ a \in Line /\ b \in Line /\ a \o b \in Line
    /\ s = A \o <<a>> /\ t = <<b>> \o C /\ AtLine(s \oplus t, A, a \o b, C)
    /\ End(s) = <<Len(A) + 1, Len(a)>>
    /\ Len(s) = Len(A) + 1 /\ Len(t) = 1 + Len(C) /\ t[1] = b
    /\ Len(a \o b) = Len(a) + Len(b) /\ Len(a) \in Nat /\ Len(b) \in Nat
    /\ Prefix(a \o b, Len(a)) = a /\ Suffix(a \o b, Len(a)) = b

LEMMA SplitAt ==
  ASSUME NEW s \in Texts, NEW t \in Texts
  PROVE  \E A, C \in Lines : \E a, b \in Line : Split(s, t, A, a, b, C)
<1>1. PICK A \in Lines, a \in Line : s = A \o <<a>>
  BY LastLine
<1>2. PICK b \in Line, C \in Lines : t = <<b>> \o C
  BY FirstLine
<1>3. a \o b \in Line /\ Len(a \o b) = Len(a) + Len(b) /\ Len(a) \in Nat /\ Len(b) \in Nat
  BY LineConcat
<1>4. s \oplus t = A \o (<<a \o b>> \o C)
  <2>1. Att(A, a, b, C)
    BY Attaching
  <2> QED BY <1>1, <1>2, <2>1 DEF Att
<1>5. AtLine(s \oplus t, A, a \o b, C)
  BY <1>3, <1>4, AtLineIs
<1>6. Len(s) = Len(A) + 1 /\ End(s) = <<Len(A) + 1, Len(a)>>
  BY <1>1, EndIs
<1>7. Len(t) = 1 + Len(C) /\ t[1] = b
  BY <1>2, StartIs
<1>8. Prefix(a \o b, Len(a)) = a /\ Suffix(a \o b, Len(a)) = b
  BY LineSides
<1>9. Split(s, t, A, a, b, C)
  BY <1>1, <1>2, <1>3, <1>5, <1>6, <1>7, <1>8 DEF Split
<1> QED BY <1>9

\* Attaching a text moves the end as inserting it moves the cursor.
LEMMA EndPlus == \A s, t \in Texts : End(s \oplus t) = EndOf(End(s), t)
<1> TAKE s, t \in Texts
<1>1. PICK A, C \in Lines, a, b \in Line : Split(s, t, A, a, b, C)
  BY SplitAt
<1> DEFINE l == a \o b
<1>2. /\ s \oplus t = A \o (<<l>> \o C) /\ l \in Line /\ Len(l) = Len(a) + Len(b)
      /\ Len(A) \in Nat /\ Len(C) \in Nat
      /\ End(s)[1] = Len(A) + 1 /\ End(s)[2] = Len(a) /\ t = <<b>> \o C /\ Len(t) = 1 + Len(C) /\ t[1] = b
  <2>1. /\ AtLine(s \oplus t, A, l, C) /\ l \in Line /\ Len(l) = Len(a) + Len(b)
        /\ End(s)[1] = Len(A) + 1 /\ End(s)[2] = Len(a) /\ t = <<b>> \o C /\ Len(t) = 1 + Len(C) /\ t[1] = b
    BY <1>1 DEF Split
  <2> HIDE DEF l
  <2> QED BY <2>1 DEF AtLine
<1> HIDE DEF l
<1>3. CASE C = <<>>
  <2>1. Len(C) = 0
    BY <1>3, EmptySeq
  <2>2. <<l>> \o C = <<l>>
    BY <1>2, <1>3, OneIn, ConcatEmptySeq DEF Lines
  <2>3. End(s \oplus t) = <<Len(A) + 1, Len(l)>>
    <3>1. End(A \o <<l>>) = <<Len(A) + 1, Len(l)>>
      BY <1>2, EndIs
    <3> QED BY <1>2, <2>2, <3>1
  <2>4. Len(t) = 1
    BY <1>2, <2>1
  <2>5. EndOf(End(s), t) = <<Len(A) + 1, Len(a) + Len(b)>>
    BY <1>2, <2>4 DEF EndOf
  <2> QED BY <1>2, <2>3, <2>5
<1>4. CASE C # <<>>
  <2>1. C \in Texts
    BY <1>4 DEF Texts, Lines
  <2>2. PICK N \in Lines, m \in Line : C = N \o <<m>>
    BY <2>1, LastLine
  <2>3. <<l>> \in Lines /\ <<b>> \in Lines /\ <<m>> \in Lines
    BY <1>2, OneIn
  <2>4. <<l>> \o N \in Lines /\ <<b>> \o N \in Lines /\ Len(<<b>> \o N) = 1 + Len(N) /\ Len(<<l>> \o N) = 1 + Len(N)
    BY <1>2, <2>3, ConcatIn, OneIn
  <2>5. <<l>> \o C = (<<l>> \o N) \o <<m>> /\ <<b>> \o C = (<<b>> \o N) \o <<m>>
    BY <2>3, Assoc, <2>2
  <2> DEFINE LN == <<l>> \o N
             BN == <<b>> \o N
  <2> HIDE DEF LN, BN
  <2>6. A \o LN \in Lines /\ Len(A \o LN) = Len(A) + (1 + Len(N)) /\ LN \in Lines /\ BN \in Lines /\ Len(BN) = 1 + Len(N)
    BY <2>4, ConcatIn DEF LN, BN
  <2>7. s \oplus t = (A \o LN) \o <<m>>
    <3>1. A \o (LN \o <<m>>) = (A \o LN) \o <<m>>
      BY <2>3, <2>6, Assoc
    <3> QED BY <1>2, <2>5, <3>1 DEF LN
  <2>8. End(s \oplus t) = <<Len(A) + (1 + Len(N)) + 1, Len(m)>>
    <3> DEFINE AL == A \o LN
    <3> HIDE DEF AL
    <3>1. End(AL \o <<m>>) = <<Len(AL) + 1, Len(m)>>
      BY <2>6, EndIs DEF AL
    <3> QED BY <2>6, <2>7, <3>1 DEF AL
  <2>9. t = BN \o <<m>>
    BY <1>2, <2>5 DEF BN
  <2>10. Len(t) = 1 + Len(N) + 1 /\ t[Len(t)] = m
    BY <2>6, <2>9, EndIs
  <2>11. Len(N) \in Nat
    BY LenNat DEF Lines
  <2>12. EndOf(End(s), t) = <<Len(A) + 1 + (1 + Len(N) + 1) - 1, Len(m)>>
    <3>1. Len(t) # 1
      BY <2>10, <2>11
    <3> QED BY <1>2, <2>10, <3>1 DEF EndOf
  <2>13. Len(A) + 1 + (1 + Len(N) + 1) - 1 = Len(A) + (1 + Len(N)) + 1
    BY <1>2, <2>11
  <2> QED BY <2>8, <2>12, <2>13
<1> QED BY <1>3, <1>4

\* The characters of two texts attached, and how many lines they have.
LEMMA SizePlus == \A s, t \in Texts : TotSize(s \oplus t) = TotSize(s) + TotSize(t)
<1> TAKE s, t \in Texts
<1>1. PICK A, C \in Lines, a, b \in Line : Split(s, t, A, a, b, C)
  BY SplitAt
<1> DEFINE l == a \o b
<1>2. /\ s \oplus t = A \o (<<l>> \o C) /\ l \in Line /\ Len(l) = Len(a) + Len(b)
      /\ s = A \o <<a>> /\ t = <<b>> \o C /\ Len(a) \in Nat /\ Len(b) \in Nat
  BY <1>1 DEF Split, AtLine
<1> HIDE DEF l
<1>3. /\ <<l>> \in Lines /\ <<a>> \in Lines /\ <<b>> \in Lines
      /\ TotSize(<<l>>) = Len(l) /\ TotSize(<<a>>) = Len(a) /\ TotSize(<<b>>) = Len(b)
  BY <1>2, OneIn, SizeOne
<1>4. TotSize(s) = TotSize(A) + Len(a) + 1
  BY <1>2, <1>3, SizeConcat
<1>5. TotSize(t) = Len(b) + TotSize(C) + 1
  BY <1>2, <1>3, SizeConcat
<1>6. TotSize(<<l>> \o C) = Len(l) + TotSize(C) + 1 /\ <<l>> \o C \in Lines
  BY <1>2, <1>3, SizeConcat, ConcatIn
<1>7. TotSize(s \oplus t) = TotSize(A) + (Len(l) + TotSize(C) + 1) + 1
  <2> DEFINE D == <<l>> \o C
  <2> HIDE DEF D
  <2>1. TotSize(A \o D) = TotSize(A) + TotSize(D) + 1
    BY <1>6, SizeConcat DEF D
  <2> QED BY <1>2, <1>6, <2>1 DEF D
<1>8. TotSize(A) \in Int /\ TotSize(C) \in Int
  BY SizeInt
<1>9. /\ TotSize(s \oplus t) = TotSize(A) + (Len(a) + Len(b) + TotSize(C) + 1) + 1
      /\ TotSize(s) + TotSize(t) = (TotSize(A) + Len(a) + 1) + (Len(b) + TotSize(C) + 1)
  BY <1>2, <1>4, <1>5, <1>7
<1>10. Len(a) \in Nat /\ Len(b) \in Nat
  BY <1>2
<1> QED BY ONLY <1>8, <1>9, <1>10

LEMMA LenPlus == \A s, t \in Texts : Len(s \oplus t) = Len(s) + Len(t) - 1
<1> TAKE s, t \in Texts
<1>1. PICK A, C \in Lines, a, b \in Line : Split(s, t, A, a, b, C)
  BY SplitAt
<1>2. AtLine(s \oplus t, A, a \o b, C) /\ Len(s) = Len(A) + 1 /\ Len(t) = 1 + Len(C)
  BY <1>1 DEF Split
<1>3. Len(s \oplus t) = Len(A) + 1 + Len(C) /\ Len(A) \in Nat /\ Len(C) \in Nat
  BY <1>2 DEF AtLine
<1> QED BY ONLY <1>2, <1>3

LEMMA SizeNat == \A t \in Texts : TotSize(t) \in Int
BY SizeInt DEF Texts, Lines

\* The end of a text is its last line and a column.
LEMMA EndIn ==
  ASSUME NEW t \in Texts
  PROVE  /\ End(t) = <<End(t)[1], End(t)[2]>>
         /\ End(t)[1] = Len(t) /\ End(t)[2] = Len(t[Len(t)])
         /\ End(t)[1] \in Nat \ {0} /\ End(t)[2] \in Nat
<1>1. Len(t) \in Nat \ {0} /\ t \in Lines
  BY TextLen
<1>2. Len(t[Len(t)]) \in Nat
  BY <1>1, LineIn
<1> QED BY <1>1, <1>2 DEF End

\* The position of the end of a text stays one in what it is attached to, and in what is
\* attached to it.
LEMMA EndPosition == \A s, t \in Texts : End(s) \in PositionsOf(s \oplus t)
BY Parted

LEMMA EndOfText ==
  ASSUME NEW t \in Texts
  PROVE  End(t) \in PositionsOf(t)
<1>1. t \oplus Unit = t /\ Unit \in Texts
  BY UnitIn, UnitRight
<1> QED BY <1>1, EndPosition

\* A position of a text takes apart what the text is the beginning of.
Contained(X, Y, p) ==
    /\ p \in PositionsOf(X \oplus Y)
    /\ TextBefore(X \oplus Y, p) = TextBefore(X, p)
    /\ TextFrom(X \oplus Y, p) = TextFrom(X, p) \oplus Y

LEMMA PlaceBefore ==
  ASSUME NEW X \in Texts, NEW Y \in Texts, NEW p \in PositionsOf(X)
  PROVE  Contained(X, Y, p)
<1> DEFINE B == TextBefore(X, p)
           R == TextFrom(X, p)
<1>1. B \in Texts /\ R \in Texts /\ X = B \oplus R /\ End(B) = p
  BY TakenApart
<1> HIDE DEF B, R
<1>2. R \oplus Y \in Texts
  BY <1>1, AttachIn
<1>3. X \oplus Y = B \oplus (R \oplus Y)
  BY <1>1, AttachAssoc
<1>4. /\ TextBefore(B \oplus (R \oplus Y), End(B)) = B
      /\ TextFrom(B \oplus (R \oplus Y), End(B)) = R \oplus Y
      /\ End(B) \in PositionsOf(B \oplus (R \oplus Y))
  BY <1>1, <1>2, Parted
<1>5. p \in PositionsOf(X \oplus Y) /\ TextBefore(X \oplus Y, p) = B /\ TextFrom(X \oplus Y, p) = R \oplus Y
  BY <1>1, <1>3, <1>4
<1> QED BY <1>5 DEF Contained, B, R

\* A position that is not behind another is one in the text before that.
LEMMA PlaceOrder ==
  ASSUME NEW t \in Texts, NEW p \in PositionsOf(t), NEW q \in PositionsOf(t), ~Before(q, p)
  PROVE  p \in PositionsOf(TextBefore(t, q))
<1> DEFINE A == SubSeq(t, 1, q[1] - 1)
           a == Prefix(t[q[1]], q[2])
           u == A \o <<a>>
<1>1. /\ p = <<p[1], p[2]>> /\ p[1] \in 1..Len(t) /\ p[2] \in 0..Len(t[p[1]])
      /\ q[1] \in 1..Len(t) /\ q[2] \in 0..Len(t[q[1]]) /\ t \in Lines /\ Len(t) \in Nat
  BY PlaceIn, TextLen
<1>2. t[q[1]] \in Line /\ Len(t[q[1]]) \in Nat /\ t[p[1]] \in Line /\ Len(t[p[1]]) \in Nat
  BY <1>1, LineIn
<1>3. a \in Line /\ Len(a) = q[2]
  BY <1>1, <1>2, Sides
<1>4. A \in Lines /\ Len(A) = q[1] - 1
  BY <1>1, Around
<1>5. \A i \in 1..q[1] - 1 : A[i] = t[i]
  <2>1. \A i \in 1..q[1] - 1 : t[i] \in Line
    BY <1>1, LineIn
  <2>2. \A i \in 1..q[1] - 1 - 1 + 1 : A[i] = t[1 + i - 1]
    BY <1>1, <2>1, SubSeqProperties DEF Lines
  <2> HIDE DEF A
  <2> QED BY <1>1, <2>2
<1> HIDE DEF A, a
<1>6. u \in Texts /\ Len(u) = q[1] /\ u[q[1]] = a
  <2>1. u \in Texts /\ Len(u) = Len(A) + 1 /\ u[Len(A) + 1] = a
    BY <1>3, <1>4, EndIs
  <2>2. Len(A) + 1 = q[1]
    BY <1>1, <1>4
  <2> QED BY <2>1, <2>2
<1>7. \A i \in 1..q[1] - 1 : u[i] = t[i]
  <2>1. <<a>> \in Lines /\ Len(<<a>>) = 1
    BY <1>3, OneIn
  <2>2. \A i \in 1..Len(A) + Len(<<a>>) : u[i] = IF i <= Len(A) THEN A[i] ELSE <<a>>[i - Len(A)]
    BY <1>4, <2>1, ConcatProperties DEF Lines
  <2> HIDE DEF u
  <2>3. ASSUME NEW i \in 1..q[1] - 1 PROVE u[i] = t[i]
    BY <1>1, <1>4, <2>1, <2>2, <1>5
  <2> QED BY <2>3
<1>8. TextBefore(t, q) = u
  BY DEF TextBefore, A, a, u
<1> HIDE DEF u
<1>9. p[1] < q[1] \/ (p[1] = q[1] /\ p[2] <= q[2])
  BY <1>1, <1>2 DEF Before
<1>10. CASE p[1] < q[1]
  BY <1>1, <1>6, <1>7, <1>10, Place, <1>8
<1>11. CASE p[1] = q[1] /\ p[2] <= q[2]
  BY <1>1, <1>3, <1>6, <1>11, <1>2, Place, <1>8
<1> QED BY <1>9, <1>10, <1>11

\* Two positions take a text apart into three.
Between(t, p, q) ==
    /\ Region(t, p, q) \in Texts
    /\ TextBefore(t, q) = TextBefore(t, p) \oplus Region(t, p, q)
    /\ TextFrom(t, p) = Region(t, p, q) \oplus TextFrom(t, q)

LEMMA PlacesBetween ==
  ASSUME NEW t \in Texts, NEW p \in PositionsOf(t), NEW q \in PositionsOf(t), ~Before(q, p)
  PROVE  Between(t, p, q)
<1> DEFINE X == TextBefore(t, q)
           Y == TextFrom(t, q)
<1>1. X \in Texts /\ Y \in Texts /\ t = X \oplus Y /\ End(X) = q
  BY TakenApart
<1>2. p \in PositionsOf(X)
  BY PlaceOrder
<1>3. Region(t, p, q) = TextFrom(X, p)
  BY DEF Region
<1> HIDE DEF X, Y
<1>4. Contained(X, Y, p)
  BY <1>1, <1>2, PlaceBefore
<1>5. TextBefore(t, p) = TextBefore(X, p) /\ TextFrom(t, p) = TextFrom(X, p) \oplus Y
  BY <1>1, <1>4 DEF Contained
<1>6. TextFrom(X, p) \in Texts /\ X = TextBefore(X, p) \oplus TextFrom(X, p)
  BY <1>1, <1>2, TakenApart
<1>7. Region(t, p, q) \in Texts /\ X = TextBefore(t, p) \oplus Region(t, p, q)
  BY <1>3, <1>5, <1>6
<1>8. TextFrom(t, p) = Region(t, p, q) \oplus Y
  BY <1>3, <1>5
<1> QED BY <1>7, <1>8 DEF Between, X, Y

\* What is cut from between two texts, and what is pasted there.
CutIs(B, R, F) ==
    /\ Region(B \oplus (R \oplus F), End(B), End(B \oplus R)) = R
    /\ Without(B \oplus (R \oplus F), End(B), End(B \oplus R)) = B \oplus F

LEMMA Cutting == \A B, R, F \in Texts : CutIs(B, R, F)
<1> TAKE B, R, F \in Texts
<1> DEFINE t == B \oplus (R \oplus F)
           BR == B \oplus R
           RF == R \oplus F
<1>1. BR \in Texts /\ RF \in Texts /\ t \in Texts
  BY AttachIn
<1>2. t = BR \oplus F
  BY AttachAssoc
<1>3. TextBefore(BR \oplus F, End(BR)) = BR /\ TextFrom(BR \oplus F, End(BR)) = F
  <2> HIDE DEF BR
  <2> QED BY <1>1, Parted
<1>4. TextBefore(B \oplus RF, End(B)) = B
  <2> HIDE DEF RF
  <2> QED BY <1>1, Parted
<1>5. TextFrom(B \oplus R, End(B)) = R
  BY Parted
<1>6. TextBefore(t, End(BR)) = BR /\ TextFrom(t, End(BR)) = F /\ TextBefore(t, End(B)) = B
      /\ TextFrom(BR, End(B)) = R
  BY <1>2, <1>3, <1>4, <1>5
<1> HIDE DEF t, BR, RF
<1>7. Region(t, End(B), End(BR)) = R
  BY <1>6 DEF Region
<1>8. Without(t, End(B), End(BR)) = B \oplus F
  BY <1>6 DEF Without, \oplus
<1> QED BY <1>7, <1>8 DEF CutIs, t, BR, RF

LEMMA Pasting == \A B, R, F \in Texts : With(B \oplus F, End(B), R) = (B \oplus R) \oplus F
<1> TAKE B, R, F \in Texts
<1>1. TextBefore(B \oplus F, End(B)) = B /\ TextFrom(B \oplus F, End(B)) = F
  BY Parted
<1> QED BY <1>1 DEF With, \oplus

\* The arithmetic of ends.
LEMMA NotBefore ==
  ASSUME NEW s \in Texts, NEW t \in Texts
  PROVE  /\ ~Before(End(s \oplus t), End(s))
         /\ End(s \oplus t) = End(s) => t = Unit
<1>1. End(s \oplus t) = EndOf(End(s), t)
  BY EndPlus
<1>2. End(s)[1] \in Nat /\ End(s)[2] \in Nat
  BY EndIn
<1>3. Len(t) \in Nat \ {0} /\ t \in Lines
  BY TextLen
<1>4. t[1] \in Line /\ Len(t[1]) \in Nat /\ Len(t[Len(t)]) \in Nat
  BY <1>3, LineIn
<1> DEFINE p == End(s)
           e == End(s \oplus t)
<1>5. CASE Len(t) = 1
  <2>1. e[1] = p[1] /\ e[2] = p[2] + Len(t[1])
    BY <1>1, <1>5 DEF EndOf
  <2>2. ~Before(e, p)
    BY <1>2, <1>4, <2>1 DEF Before
  <2>3. ASSUME e = p PROVE t = Unit
    <3>1. p[2] + Len(t[1]) = p[2]
      BY <2>1, <2>3
    <3>2. Len(t[1]) = 0
      BY <1>2, <1>4, <3>1
    <3>3. t[1] = <<>>
      BY <1>4, <3>2, EmptySeq DEF Line
    <3>4. PICK b \in Line, C \in Lines : t = <<b>> \o C
      BY FirstLine
    <3>5. Len(t) = 1 + Len(C) /\ t[1] = b /\ Len(C) \in Nat
      BY <3>4, StartIs, LenNat DEF Lines
    <3>6. Len(C) = 0
      <4>1. 1 + Len(C) = 1 /\ Len(C) \in Nat
        BY <1>5, <3>5
      <4> QED BY ONLY <4>1
    <3>7. C = <<>>
      BY <3>6, EmptySeq DEF Lines
    <3>8. <<b>> \o <<>> = <<b>>
      BY OneIn, ConcatEmptySeq DEF Lines
    <3> QED BY <3>3, <3>4, <3>5, <3>7, <3>8 DEF Unit
  <2> QED BY <2>2, <2>3
<1>6. CASE Len(t) # 1
  <2>1. e[1] = p[1] + Len(t) - 1
    BY <1>1, <1>6 DEF EndOf
  <2>2. p[1] \in Nat /\ Len(t) > 1
    BY <1>2, <1>3, <1>6
  <2>3. ~Before(e, p) /\ e # p
    <3> HIDE DEF e, p
    <3>2. e[1] # p[1] /\ ~(e[1] < p[1])
      BY <1>3, <2>1, <2>2
    <3> QED BY <3>2 DEF Before
  <2> QED BY <2>3
<1> QED BY <1>5, <1>6

\* What a position is: the end of a text that, with another, makes up the text.
LEMMA Parts ==
  \A t \in Texts : \A p \in PositionsOf(t) : \E B, F \in Texts :
     t = B \oplus F /\ End(B) = p /\ B = TextBefore(t, p) /\ F = TextFrom(t, p)
BY TakenApart

\* Replacing a line.
ReplacedIs(A, l, C, repl) ==
    ReplaceLine(A \o (<<l>> \o C), Len(A) + 1, repl) = A \o (repl \o C)

LEMMA Replaced ==
  ASSUME NEW A \in Lines, NEW C \in Lines, NEW repl \in Lines, NEW l \in Line
  PROVE  ReplacedIs(A, l, C, repl)
<1> DEFINE t == A \o (<<l>> \o C)
<1>1. AtLine(t, A, l, C)
  BY AtLineIs
<1> HIDE DEF t
<1>2. SubSeq(t, 1, Len(A)) = A /\ SubSeq(t, Len(A) + 2, Len(t)) = C /\ Len(A) \in Nat
  BY <1>1 DEF AtLine
<1>3. Len(A) + 1 - 1 = Len(A) /\ Len(A) + 1 + 1 = Len(A) + 2
  BY <1>2
<1>4. ReplaceLine(t, Len(A) + 1, repl) = (A \o repl) \o C
  <2> DEFINE k == Len(A) + 1
  <2>2. SubSeq(t, 1, k - 1) = A /\ SubSeq(t, k + 1, Len(t)) = C
    BY <1>2, <1>3
  <2> HIDE DEF k
  <2>3. ReplaceLine(t, k, repl) = SubSeq(t, 1, k - 1) \o repl \o SubSeq(t, k + 1, Len(t))
    BY DEF ReplaceLine
  <2> QED BY <2>2, <2>3 DEF k
<1>5. (A \o repl) \o C = A \o (repl \o C)
  BY Assoc
<1> QED BY <1>4, <1>5 DEF t, ReplacedIs

\* A line of a text that is assigned to is replaced.
LEMMA ExceptLine ==
  ASSUME NEW t \in Texts, NEW k \in 1..Len(t), NEW v \in Line
  PROVE  [t EXCEPT ![k] = v] = ReplaceLine(t, k, <<v>>)
<1>1. t \in Seq(Line) /\ t \in Lines /\ Len(t) \in Nat
  BY TextLen DEF Lines
<1> DEFINE A == SubSeq(t, 1, k - 1)
           C == SubSeq(t, k + 1, Len(t))
           D == <<v>> \o C
           B == <<t[k]>> \o C
           u == A \o D
           e == [t EXCEPT ![k] = v]
<1>2. A \in Lines /\ Len(A) = k - 1 /\ C \in Lines /\ Len(C) = Len(t) - k
      /\ t = A \o B
  BY <1>1, Around
<1>3. t[k] \in Line
  BY <1>1, LineIn
<1>4. ReplaceLine(t, k, <<v>>) = u
  <2>1. <<v>> \in Lines
    BY OneIn
  <2>2. (A \o <<v>>) \o C = A \o (<<v>> \o C)
    <3> HIDE DEF A, C
    <3> QED BY <1>2, <2>1, Assoc
  <2> QED BY <2>2 DEF ReplaceLine
<1>5. e \in Seq(Line) /\ Len(e) = Len(t) /\ \A i \in 1..Len(t) : e[i] = IF i = k THEN v ELSE t[i]
  BY <1>1, ExceptSeq
<1> HIDE DEF A, C, e
<1>6. /\ D \in Lines /\ Len(D) = 1 + Len(C) /\ D[1] = v /\ \A i \in 1..Len(C) : D[1 + i] = C[i]
      /\ B \in Lines /\ Len(B) = 1 + Len(C) /\ \A i \in 1..Len(C) : B[1 + i] = C[i]
  BY <1>2, <1>3, StartIs DEF Texts, Lines
<1> HIDE DEF D, B
<1>7. /\ u \in Lines /\ Len(u) = Len(A) + Len(D)
      /\ \A i \in 1..Len(A) + Len(D) : u[i] = IF i <= Len(A) THEN A[i] ELSE D[i - Len(A)]
  BY <1>2, <1>6, ConcatProperties DEF Lines
<1>8. \A i \in 1..Len(A) + Len(B) : (A \o B)[i] = IF i <= Len(A) THEN A[i] ELSE B[i - Len(A)]
  BY <1>2, <1>6, ConcatProperties DEF Lines
<1> HIDE DEF u
<1>9. Len(u) = Len(t) /\ Len(A) + Len(D) = Len(t) /\ Len(A) + Len(B) = Len(t)
  <2>1. Len(A) = k - 1 /\ Len(D) = 1 + (Len(t) - k) /\ Len(B) = 1 + (Len(t) - k) /\ k \in Int /\ Len(t) \in Nat
    BY <1>1, <1>2, <1>6
  <2>2. Len(A) + Len(D) = Len(t) /\ Len(A) + Len(B) = Len(t)
    BY ONLY <2>1
  <2> QED BY <1>7, <2>2
<1>10. ASSUME NEW i \in 1..Len(t) PROVE u[i] = e[i]
  <2>1. CASE i < k
    BY <1>1, <1>2, <1>9, <2>1, <1>7, <1>8, <1>5
  <2>2. CASE i = k
    BY <1>1, <1>2, <1>9, <2>2, <1>6, <1>7, <1>5
  <2>3. CASE i > k
    <3>1. ~(i <= Len(A)) /\ i # k /\ i \in 1..Len(A) + Len(D) /\ i \in 1..Len(A) + Len(B)
          /\ i - Len(A) = 1 + (i - k) /\ i - k \in 1..Len(C)
      BY <1>1, <1>2, <1>9, <2>3
    <3>2. u[i] = C[i - k] /\ t[i] = C[i - k]
      BY <1>2, <1>6, <1>7, <1>8, <3>1
    <3> QED BY <1>5, <3>1, <3>2
  <2> QED BY <1>1, <2>1, <2>2, <2>3
<1>11. u = e
  <2>1. u \in Seq(Line)
    BY <1>7 DEF Lines
  <2> QED BY <1>5, <1>9, <1>10, <2>1, SeqEqual
<1> QED BY <1>4, <1>11 DEF e

\* Putting characters into a line.
PutIs(B, w, F) ==
    LET t == B \oplus F
        p == End(B)
    IN  ReplaceLine(t, p[1], <<Prefix(t[p[1]], p[2]) \o w \o Suffix(t[p[1]], p[2])>>)
          = B \oplus (<<w>> \oplus F)

LEMMA WordBefore ==
  ASSUME NEW w \in Line, NEW b \in Line, NEW C \in Lines
  PROVE  <<w>> \oplus (<<b>> \o C) = <<w \o b>> \o C
<1>1. Att(<<>>, w, b, C)
  BY UnitIn, Attaching
<1>2. <<>> \o <<w>> = <<w>>
  BY OneIn, ConcatEmptySeq DEF Lines
<1>3. <<w \o b>> \o C \in Seq(Line)
  BY LineConcat, StartIs DEF Texts
<1>4. <<>> \o (<<w \o b>> \o C) = <<w \o b>> \o C
  BY <1>3, ConcatEmptySeq
<1> QED BY <1>1, <1>2, <1>4 DEF Att

LEMMA Putting ==
  ASSUME NEW B \in Texts, NEW F \in Texts, NEW w \in Line
  PROVE  PutIs(B, w, F)
<1>1. PICK A, C \in Lines, a, b \in Line : Split(B, F, A, a, b, C)
  BY SplitAt
<1> DEFINE t == B \oplus F
           l == a \o b
<1>2. /\ AtLine(t, A, l, C) /\ l \in Line /\ End(B)[1] = Len(A) + 1 /\ End(B)[2] = Len(a)
      /\ Prefix(l, Len(a)) = a /\ Suffix(l, Len(a)) = b /\ B = A \o <<a>> /\ F = <<b>> \o C
  BY <1>1 DEF Split
<1> HIDE DEF t, l
<1>3. t = A \o (<<l>> \o C) /\ t[Len(A) + 1] = l
  BY <1>2 DEF AtLine
<1> DEFINE m == a \o w \o b
<1>4. m \in Line /\ w \o b \in Line /\ m = a \o (w \o b)
  BY LineConcat, ConcatAssociative DEF Line
<1>5. ReplaceLine(t, Len(A) + 1, <<m>>) = A \o (<<m>> \o C)
  <2>1. <<m>> \in Lines
    BY <1>4, OneIn
  <2>2. ReplacedIs(A, l, C, <<m>>)
    <3> HIDE DEF m
    <3> QED BY <1>2, <2>1, Replaced
  <2> QED BY <1>3, <2>2 DEF ReplacedIs
<1>6. <<w>> \oplus F = <<w \o b>> \o C
  BY <1>2, WordBefore
<1>7. B \oplus (<<w>> \oplus F) = A \o (<<m>> \o C)
  <2>1. Att(A, a, w \o b, C)
    BY <1>4, Attaching
  <2> QED BY <1>2, <1>4, <1>6, <2>1 DEF Att
<1>8. Prefix(t[End(B)[1]], End(B)[2]) \o w \o Suffix(t[End(B)[1]], End(B)[2]) = m
  BY <1>2, <1>3
<1>9. ReplaceLine(t, End(B)[1], <<m>>) = B \oplus (<<w>> \oplus F)
  BY <1>2, <1>5, <1>7
<1> QED BY <1>8, <1>9 DEF PutIs, t

\* Taking characters out of a line.
TakeIs(B, w, F) ==
    LET t == B \oplus (<<w>> \oplus F)
        p == End(B)
    IN  /\ p[2] + Len(w) <= Len(t[p[1]])
        /\ ReplaceLine(t, p[1], <<Prefix(t[p[1]], p[2]) \o Suffix(t[p[1]], p[2] + Len(w))>>)
             = B \oplus F

LEMMA Taking ==
  ASSUME NEW B \in Texts, NEW F \in Texts, NEW w \in Line
  PROVE  TakeIs(B, w, F)
<1>1. PICK A, C \in Lines, a, b \in Line : Split(B, F, A, a, b, C)
  BY SplitAt
<1> DEFINE t == B \oplus (<<w>> \oplus F)
<1>2. /\ AtLine(B \oplus F, A, a \o b, C) /\ a \o b \in Line /\ End(B)[1] = Len(A) + 1 /\ End(B)[2] = Len(a)
      /\ B = A \o <<a>> /\ F = <<b>> \o C /\ Len(a) \in Nat
  BY <1>1 DEF Split
<1> DEFINE m == a \o (w \o b)
<1>3. m \in Line /\ w \o b \in Line /\ a \o w \in Line /\ m = (a \o w) \o b
      /\ Len(a \o w) = Len(a) + Len(w) /\ Len(m) = (Len(a) + Len(w)) + Len(b) /\ Len(b) \in Nat /\ Len(w) \in Nat
  BY LineConcat, ConcatAssociative DEF Line
<1>4. t = A \o (<<m>> \o C)
  <2>1. <<w>> \oplus F = <<w \o b>> \o C
    BY <1>2, WordBefore
  <2>2. Att(A, a, w \o b, C)
    BY <1>3, Attaching
  <2> QED BY <1>2, <2>1, <2>2 DEF Att
<1>5. AtLine(t, A, m, C)
  <2> HIDE DEF t, m
  <2> QED BY <1>3, <1>4, AtLineIs
<1>6. Prefix(m, Len(a)) = a
  BY <1>3, LineSides
<1>7. Suffix(m, Len(a) + Len(w)) = b
  BY <1>3, LineSides
<1> HIDE DEF t, m
<1>8. t[Len(A) + 1] = m
  BY <1>5 DEF AtLine
<1>9. ReplaceLine(t, Len(A) + 1, <<a \o b>>) = A \o (<<a \o b>> \o C)
  <2>1. <<a \o b>> \in Lines
    BY <1>2, OneIn
  <2> DEFINE r == <<a \o b>>
  <2> HIDE DEF r
  <2>2. ReplacedIs(A, m, C, r)
    BY <1>3, <2>1, Replaced DEF r
  <2> QED BY <1>4, <2>2 DEF r, ReplacedIs
<1>10. B \oplus F = A \o (<<a \o b>> \o C)
  BY <1>2 DEF AtLine
<1>11. /\ End(B)[2] + Len(w) <= Len(t[End(B)[1]])
       /\ Prefix(t[End(B)[1]], End(B)[2]) \o Suffix(t[End(B)[1]], End(B)[2] + Len(w)) = a \o b
  BY <1>2, <1>3, <1>6, <1>7, <1>8
<1>12. ReplaceLine(t, End(B)[1], <<a \o b>>) = B \oplus F
  BY <1>2, <1>9, <1>10
<1> QED BY <1>11, <1>12 DEF TakeIs, t

\* A newline is a line boundary.
LEMMA NewlineBefore ==
  ASSUME NEW F \in Texts
  PROVE  Newline \oplus F = << <<>> >> \o F
<1>1. PICK b \in Line, C \in Lines : F = <<b>> \o C
  BY FirstLine
<1>2. Newline = <<(<<>>)>> \o <<(<<>>)>> /\ <<(<<>>)>> \in Lines
  BY UnitIn, OneIn DEF Newline
<1>3. Att(<<(<<>>)>>, <<>>, b, C)
  BY <1>2, UnitIn, Attaching
<1>4. <<>> \o b = b
  BY ConcatEmptySeq DEF Line
<1> QED BY <1>1, <1>2, <1>3, <1>4 DEF Att

LEMMA NewlineAfter ==
  ASSUME NEW B \in Texts
  PROVE  B \oplus Newline = Append(B, <<>>)
<1>1. PICK A \in Lines, a \in Line : B = A \o <<a>>
  BY LastLine
<1>2. Newline = <<(<<>>)>> \o <<(<<>>)>> /\ <<(<<>>)>> \in Lines /\ <<a>> \in Lines
  BY UnitIn, OneIn DEF Newline
<1>3. Att(A, a, <<>>, <<(<<>>)>>)
  BY <1>2, UnitIn, Attaching
<1>4. a \o <<>> = a
  BY ConcatEmptySeq DEF Line
<1>5. (A \o <<a>>) \o <<(<<>>)>> = A \o (<<a>> \o <<(<<>>)>>)
  BY <1>2, Assoc
<1>6. Append(B, <<>>) = B \o <<(<<>>)>>
  BY UnitIn, AppendIsConcat DEF Texts
<1> QED BY <1>1, <1>2, <1>3, <1>4, <1>5, <1>6 DEF Att

\* Breaking a line, and joining two.
BreakIs(B, F) ==
    LET t == B \oplus F
        p == End(B)
    IN  ReplaceLine(t, p[1], <<Prefix(t[p[1]], p[2]), Suffix(t[p[1]], p[2])>>)
          = B \oplus (Newline \oplus F)

LEMMA AroundNewline ==
  ASSUME NEW A \in Lines, NEW C \in Lines, NEW a \in Line, NEW b \in Line
  PROVE  (A \o <<a>>) \oplus (Newline \oplus (<<b>> \o C)) = A \o (<<a>> \o (<<b>> \o C))
<1> DEFINE F == <<b>> \o C
<1>1. F \in Texts /\ F \in Lines
  BY StartIs DEF Texts, Lines
<1> HIDE DEF F
<1>2. Newline \oplus F = <<(<<>>)>> \o F
  BY <1>1, NewlineBefore
<1>3. Att(A, a, <<>>, F)
  BY <1>1, UnitIn, Attaching
<1>4. a \o <<>> = a
  BY ConcatEmptySeq DEF Line
<1>5. (A \o <<a>>) \oplus (Newline \oplus F) = A \o (<<a>> \o F)
  BY <1>2, <1>3, <1>4 DEF Att
<1> QED BY <1>5 DEF F

LEMMA Breaking == \A B, F \in Texts : BreakIs(B, F)
<1> TAKE B, F \in Texts
<1>1. PICK A, C \in Lines, a, b \in Line : Split(B, F, A, a, b, C)
  BY SplitAt
<1> DEFINE t == B \oplus F
           l == a \o b
<1>2. /\ AtLine(t, A, l, C) /\ l \in Line /\ End(B)[1] = Len(A) + 1 /\ End(B)[2] = Len(a)
      /\ Prefix(l, Len(a)) = a /\ Suffix(l, Len(a)) = b /\ B = A \o <<a>> /\ F = <<b>> \o C
  BY <1>1 DEF Split
<1> HIDE DEF t, l
<1>3. t = A \o (<<l>> \o C) /\ t[Len(A) + 1] = l
  BY <1>2 DEF AtLine
<1>4. <<a>> \in Lines /\ <<b>> \in Lines /\ <<a, b>> = <<a>> \o <<b>>
  <2>1. <<a>> \in Lines /\ <<b>> \in Lines
    BY OneIn
  <2>2. <<a, b>> = Append(<<a>>, b)
    OBVIOUS
  <2>3. Append(<<a>>, b) = <<a>> \o <<b>>
    BY <2>1, AppendIsConcat DEF Lines
  <2> QED BY <2>1, <2>2, <2>3
<1>5. <<a, b>> \in Lines
  BY <1>4, ConcatIn
<1>6. ReplaceLine(t, Len(A) + 1, <<a, b>>) = A \o (<<a, b>> \o C)
  <2> DEFINE r == <<a, b>>
  <2>1. r \in Lines
    BY <1>5
  <2> HIDE DEF r
  <2>2. ReplacedIs(A, l, C, r)
    BY <1>2, <2>1, Replaced
  <2> QED BY <1>3, <2>2 DEF r, ReplacedIs
<1>7. <<a, b>> \o C = <<a>> \o (<<b>> \o C)
  BY <1>4, Assoc
<1>8. B \oplus (Newline \oplus F) = A \o (<<a>> \o (<<b>> \o C))
  <2>1. (A \o <<a>>) \oplus (Newline \oplus (<<b>> \o C)) = A \o (<<a>> \o (<<b>> \o C))
    BY AroundNewline, Zenon
  <2> QED BY <1>2, <2>1
<1>9. Prefix(t[End(B)[1]], End(B)[2]) = a /\ Suffix(t[End(B)[1]], End(B)[2]) = b
  BY <1>2, <1>3
<1>10. ReplaceLine(t, End(B)[1], <<a, b>>) = B \oplus (Newline \oplus F)
  BY <1>2, <1>6, <1>7, <1>8
<1> QED BY <1>9, <1>10 DEF BreakIs, t

JoinIs(B, F) ==
    LET t == B \oplus (Newline \oplus F)
        p == End(B)
    IN  /\ p[1] < Len(t) /\ Len(t[p[1]]) = p[2] /\ t[p[1] + 1] = F[1] /\ F[1] \in Line
        /\ JoinLines(t, p[1], t[p[1]] \o F[1]) = B \oplus F

LEMMA Joining == \A B, F \in Texts : JoinIs(B, F)
<1> TAKE B, F \in Texts
<1>1. PICK A, C \in Lines, a, b \in Line : Split(B, F, A, a, b, C)
  BY SplitAt
<1> DEFINE t == B \oplus (Newline \oplus F)
<1>2. /\ B \oplus F = A \o (<<a \o b>> \o C) /\ End(B)[1] = Len(A) + 1 /\ End(B)[2] = Len(a)
      /\ B = A \o <<a>> /\ F = <<b>> \o C /\ F[1] = b
  <2>1. AtLine(B \oplus F, A, a \o b, C) /\ End(B)[1] = Len(A) + 1 /\ End(B)[2] = Len(a)
        /\ B = A \o <<a>> /\ F = <<b>> \o C /\ F[1] = b
    BY <1>1 DEF Split
  <2>2. B \oplus F = A \o (<<a \o b>> \o C)
    BY <2>1 DEF AtLine
  <2> QED BY <2>1, <2>2
<1>3. t = A \o (<<a>> \o (<<b>> \o C))
  BY AroundNewline, Zenon, <1>2
<1> HIDE DEF t
<1> DEFINE D == <<b>> \o C
           E == A \o <<a>>
<1>4. D \in Lines /\ Len(D) = 1 + Len(C) /\ <<a>> \in Lines /\ Len(C) \in Nat
  BY StartIs, OneIn, LenNat DEF Texts, Lines
<1>5. E \in Lines /\ Len(E) = Len(A) + 1
  BY EndIs DEF Texts, Lines
<1>6. AtLine(t, A, a, D)
  <2> HIDE DEF D
  <2> QED BY <1>3, <1>4, AtLineIs DEF D
<1>7. t = E \o (<<b>> \o C)
  BY <1>3, <1>4, Assoc
<1>8. AtLine(t, E, b, C)
  <2> HIDE DEF E
  <2> QED BY <1>5, <1>7, AtLineIs
<1> HIDE DEF D, E
<1>9. /\ Len(A) \in Nat /\ Len(t) = Len(A) + 1 + Len(D) /\ t[Len(A) + 1] = a
      /\ SubSeq(t, 1, Len(A)) = A
  BY <1>6 DEF AtLine
<1>10. t[Len(E) + 1] = b /\ SubSeq(t, Len(E) + 2, Len(t)) = C
  BY <1>8 DEF AtLine
<1>11. Len(E) + 1 = Len(A) + 1 + 1 /\ Len(E) + 2 = Len(A) + 1 + 2 /\ Len(A) + 1 - 1 = Len(A)
  BY <1>5, <1>9
<1>12. JoinLines(t, Len(A) + 1, a \o b) = (A \o <<a \o b>>) \o C
  <2> DEFINE k == Len(A) + 1
             j == a \o b
  <2>2. SubSeq(t, 1, k - 1) = A /\ SubSeq(t, k + 2, Len(t)) = C
    <3>1. k - 1 = Len(A) /\ k + 2 = Len(E) + 2
      BY <1>11
    <3> HIDE DEF k
    <3> QED BY <1>9, <1>10, <3>1
  <2> HIDE DEF k, j
  <2>3. JoinLines(t, k, j) = SubSeq(t, 1, k - 1) \o <<j>> \o SubSeq(t, k + 2, Len(t))
    BY DEF JoinLines
  <2> QED BY <2>2, <2>3 DEF k, j
<1>13. (A \o <<a \o b>>) \o C = A \o (<<a \o b>> \o C)
  <2>1. <<a \o b>> \in Lines
    BY LineConcat, OneIn
  <2> QED BY <2>1, Assoc
<1>14. Len(A) + 1 < Len(t)
  BY <1>4, <1>9
<1> QED BY <1>2, <1>9, <1>10, <1>11, <1>12, <1>13, <1>14 DEF JoinIs, t

\* Sides of a line: nothing before its beginning, nothing behind its end.
LEMMA LineEnds ==
  ASSUME NEW l \in Line
  PROVE  Suffix(l, Len(l)) = <<>> /\ Prefix(l, Len(l)) = l /\ Suffix(l, 0) = l /\ Prefix(l, 0) = <<>>
<1>1. Len(l) \in Nat /\ <<>> \in Line
  BY LenNat, UnitIn DEF Line
<1>2. l \o <<>> = l /\ <<>> \o l = l /\ Len(<<>>) = 0
  BY ConcatEmptySeq, EmptySeq DEF Line
<1>3. Prefix(l \o <<>>, Len(l)) = l /\ Suffix(l \o <<>>, Len(l)) = <<>>
  BY <1>1, LineSides
<1>4. Prefix(<<>> \o l, Len(<<>>)) = <<>> /\ Suffix(<<>> \o l, Len(<<>>)) = l
  BY <1>1, LineSides
<1> QED BY <1>2, <1>3, <1>4

\* The text behind the end of a line begins with a newline.
LineEnd(t, l) == TextFrom(t, <<l, Len(t[l])>>) = Newline \oplus SubSeq(t, l + 1, Len(t))
                 /\ SubSeq(t, l + 1, Len(t)) \in Texts

LEMMA NextLine ==
  ASSUME NEW t \in Texts, NEW l \in 1..Len(t), l < Len(t)
  PROVE  LineEnd(t, l)
<1> DEFINE C == SubSeq(t, l + 1, Len(t))
<1>1. t \in Lines /\ Len(t) \in Nat
  BY TextLen
<1>2. C \in Lines /\ Len(C) = Len(t) - l
  BY <1>1, Around
<1>3. t[l] \in Line
  BY <1>1, LineIn
<1> HIDE DEF C
<1>4. C \in Texts
  <2>1. C # <<>>
    BY <1>1, <1>2, EmptySeq
  <2> QED BY <1>2, <2>1 DEF Texts, Lines
<1>5. TextFrom(t, <<l, Len(t[l])>>) = <<(<<>>)>> \o C
  <2>1. Suffix(t[l], Len(t[l])) = <<>>
    BY <1>3, LineEnds
  <2> QED BY <2>1 DEF TextFrom, C
<1>6. Newline \oplus C = <<(<<>>)>> \o C
  BY <1>4, NewlineBefore
<1> QED BY <1>4, <1>5, <1>6 DEF LineEnd, C

\* The text behind a position within a line begins with a character.
CharAfter(t, p) ==
    LET c == SubSeq(t[p[1]], p[2] + 1, p[2] + 1)
        q == <<p[1], p[2] + 1>>
    IN  /\ c \in Line /\ Len(c) = 1
        /\ TextFrom(t, p) = <<c>> \oplus TextFrom(t, q)
        /\ q \in PositionsOf(t)

LEMMA NextChar ==
  ASSUME NEW t \in Texts, NEW p \in PositionsOf(t), p[2] < Len(t[p[1]])
  PROVE  CharAfter(t, p)
<1> DEFINE l == t[p[1]]
           x == p[2]
           c == SubSeq(l, x + 1, x + 1)
           q == <<p[1], x + 1>>
           C == SubSeq(t, p[1] + 1, Len(t))
           y == x + 1
           d == Suffix(l, y)
<1>1. p = <<p[1], x>> /\ p[1] \in 1..Len(t) /\ x \in 0..Len(l) /\ t \in Lines
  BY PlaceIn, TextLen
<1>2. l \in Line /\ Len(l) \in Nat
  BY <1>1, LineIn
<1>3. y \in 0..Len(l) /\ q \in PositionsOf(t)
  <2>1. y \in 0..Len(l)
    BY <1>1, <1>2
  <2> QED BY <1>1, <2>1, Place
<1>4. C \in Lines
  BY <1>1, Around
<1>5. d \in Line
  BY <1>2, <1>3, Sides
<1>6. c \in Line /\ Len(c) = 1
  <2>1. \A i \in y..y : l[i] \in Chars \cup Blanks
    BY <1>1, <1>2, ElementOfSeq DEF Line
  <2>2. c \in Seq(Chars \cup Blanks) /\ Len(c) = 1
    <3>1. SubSeq(l, y, y) \in Seq(Chars \cup Blanks) /\ Len(SubSeq(l, y, y)) = IF y <= y THEN y - y + 1 ELSE 0
      <4>1. y \in Int
        BY <1>3
      <4> HIDE DEF y, l
      <4> QED BY ONLY <2>1, <4>1, SubSeqProperties
    <3> QED BY <1>3, <3>1
  <2> QED BY <2>2 DEF Line
<1>7. Suffix(l, x) = c \o d
  <2>1. y \in 1..Len(l) + 1 /\ y \in y - 1..Len(l) /\ Len(l) \in y..Len(l) /\ l \in Seq(Chars \cup Blanks)
    BY <1>1, <1>2, <1>3 DEF Line
  <2>2. SubSeq(l, y, y) \o SubSeq(l, y + 1, Len(l)) = SubSeq(l, y, Len(l))
    <3> HIDE DEF y, l
    <3> QED BY ONLY <2>1, ConcatAdjacentSubSeq
  <2> QED BY <2>2 DEF Suffix
<1>8. TextFrom(t, p) = <<Suffix(l, x)>> \o C /\ TextFrom(t, q) = <<d>> \o C
  BY DEF TextFrom
<1>9. <<c>> \oplus (<<d>> \o C) = <<c \o d>> \o C
  <2> HIDE DEF c, d, C
  <2> QED BY <1>4, <1>5, <1>6, WordBefore
<1>10. TextFrom(t, p) = <<c>> \oplus TextFrom(t, q)
  <2> HIDE DEF c, d, C, l, x, q
  <2> QED BY <1>7, <1>8, <1>9
<1> QED BY <1>3, <1>6, <1>10 DEF CharAfter

\* Texts without a newline, and a newline, as positions and sizes count them.
LEMMA UnitSize ==
  /\ TotSize(Unit) = 0 /\ TotSize(Newline) = 1
  /\ Len(Newline) = 2 /\ Newline[Len(Newline)] = <<>>
  /\ \A l \in Line : TotSize(<<l>>) = Len(l)
<1>1. <<>> \in Line /\ Len(<<>>) = 0 /\ <<(<<>>)>> \in Lines
  BY UnitIn, OneIn, EmptySeq
<1>2. TotSize(<<(<<>>)>>) = 0
  BY <1>1, SizeOne
<1>3. Newline = <<(<<>>)>> \o <<(<<>>)>>
  BY DEF Newline
<1>4. TotSize(<<(<<>>)>> \o <<(<<>>)>>) = 0 + 0 + 1
  BY <1>1, <1>2, SizeConcat
<1>5. Len(Newline) = 2 /\ Newline[2] = <<>>
  BY DEF Newline
<1> QED BY <1>2, <1>3, <1>4, <1>5, SizeOne DEF Unit

LEMMA EndOfLine ==
  ASSUME NEW p, NEW w \in Line
  PROVE  EndOf(p, <<w>>) = <<p[1], p[2] + Len(w)>>
BY DEF EndOf

LEMMA EndOfNewline ==
  ASSUME NEW p, p[1] \in Int
  PROVE  EndOf(p, Newline) = <<p[1] + 1, 0>>
<1>1. Len(Newline) # 1 /\ p[1] + Len(Newline) - 1 = p[1] + 1 /\ Len(Newline[Len(Newline)]) = 0
  BY UnitSize, EmptySeq
<1> QED BY <1>1 DEF EndOf

\* Where positions behind an edit come to lie.
ShiftIs(B, Y, R, F) ==
    /\ End(B \oplus (Y \oplus R)) = EndOf(EndOf(End(B), Y), R)
    /\ EndOf(EndOf(End(B), Y), R) \in PositionsOf(B \oplus (Y \oplus (R \oplus F)))

LEMMA Shift == \A B, Y, R, F \in Texts : ShiftIs(B, Y, R, F)
<1> TAKE B, Y, R, F \in Texts
<1>1. B \oplus Y \in Texts /\ Y \oplus R \in Texts /\ R \oplus F \in Texts
  BY AttachIn
<1> DEFINE BY_ == B \oplus Y
           RF == R \oplus F
<1>2. B \oplus (Y \oplus R) = BY_ \oplus R
  BY AttachAssoc
<1>3. B \oplus (Y \oplus RF) = BY_ \oplus RF
  BY <1>1, AttachAssoc
<1>4. End(BY_) = EndOf(End(B), Y)
  BY EndPlus
<1> HIDE DEF BY_
<1>5. End(BY_ \oplus R) = EndOf(End(BY_), R) /\ BY_ \in Texts /\ BY_ \oplus R \in Texts
  BY <1>1, EndPlus, AttachIn DEF BY_
<1>6. (BY_ \oplus R) \oplus F = BY_ \oplus RF
  BY <1>5, AttachAssoc
<1>7. End(BY_ \oplus R) \in PositionsOf((BY_ \oplus R) \oplus F)
  <2> DEFINE G == BY_ \oplus R
  <2>1. G \in Texts
    BY <1>5
  <2> HIDE DEF G
  <2>2. End(G) \in PositionsOf(G \oplus F)
    BY <2>1, EndPosition
  <2> QED BY <2>2 DEF G
<1> QED BY <1>2, <1>3, <1>4, <1>5, <1>6, <1>7 DEF ShiftIs

\* A position that is not behind the end of B is one of B; another one is the end of B and more.
LEMMA Behind ==
  ASSUME NEW B \in Texts, NEW F \in Texts, NEW m \in PositionsOf(B \oplus F)
  PROVE  \/ ~Before(End(B), m) /\ m \in PositionsOf(B)
         \/ /\ Before(End(B), m)
            /\ \E R, G \in Texts : F = R \oplus G /\ m = EndOf(End(B), R) /\ R # Unit
<1> DEFINE t == B \oplus F
           p == End(B)
<1>1. t \in Texts /\ p \in PositionsOf(t) /\ TextBefore(t, p) = B /\ TextFrom(t, p) = F
  BY AttachIn, Parted
<1>2. CASE ~Before(p, m)
  <2>1. m \in PositionsOf(TextBefore(t, p))
    <3> HIDE DEF t, p
    <3> QED BY <1>1, <1>2, PlaceOrder DEF t
  <2> QED BY <1>1, <1>2, <2>1
<1>3. CASE Before(p, m)
  <2> HIDE DEF t, p
  <2>1. m \in PositionsOf(t)
    BY DEF t
  <2>2. ~Before(m, p)
    BY <1>1, <2>1, PlaceIn, <1>3 DEF Before
  <2>3. Between(t, p, m)
    BY <1>1, <2>1, <2>2, PlacesBetween
  <2> DEFINE R == Region(t, p, m)
             G == TextFrom(t, m)
  <2>4. R \in Texts /\ TextBefore(t, m) = B \oplus R /\ F = R \oplus G
    BY <1>1, <2>3 DEF Between
  <2>5. G \in Texts /\ End(TextBefore(t, m)) = m
    BY <1>1, <2>1, TakenApart
  <2> HIDE DEF R, G
  <2>6. m = EndOf(p, R)
    BY <2>4, <2>5, EndPlus DEF p
  <2>7. R # Unit
    <3>1. SUFFICES ASSUME R = Unit PROVE FALSE
      OBVIOUS
    <3>2. B \oplus R = B
      BY <3>1, UnitRight
    <3>3. m = p
      BY <2>4, <2>5, <3>2 DEF p
    <3>4. p[1] \in Int /\ p[2] \in Int
      BY <1>1, PlaceIn
    <3> QED BY <1>3, <3>3, <3>4 DEF Before
  <2> QED BY <1>3, <2>4, <2>5, <2>6, <2>7 DEF p
<1> QED BY <1>2, <1>3

LEMMA FirstPlaces ==
  ASSUME NEW B \in Texts, NEW F \in Texts, NEW m \in PositionsOf(B)
  PROVE  m \in PositionsOf(B \oplus F)
<1>1. Contained(B, F, m)
  BY PlaceBefore
<1> QED BY <1>1 DEF Contained

LEMMA PlaceInts ==
  ASSUME NEW t \in Texts, NEW p \in PositionsOf(t)
  PROVE  p \in Int \X Int /\ p[1] \in Nat \ {0} /\ p[2] \in Nat /\ p = <<p[1], p[2]>>
<1>1. p = <<p[1], p[2]>> /\ p[1] \in 1..Len(t) /\ p[2] \in 0..Len(t[p[1]])
  BY PlaceIn
<1>2. t \in Lines /\ Len(t) \in Nat
  BY TextLen
<1>3. Len(t[p[1]]) \in Nat
  BY <1>1, <1>2, LineIn
<1> QED BY <1>1, <1>2, <1>3

\* How far a text moves a position: n lines down, and k characters in.
Moves(R, n, k) ==
    /\ n \in Nat /\ k \in Nat
    /\ \A p \in Int \X Int : EndOf(p, R) = IF n = 0 THEN <<p[1], p[2] + k>> ELSE <<p[1] + n, k>>
    /\ R # Unit => n > 0 \/ k > 0

LEMMA HowFar ==
  ASSUME NEW R \in Texts
  PROVE  \E n, k \in Nat : Moves(R, n, k)
<1>1. Len(R) \in Nat \ {0} /\ R \in Lines
  BY TextLen
<1>2. Len(R[1]) \in Nat /\ Len(R[Len(R)]) \in Nat
  BY <1>1, LineIn
<1> DEFINE n == Len(R) - 1
           k == Len(R[Len(R)])
<1>3. n \in Nat /\ k \in Nat
  BY <1>1, <1>2
<1>4. ASSUME NEW p \in Int \X Int
      PROVE  EndOf(p, R) = IF n = 0 THEN <<p[1], p[2] + k>> ELSE <<p[1] + n, k>>
  <2>1. CASE Len(R) = 1
    BY <1>1, <2>1 DEF EndOf
  <2>2. CASE Len(R) # 1
    BY <1>1, <2>2 DEF EndOf
  <2> QED BY <2>1, <2>2
<1>5. ASSUME R # Unit PROVE n > 0 \/ k > 0
  <2>1. ASSUME n = 0, k = 0 PROVE FALSE
    <3>1. PICK A \in Lines, a \in Line : R = A \o <<a>>
      BY LastLine
    <3>2. Len(A \o <<a>>) = Len(A) + 1 /\ (A \o <<a>>)[Len(A) + 1] = a /\ Len(A) \in Nat
      BY EndIs, LenNat DEF Lines
    <3>3. Len(A) = 0 /\ Len(a) = 0
      <4>1. Len(R) = Len(A) + 1 /\ R[Len(A) + 1] = a
        BY <3>1, <3>2
      <4>2. Len(R) = 1
        BY <1>1, <2>1
      <4>3. Len(A) + 1 = 1 /\ Len(A) \in Nat
        BY <3>2, <4>1, <4>2
      <4>4. Len(A) = 0
        BY ONLY <4>3
      <4> QED BY <2>1, <4>1, <4>2, <4>4
    <3>4. A = <<>> /\ a = <<>>
      BY <3>3, EmptySeq DEF Line, Lines
    <3>5. <<>> \o <<(<<>>)>> = <<(<<>>)>>
      BY UnitIn, OneIn, ConcatEmptySeq DEF Lines
    <3> QED BY <1>5, <3>1, <3>4, <3>5 DEF Unit
  <2> QED BY <1>3, <2>1
<1> HIDE DEF n, k
<1> QED BY <1>3, <1>4, <1>5 DEF Moves

LEMMA EndInts ==
  ASSUME NEW t \in Texts
  PROVE  End(t) \in Int \X Int
<1> QED BY EndIn

\* What is at or behind the end of B and X.
LEMMA Beyond ==
  ASSUME NEW B \in Texts, NEW F \in Texts, NEW m \in PositionsOf(B \oplus F), ~Before(m, End(B))
  PROVE  \E R, G \in Texts : F = R \oplus G /\ m = EndOf(End(B), R)
<1>1. CASE Before(End(B), m)
  BY <1>1, Behind
<1>2. CASE ~Before(End(B), m)
  <2>1. End(B) \in Int \X Int /\ m \in Int \X Int /\ m = <<m[1], m[2]>>
    BY EndInts, PlaceInts, AttachIn
  <2>2. m[1] = End(B)[1] /\ m[2] = End(B)[2]
    BY <1>2, <2>1 DEF Before
  <2>3. m = End(B)
    BY <2>1, <2>2
  <2>4. End(B \oplus Unit) = EndOf(End(B), Unit) /\ B \oplus Unit = B /\ Unit \oplus F = F /\ Unit \in Texts
    BY UnitIn, UnitRight, UnitLeft, EndPlus
  <2> QED BY <2>3, <2>4
<1> QED BY <1>1, <1>2

\* Positions behind an edit move with what is behind it, and others stay.
TypedMark(m, p) == IF m[1] = p[1] /\ p[2] < m[2] THEN <<m[1], m[2] + 1>> ELSE m
DeletedMark(m, p) == IF m[1] = p[1] /\ p[2] < m[2] THEN <<m[1], m[2] - 1>> ELSE m
BrokenMark(m, p) ==
    IF m[1] = p[1] /\ p[2] < m[2] THEN <<m[1] + 1, m[2] - p[2]>>
    ELSE IF m[1] > p[1] THEN <<m[1] + 1, m[2]>> ELSE m
JoinedMark(m, p) ==
    IF m[1] = p[1] + 1 THEN <<p[1], m[2] + p[2]>>
    ELSE IF m[1] > p[1] + 1 THEN <<m[1] - 1, m[2]>> ELSE m

LEMMA MarkTyped ==
  ASSUME NEW B \in Texts, NEW F \in Texts, NEW w \in Line, Len(w) = 1
  PROVE  \A m \in PositionsOf(B \oplus F) :
            TypedMark(m, End(B)) \in PositionsOf(B \oplus (<<w>> \oplus F))
<1> TAKE m \in PositionsOf(B \oplus F)
<1> DEFINE p == End(B)
           W == <<w>>
<1>1. p \in Int \X Int /\ m \in Int \X Int /\ m = <<m[1], m[2]>> /\ W \in Texts /\ W \oplus F \in Texts
  BY EndInts, PlaceInts, AttachIn, OneIn
<1>2. EndOf(p, W) = <<p[1], p[2] + 1>>
  BY EndOfLine
<1>3. CASE ~Before(p, m) /\ m \in PositionsOf(B)
  <2>1. TypedMark(m, p) = m
    BY <1>1, <1>3 DEF Before, TypedMark
  <2>2. m \in PositionsOf(B \oplus (W \oplus F))
    <3> HIDE DEF W
    <3> QED BY <1>1, <1>3, FirstPlaces
  <2> QED BY <2>1, <2>2
<1>4. CASE Before(p, m) /\ \E R, G \in Texts : F = R \oplus G /\ m = EndOf(p, R) /\ R # Unit
  <2>1. PICK R, G \in Texts : F = R \oplus G /\ m = EndOf(p, R) /\ R # Unit
    BY <1>4
  <2>2. PICK n, k \in Nat : Moves(R, n, k)
    BY HowFar
  <2> HIDE DEF W, p
  <2>3. ShiftIs(B, W, R, G)
    BY <1>1, Shift
  <2>4. EndOf(EndOf(p, W), R) \in PositionsOf(B \oplus (W \oplus F))
    BY <2>1, <2>3 DEF ShiftIs, p
  <2>5. EndOf(p, R) = (IF n = 0 THEN <<p[1], p[2] + k>> ELSE <<p[1] + n, k>>) /\ n \in Nat /\ k \in Nat
        /\ (n > 0 \/ k > 0)
    BY <1>1, <2>1, <2>2 DEF Moves
  <2>6. <<p[1], p[2] + 1>> \in Int \X Int
    BY <1>1
  <2>7. EndOf(<<p[1], p[2] + 1>>, R) = IF n = 0 THEN <<p[1], p[2] + 1 + k>> ELSE <<p[1] + n, k>>
    BY <2>2, <2>6 DEF Moves
  <2>8. TypedMark(m, p) = EndOf(<<p[1], p[2] + 1>>, R)
    <3>1. CASE n = 0
      BY <1>1, <2>1, <2>5, <3>1, <2>7 DEF TypedMark
    <3>2. CASE n # 0
      BY <1>1, <2>1, <2>5, <3>2, <2>7 DEF TypedMark
    <3> QED BY <3>1, <3>2
  <2> QED BY <1>2, <2>4, <2>8 DEF p, W
<1>5. \/ ~Before(p, m) /\ m \in PositionsOf(B)
      \/ Before(p, m) /\ \E R, G \in Texts : F = R \oplus G /\ m = EndOf(p, R) /\ R # Unit
  <2> HIDE DEF W
  <2> QED BY Behind
<1> QED BY <1>3, <1>4, <1>5

LEMMA MarkDeleted ==
  ASSUME NEW B \in Texts, NEW F \in Texts, NEW w \in Line, Len(w) = 1
  PROVE  \A m \in PositionsOf(B \oplus (<<w>> \oplus F)) :
            DeletedMark(m, End(B)) \in PositionsOf(B \oplus F)
<1> TAKE m \in PositionsOf(B \oplus (<<w>> \oplus F))
<1> DEFINE p == End(B)
           W == <<w>>
           q == <<p[1], p[2] + 1>>
           X == B \oplus W
<1>1. /\ p \in Int \X Int /\ W \in Texts /\ W \oplus F \in Texts /\ X \in Texts
      /\ m \in Int \X Int /\ m = <<m[1], m[2]>>
  BY EndInts, PlaceInts, AttachIn, OneIn
<1>2. EndOf(p, W) = q
  BY EndOfLine
<1>3. End(X) = q /\ B \oplus (W \oplus F) = X \oplus F
  <2> HIDE DEF q, W, p
  <2> QED BY <1>1, <1>2, EndPlus, AttachAssoc DEF p
<1>4. CASE ~Before(p, m)
  <2>1. DeletedMark(m, p) = m
    BY <1>1, <1>4 DEF Before, DeletedMark
  <2>2. m \in PositionsOf(B)
    <3> HIDE DEF W
    <3> QED BY <1>1, <1>4, Behind DEF W
  <2> QED BY <2>1, <2>2, FirstPlaces
<1>5. CASE Before(p, m)
  <2>1. ~Before(m, q)
    BY <1>1, <1>5 DEF Before
  <2>2. \E R, G \in Texts : F = R \oplus G /\ m = EndOf(q, R)
    <3> HIDE DEF X, q
    <3>1. m \in PositionsOf(X \oplus F)
      BY <1>3
    <3> QED BY <1>1, <1>3, <2>1, <3>1, Beyond
  <2>3. PICK R, G \in Texts : F = R \oplus G /\ m = EndOf(q, R)
    BY <2>2
  <2>4. PICK n, k \in Nat : Moves(R, n, k)
    BY HowFar
  <2>5. EndOf(p, R) \in PositionsOf(B \oplus F)
    <3>1. End(B \oplus R) = EndOf(p, R) /\ B \oplus R \in Texts /\ B \oplus F = (B \oplus R) \oplus G
      BY <2>3, EndPlus, AttachIn, AttachAssoc
    <3> DEFINE S == B \oplus R
    <3> HIDE DEF S, p
    <3>2. End(S) \in PositionsOf(S \oplus G)
      BY <3>1, EndPosition DEF S
    <3> QED BY <3>1, <3>2 DEF S
  <2>6. q \in Int \X Int
    BY <1>1
  <2>7. EndOf(p, R) = (IF n = 0 THEN <<p[1], p[2] + k>> ELSE <<p[1] + n, k>>) /\ n \in Nat /\ k \in Nat
    BY <1>1, <2>4 DEF Moves
  <2>8. EndOf(q, R) = IF n = 0 THEN <<p[1], p[2] + 1 + k>> ELSE <<p[1] + n, k>>
    BY <2>4, <2>6 DEF Moves
  <2>9. DeletedMark(m, p) = EndOf(p, R)
    <3> HIDE DEF p, q
    <3>1. CASE n = 0
      BY <1>1, <2>3, <2>7, <2>8, <3>1 DEF DeletedMark
    <3>2. CASE n # 0
      BY <1>1, <2>3, <2>7, <2>8, <3>2 DEF DeletedMark
    <3> QED BY <3>1, <3>2
  <2> QED BY <2>5, <2>9
<1> QED BY <1>4, <1>5

LEMMA MarkBroken ==
  ASSUME NEW B \in Texts, NEW F \in Texts, NEW m \in PositionsOf(B \oplus F)
  PROVE  BrokenMark(m, End(B)) \in PositionsOf(B \oplus (Newline \oplus F))
<1> DEFINE p == End(B)
           q == <<p[1] + 1, 0>>
<1>1. p \in Int \X Int /\ m \in Int \X Int /\ m = <<m[1], m[2]>> /\ Newline \in Texts /\ Newline \oplus F \in Texts
  BY EndInts, PlaceInts, AttachIn, UnitIn
<1>2. EndOf(p, Newline) = q
  <2>1. p[1] \in Int
    BY <1>1
  <2> HIDE DEF p
  <2> QED BY <2>1, EndOfNewline
<1>3. CASE ~Before(p, m) /\ m \in PositionsOf(B)
  BY <1>1, <1>3, FirstPlaces DEF Before, BrokenMark
<1>4. CASE Before(p, m) /\ \E R, G \in Texts : F = R \oplus G /\ m = EndOf(p, R) /\ R # Unit
  <2>1. PICK R, G \in Texts : F = R \oplus G /\ m = EndOf(p, R) /\ R # Unit
    BY <1>4
  <2>2. PICK n, k \in Nat : Moves(R, n, k)
    BY HowFar
  <2>3. ShiftIs(B, Newline, R, G)
    BY <1>1, Shift
  <2>4. EndOf(q, R) \in PositionsOf(B \oplus (Newline \oplus F))
    BY <1>2, <2>1, <2>3 DEF ShiftIs
  <2>5. EndOf(p, R) = (IF n = 0 THEN <<p[1], p[2] + k>> ELSE <<p[1] + n, k>>) /\ n \in Nat /\ k \in Nat
        /\ (n > 0 \/ k > 0)
    BY <1>1, <2>1, <2>2 DEF Moves
  <2>6. q \in Int \X Int
    BY <1>1
  <2>7. EndOf(q, R) = IF n = 0 THEN <<p[1] + 1, k>> ELSE <<p[1] + 1 + n, k>>
    BY <2>2, <2>6, <2>5 DEF Moves
  <2> HIDE DEF p, q
  <2>8. BrokenMark(m, p) = EndOf(q, R)
    <3>1. CASE n = 0
      BY <1>1, <2>1, <2>5, <3>1, <2>7 DEF BrokenMark
    <3>2. CASE n # 0
      BY <1>1, <2>1, <2>5, <3>2, <2>7 DEF BrokenMark
    <3> QED BY <3>1, <3>2
  <2> QED BY <2>4, <2>8 DEF p
<1> QED BY <1>3, <1>4, Behind

LEMMA MarkJoined ==
  ASSUME NEW B \in Texts, NEW F \in Texts, NEW m \in PositionsOf(B \oplus (Newline \oplus F))
  PROVE  JoinedMark(m, End(B)) \in PositionsOf(B \oplus F)
<1> DEFINE p == End(B)
           q == <<p[1] + 1, 0>>
           X == B \oplus Newline
           t == B \oplus (Newline \oplus F)
<1>1. /\ p \in Int \X Int /\ Newline \in Texts /\ Newline \oplus F \in Texts /\ X \in Texts /\ t \in Texts
      /\ m \in Int \X Int /\ m = <<m[1], m[2]>> /\ m[2] \in Nat
  BY EndInts, PlaceInts, AttachIn, UnitIn
<1>2. EndOf(p, Newline) = q
  <2>1. p[1] \in Int
    BY <1>1
  <2> HIDE DEF p
  <2> QED BY <2>1, EndOfNewline
<1>3. End(X) = q /\ t = X \oplus F
  <2> HIDE DEF q, p
  <2> QED BY <1>1, <1>2, EndPlus, AttachAssoc DEF p
<1>4. CASE ~Before(p, m)
  BY <1>1, <1>4, Behind, FirstPlaces DEF Before, JoinedMark
<1>5. CASE Before(p, m)
  <2>1. ~Before(m, q)
    <3>1. JoinIs(B, F)
      BY Joining
    <3>2. Len(t[p[1]]) = p[2]
      BY <3>1 DEF JoinIs
    <3>3. m[2] \in 0..Len(t[m[1]])
      BY <1>1, PlaceIn
    <3> HIDE DEF p, t
    <3>4. ~(m[1] = p[1] /\ p[2] < m[2])
      BY <1>1, <3>2, <3>3
    <3>5. m[1] > p[1]
      BY <1>1, <1>5, <3>4 DEF Before
    <3> QED BY <1>1, <3>5 DEF Before
  <2>2. \E R, G \in Texts : F = R \oplus G /\ m = EndOf(q, R)
    <3>1. m \in PositionsOf(X \oplus F)
      BY <1>3
    <3> HIDE DEF X, q
    <3> QED BY <1>1, <1>3, <2>1, <3>1, Beyond
  <2>3. PICK R, G \in Texts : F = R \oplus G /\ m = EndOf(q, R)
    BY <2>2
  <2>4. PICK n, k \in Nat : Moves(R, n, k)
    BY HowFar
  <2>5. EndOf(p, R) \in PositionsOf(B \oplus F)
    <3>1. End(B \oplus R) = EndOf(p, R) /\ B \oplus R \in Texts /\ B \oplus F = (B \oplus R) \oplus G
      BY <2>3, EndPlus, AttachIn, AttachAssoc
    <3> DEFINE S == B \oplus R
    <3> HIDE DEF S, p
    <3>2. End(S) \in PositionsOf(S \oplus G)
      BY <3>1, EndPosition DEF S
    <3> QED BY <3>1, <3>2 DEF S
  <2>6. q \in Int \X Int
    BY <1>1
  <2>7. EndOf(p, R) = (IF n = 0 THEN <<p[1], p[2] + k>> ELSE <<p[1] + n, k>>) /\ n \in Nat /\ k \in Nat
    BY <1>1, <2>4 DEF Moves
  <2>8. EndOf(q, R) = IF n = 0 THEN <<p[1] + 1, k>> ELSE <<p[1] + 1 + n, k>>
    BY <2>4, <2>6, <2>7 DEF Moves
  <2>9. JoinedMark(m, p) = EndOf(p, R)
    <3> HIDE DEF p, q
    <3>1. CASE n = 0
      BY <1>1, <2>3, <2>7, <2>8, <3>1 DEF JoinedMark
    <3>2. CASE n # 0
      BY <1>1, <2>3, <2>7, <2>8, <3>2 DEF JoinedMark
    <3> QED BY <3>1, <3>2
  <2> QED BY <2>5, <2>9
<1> QED BY <1>4, <1>5

-----------------------------------------------------------------------------
(* Recording what is done, without undoing.                                *)

CursorIn(s) == s.cur \in 1..Len(s.lines) /\ s.x \in 0..Len(s.lines[s.cur])

\* Recording changes what is about undoing, and nothing else.
SameText(s, t) ==
    t = [s EXCEPT !.items = t.items, !.cu = t.cu, !.last = t.last, !.keep = t.keep]

\* Nothing is undone, and the last action is what the item on top of the stack is about.
TopOK(s) ==
    /\ s.cu = 1
    /\ s.items = <<>> => s.last = "OTHER"
    /\ s.items # <<>> => /\ s.last = s.items[1].type
                         /\ s.items[1].type \in {"BACK", "DEL"} => s.items[1].str # NULL

\* The line of that item exists.
TopLine(s) == s.items # <<>> => s.items[1].mlineno \in 1..Len(s.lines)

Actions == {"ADD", "BACK", "DEL", "CUT", "CUT_EOF", "PASTE", "ENTER", "SPLIT_END"}

LEMMA CursorPlace ==
  ASSUME NEW s \in States
  PROVE  (CursorIn(s) => InText(s, Cursor(s))) /\ (InText(s, Cursor(s)) => CursorIn(s))
<1>1. s.lines \in Texts
  BY DEF States
<1>2. CursorIn(s) => InText(s, Cursor(s))
  BY <1>1, Place DEF CursorIn, InText, Cursor
<1>3. InText(s, Cursor(s)) => CursorIn(s)
  BY <1>1, PlaceIn DEF Cursor, CursorIn, InText
<1> QED BY <1>2, <1>3

LEMMA CursorLine ==
  ASSUME NEW s \in States, CursorIn(s)
  PROVE  /\ CurLine(s) \in Line /\ Len(CurLine(s)) \in Nat /\ s.x \in Nat /\ s.cur \in Nat \ {0}
         /\ Len(s.lines) \in Nat \ {0} /\ s.lines \in Lines /\ s.x <= Len(CurLine(s))
<1>1. s.lines \in Texts
  BY DEF States
<1>2. s.lines \in Lines /\ Len(s.lines) \in Nat \ {0}
  BY <1>1, TextLen
<1>3. CurLine(s) \in Line /\ Len(CurLine(s)) \in Nat
  BY <1>2, LineIn DEF CursorIn, CurLine
<1> QED BY <1>2, <1>3 DEF CursorIn, CurLine

LEMMA CharIn ==
  ASSUME NEW l \in Line, NEW y \in 1..Len(l)
  PROVE  SubSeq(l, y, y) \in Line /\ <<SubSeq(l, y, y)>> \in Seq(Line)
<1>1. Len(l) \in Nat
  BY LenNat DEF Line
<1>2. \A i \in y..y : l[i] \in Chars \cup Blanks
  BY <1>1, ElementOfSeq DEF Line
<1>3. SubSeq(l, y, y) \in Seq(Chars \cup Blanks)
  BY <1>1, <1>2, SubSeqProperties
<1> QED BY <1>3 DEF Line

\* The item that add_undo makes.
NewItemIs(s, action) ==
    LET u == NewItem(s, action) IN
    /\ u \in Items
    /\ u.type = IF action \in {"BACK", "DEL"} /\ s.x = Len(CurLine(s)) THEN "JOIN" ELSE action
    /\ u.type \in {"BACK", "DEL"} => u.str # NULL
    /\ u.mlineno = IF action = "CUT" /\ s.mark # NoMark THEN s.mark[1] ELSE s.cur

LEMMA NewItemMade ==
  ASSUME NEW s \in States, NEW action \in Actions,
         /\ CursorIn(s)
         /\ action \in {"BACK", "DEL"} /\ s.x = Len(CurLine(s)) => s.cur < Len(s.lines)
  PROVE  NewItemIs(s, action)
<1> DEFINE b == BlankItem(s, action)
<1>1. /\ s.cur \in Int /\ s.x \in Int /\ s.cutbuf \in Seq(Line) /\ s.mark \in {NoMark} \cup (Int \X Int)
  BY DEF States
<1>2. NULL \in Seq(Line) /\ action \in ItemTypes
  BY DEF NULL, Actions, ItemTypes
<1>3. b \in Items /\ b.type = action /\ b.mlineno = s.cur
  BY <1>1, <1>2 DEF BlankItem, Items, XFlags
<1>4. CASE action \in {"BACK", "DEL"}
  <2> DEFINE f == IF /\ action = "BACK" /\ s.cur + 1 = Len(s.lines) /\ CurLine(s) # <<>>
                  THEN "WAS_FINAL_BACKSPACE" ELSE "NONE"
             c == <<SubSeq(CurLine(s), s.x + 1, s.x + 1)>>
             y == IF action = "BACK" THEN s.x + 1 ELSE s.x
             u == [b EXCEPT !.xflags = f]
  <2>1. NewItem(s, action) = DeletionItem(s, action)
    BY <1>4 DEF NewItem
  <2>2. f \in XFlags
    BY DEF XFlags
  <2>3. u \in Items /\ u.type = action /\ u.mlineno = s.cur
    <3> HIDE DEF f, b
    <3> QED BY <1>3, <2>2 DEF Items
  <2>4. CASE s.x # Len(CurLine(s))
    <3>1. CurLine(s) \in Line /\ s.x + 1 \in 1..Len(CurLine(s))
      BY CursorLine, <2>4
    <3>2. c \in Seq(Line)
      BY <3>1, CharIn
    <3>3. DeletionItem(s, action) = [u EXCEPT !.str = c, !.mx = y]
      BY <2>4 DEF DeletionItem
    <3>4. y \in Int /\ c # NULL
      BY <1>1 DEF NULL
    <3> HIDE DEF u, c, y, b
    <3>5. [u EXCEPT !.str = c, !.mx = y] \in Items /\ [u EXCEPT !.str = c, !.mx = y].type = action
          /\ [u EXCEPT !.str = c, !.mx = y].str = c /\ [u EXCEPT !.str = c, !.mx = y].mlineno = s.cur
      BY <2>3, <3>2, <3>4 DEF Items
    <3> QED BY <1>4, <2>1, <2>4, <3>3, <3>4, <3>5 DEF NewItemIs
  <2>5. CASE s.x = Len(CurLine(s))
    <3> DEFINE n == <<s.lines[s.cur + 1]>>
               l == IF action = "BACK" THEN s.cur + 1 ELSE s.cur
               z == IF action = "BACK" THEN 0 ELSE s.x
    <3>1. s.lines \in Lines /\ s.cur + 1 \in 1..Len(s.lines)
      BY CursorLine, <1>4, <2>5
    <3>2. n \in Seq(Line)
      BY <3>1, LineIn
    <3>3. DeletionItem(s, action) = [u EXCEPT !.type = "JOIN", !.str = n, !.lineno = l, !.begin = z]
      BY <2>5 DEF DeletionItem
    <3>4. l \in Int /\ z \in Int /\ "JOIN" \in ItemTypes
      BY <1>1 DEF ItemTypes
    <3> HIDE DEF u, n, l, z, b
    <3> DEFINE v == [u EXCEPT !.type = "JOIN", !.str = n, !.lineno = l, !.begin = z]
    <3>5. v \in Items /\ v.type = "JOIN" /\ v.mlineno = s.cur
      BY <2>3, <3>2, <3>4 DEF Items
    <3> HIDE DEF v
    <3> QED BY <1>4, <2>1, <2>5, <3>3, <3>5 DEF NewItemIs, v
  <2> QED BY <2>4, <2>5
<1>5. CASE action = "CUT"
  <2> DEFINE b1 == BlankItem(s, "CUT")
             v1 == [b1 EXCEPT !.mset = TRUE, !.mlineno = s.mark[1], !.mx = s.mark[2]]
             v2 == [b1 EXCEPT !.begin = 0, !.xflags = "WAS_WHOLE_LINE"]
  <2>1. NewItem(s, action) = CutItem(s)
    BY <1>5 DEF NewItem
  <2>2. b1 \in Items /\ b1.type = "CUT" /\ b1.mlineno = s.cur
    BY <1>3, <1>5
  <2>3. CutItem(s) = IF s.mark # NoMark THEN v1 ELSE IF ~CutToEnd THEN v2 ELSE b1
    BY DEF CutItem
  <2> HIDE DEF b1
  <2>4. CASE s.mark # NoMark
    <3>1. s.mark[1] \in Int /\ s.mark[2] \in Int
      BY <1>1, <2>4
    <3>2. v1 \in Items /\ v1.type = "CUT" /\ v1.mlineno = s.mark[1]
      BY <2>2, <3>1 DEF Items
    <3> HIDE DEF v1
    <3> QED BY <1>5, <2>1, <2>3, <2>4, <3>2 DEF NewItemIs
  <2>5. CASE s.mark = NoMark
    <3>1. v2 \in Items /\ v2.type = "CUT" /\ v2.mlineno = s.cur
      <4>1. "WAS_WHOLE_LINE" \in XFlags /\ 0 \in Int
        BY DEF XFlags
      <4> QED BY <2>2, <4>1 DEF Items
    <3> HIDE DEF v2
    <3> QED BY <1>5, <2>1, <2>2, <2>3, <2>5, <3>1 DEF NewItemIs
  <2> QED BY <2>4, <2>5
<1>6. CASE action = "PASTE"
  <2> DEFINE b1 == BlankItem(s, "PASTE")
             n == s.cur + Len(s.cutbuf) - 1
             v == [b1 EXCEPT !.buf = s.cutbuf, !.mset = TRUE, !.lineno = n]
  <2>1. NewItem(s, action) = v
    BY <1>6 DEF NewItem, PasteItem
  <2>2. b1 \in Items /\ b1.type = "PASTE" /\ b1.mlineno = s.cur
    BY <1>3, <1>6
  <2>3. n \in Int
    BY <1>1, LenNat
  <2> HIDE DEF b1, n
  <2>4. v \in Items /\ v.type = "PASTE" /\ v.mlineno = s.cur
    BY <1>1, <2>2, <2>3 DEF Items
  <2> HIDE DEF v
  <2> QED BY <1>6, <2>1, <2>4 DEF NewItemIs
<1>7. CASE action \notin {"BACK", "DEL", "CUT", "PASTE"}
  <2>1. NewItem(s, action) = b
    BY <1>7 DEF NewItem
  <2> HIDE DEF b
  <2> QED BY <1>3, <1>7, <2>1 DEF NewItemIs
<1> QED BY <1>4, <1>5, <1>6, <1>7

\* add_undo: an item of its own, or none.
AddedIs(s, action, t) ==
    /\ t \in States /\ SameText(s, t) /\ TopOK(t)
    /\ \/ t = s /\ (Contiguous(s, action) \/ DeletesFinalNewline(s, action))
       \/ /\ ~Contiguous(s, action) /\ ~DeletesFinalNewline(s, action)
          /\ t.items = <<NewItem(s, action)>> \o s.items
          /\ t.items # <<>> /\ t.items[1] = NewItem(s, action)
          /\ t.keep = (s.keep /\ action \notin {"CUT", "CUT_EOF"})

LEMMA AddUndoDone ==
  ASSUME NEW s \in States, NEW action \in Actions,
         /\ CursorIn(s) /\ TopOK(s)
         /\ action \in {"BACK", "DEL"} /\ s.x = Len(CurLine(s)) => s.cur < Len(s.lines)
  PROVE  AddedIs(s, action, AddUndo(s, action))
<1> DEFINE t == AddUndo(s, action)
           u == NewItem(s, action)
<1>1. CASE Contiguous(s, action) \/ DeletesFinalNewline(s, action)
  <2>1. t = s
    BY <1>1 DEF AddUndo
  <2>2. SameText(s, s)
    BY DEF SameText, States
  <2> HIDE DEF t
  <2> QED BY <1>1, <2>1, <2>2 DEF AddedIs, t
<1>2. CASE ~(Contiguous(s, action) \/ DeletesFinalNewline(s, action))
  <2> DEFINE its == <<u>> \o s.items
             k == s.keep /\ action \notin {"CUT", "CUT_EOF"}
  <2>1. SubSeq(s.items, s.cu, Len(s.items)) = s.items /\ s.items \in Seq(Items) /\ s.keep \in BOOLEAN
    BY SubSeqFull DEF States, TopOK
  <2>2. t = [s EXCEPT !.items = its, !.cu = 1, !.last = u.type, !.keep = k]
    BY <1>2, <2>1 DEF AddUndo
  <2>3. NewItemIs(s, action)
    BY NewItemMade
  <2>4. u \in Items /\ u.type \in ItemTypes /\ (u.type \in {"BACK", "DEL"} => u.str # NULL)
    BY <2>3 DEF NewItemIs, Items
  <2> HIDE DEF u
  <2>5. its \in Seq(Items) /\ its # <<>> /\ its[1] = u
    <3>1. <<u>> \in Seq(Items) /\ Len(<<u>>) = 1 /\ <<u>>[1] = u /\ Len(s.items) \in Nat
      BY <2>1, <2>4, LenNat
    <3>2. its \in Seq(Items) /\ Len(its) = 1 + Len(s.items) /\ \A i \in 1..1 + Len(s.items) :
            its[i] = IF i <= 1 THEN <<u>>[i] ELSE s.items[i - 1]
      BY <2>1, <3>1, ConcatProperties
    <3> HIDE DEF its
    <3> QED BY <3>1, <3>2, EmptySeq
  <2> HIDE DEF its, t
  <2>6. k \in BOOLEAN
    BY <2>1
  <2> HIDE DEF k
  <2>7. t \in States /\ t.items = its /\ t.cu = 1 /\ t.last = u.type /\ t.keep = k
    BY <2>2, <2>4, <2>5, <2>6 DEF States
  <2>8. SameText(s, t)
    BY <2>2, <2>7 DEF SameText
  <2>9. TopOK(t)
    BY <2>4, <2>5, <2>7 DEF TopOK
  <2> QED BY <1>2, <2>5, <2>7, <2>8, <2>9 DEF AddedIs, t, u, its, k
<1> QED BY <1>1, <1>2

\* Another item on top of the stack, of the same type.
TopSetIs(s, v) ==
    LET t == [s EXCEPT !.items[1] = v] IN
    /\ t \in States /\ SameText(s, t) /\ TopOK(t)
    /\ t.items # <<>> /\ t.items[1] = v /\ t.keep = s.keep
    /\ Len(t.items) = Len(s.items) /\ \A i \in 2..Len(s.items) : t.items[i] = s.items[i]

LEMMA TopSet ==
  ASSUME NEW s \in States, NEW v \in Items,
         /\ TopOK(s) /\ s.items # <<>> /\ v.type = s.items[1].type
         /\ v.type \in {"BACK", "DEL"} => v.str # NULL
  PROVE  TopSetIs(s, v)
<1> DEFINE its == [s.items EXCEPT ![1] = v]
           t == [s EXCEPT !.items[1] = v]
<1>1. s.items \in Seq(Items)
  BY DEF States
<1>2. Len(s.items) \in Nat \ {0} /\ 1 \in 1..Len(s.items)
  BY <1>1, LenNat
<1>3. its \in Seq(Items) /\ Len(its) = Len(s.items)
      /\ \A i \in 1..Len(s.items) : its[i] = IF i = 1 THEN v ELSE s.items[i]
  BY <1>1, <1>2, ExceptSeq
<1>4. its[1] = v /\ its # <<>> /\ \A i \in 2..Len(s.items) : its[i] = s.items[i]
  <2> HIDE DEF its
  <2> QED BY <1>2, <1>3, EmptySeq
<1>5. t = [s EXCEPT !.items = its]
  BY DEF States
<1> HIDE DEF its, t
<1>6. t \in States /\ t.items = its /\ t.cu = s.cu /\ t.last = s.last /\ t.keep = s.keep
  BY <1>3, <1>5 DEF States
<1>7. SameText(s, t)
  BY <1>5, <1>6 DEF SameText, States
<1>8. TopOK(t)
  BY <1>4, <1>6 DEF TopOK
<1> QED BY <1>3, <1>4, <1>6, <1>7, <1>8 DEF TopSetIs, t

LEMMA TopItem ==
  ASSUME NEW s \in States, TopOK(s) /\ s.last # "OTHER"
  PROVE  s.items # <<>> /\ s.items[1] \in Items /\ CurUndo(s) = s.items[1] /\ s.last = s.items[1].type
<1>1. s.items \in Seq(Items) /\ s.items # <<>> /\ s.cu = 1 /\ s.last = s.items[1].type
  BY DEF States, TopOK
<1>2. Len(s.items) \in Nat \ {0} /\ 1 \in 1..Len(s.items)
  BY <1>1, LenNat
<1>3. s.items[1] \in Items
  BY <1>1, <1>2, ElementOfSeq
<1> QED BY <1>1, <1>3 DEF CurUndo

\* update_undo, for what is typed, deleted, broken and pasted.
UpdatedIs(s, t) ==
    /\ t \in States /\ SameText(s, t) /\ TopOK(t)
    /\ TopLine(s) => TopLine(t)

LEMMA AddedUpdates ==
  ASSUME NEW s \in States, NEW action \in Actions, NEW t,
         AddedIs(s, action, t) /\ NewItemIs(s, action) /\ CursorIn(s) /\ action # "CUT"
  PROVE  UpdatedIs(s, t)
<1>1. t.lines = s.lines
  BY DEF AddedIs, SameText, States
<1>2. NewItem(s, action).mlineno = s.cur
  BY DEF NewItemIs
<1>3. TopLine(s) => TopLine(t)
  BY <1>1, <1>2 DEF TopLine, AddedIs, CursorIn
<1> QED BY <1>3 DEF AddedIs, UpdatedIs

LEMMA TopUpdates ==
  ASSUME NEW s \in States, NEW v \in Items,
         /\ TopOK(s) /\ s.items # <<>> /\ v.type = s.items[1].type
         /\ v.type \in {"BACK", "DEL"} => v.str # NULL
         /\ v.mlineno = s.items[1].mlineno \/ v.mlineno \in 1..Len(s.lines)
  PROVE  UpdatedIs(s, [s EXCEPT !.items[1] = v])
<1> DEFINE t == [s EXCEPT !.items[1] = v]
<1>1. TopSetIs(s, v)
  BY TopSet
<1>2. t \in States /\ SameText(s, t) /\ TopOK(t) /\ t.items[1] = v
  BY <1>1 DEF TopSetIs
<1>3. t.lines = s.lines
  BY DEF States
<1> HIDE DEF t
<1>4. TopLine(s) => TopLine(t)
  BY <1>2, <1>3 DEF TopLine
<1> QED BY <1>2, <1>4 DEF UpdatedIs, t

LEMMA UpdateUndoDone ==
  ASSUME NEW s \in States, NEW action \in {"ADD", "BACK", "DEL", "PASTE", "ENTER"},
         /\ CursorIn(s) /\ TopOK(s)
         /\ action \in {"BACK", "DEL"} => s.x < Len(CurLine(s))
         /\ action = "ADD" /\ s.last = "ADD" => s.items[1].mx \in 0..Len(CurLine(s)) - 1
  PROVE  UpdatedIs(s, UpdateUndo(s, action))
<1>1. /\ CurLine(s) \in Line /\ Len(CurLine(s)) \in Nat /\ s.x \in Nat /\ s.cur \in Nat \ {0}
      /\ s.x <= Len(CurLine(s)) /\ s.cur \in 1..Len(s.lines)
  BY CursorLine DEF CursorIn
<1>2. action \in Actions
  BY DEF Actions
<1>3. UpdatedIs(s, AddUndo(s, action))
  <2>1. AddedIs(s, action, AddUndo(s, action)) /\ NewItemIs(s, action)
    BY <1>1, <1>2, AddUndoDone, NewItemMade
  <2> QED BY <1>2, <2>1, AddedUpdates
<1>4. CASE action # s.last \/ (action \notin {"ENTER", "CUT"} /\ s.cur # CurUndo(s).lineno)
  <2>1. UpdateUndo(s, action) = AddUndo(s, action)
    BY <1>4 DEF UpdateUndo
  <2> QED BY <1>3, <2>1
<1>5. CASE ~(action # s.last \/ (action \notin {"ENTER", "CUT"} /\ s.cur # CurUndo(s).lineno))
  <2> DEFINE u == s.items[1]
             c == SubSeq(CurLine(s), s.x + 1, s.x + 1)
  <2>1. s.items # <<>> /\ u \in Items /\ u.type = action
    BY <1>5, TopItem
  <2> HIDE DEF u
  <2>2. UpdateUndo(s, action) =
          CASE u.type = "ADD" -> [s EXCEPT !.items[1] = GrownAdd(s, u)]
            [] u.type \in {"BACK", "DEL"} ->
                 IF s.x \in {u.begin, u.begin - 1} THEN [s EXCEPT !.items[1] = GrownDeletion(s, u)]
                                                   ELSE AddUndo(s, u.type)
            [] u.type \in {"CUT", "CUT_EOF"} -> [s EXCEPT !.items[1] = GrownCut(s, u)]
            [] u.type = "PASTE" -> [s EXCEPT !.items[1] = [u EXCEPT !.begin = s.x, !.lineno = s.cur]]
            [] u.type = "ENTER" -> [s EXCEPT !.items[1] = [u EXCEPT !.mx = s.x]]
            [] OTHER -> s
    BY <1>5 DEF UpdateUndo, u
  <2>3. CASE action = "ADD"
    <3> DEFINE v == GrownAdd(s, u)
               w == (IF u.str = NULL THEN <<>> ELSE u.str[1]) \o SubSeq(CurLine(s), u.mx + 1, u.mx + 1)
    <3>1. v = [u EXCEPT !.str = <<w>>, !.mlineno = s.cur, !.mx = s.x]
      BY DEF GrownAdd
    <3>2. u.mx + 1 \in 1..Len(CurLine(s))
      BY <1>1, <1>5, <2>3 DEF u
    <3>3. SubSeq(CurLine(s), u.mx + 1, u.mx + 1) \in Line
      BY <1>1, <3>2, CharIn
    <3>4. (IF u.str = NULL THEN <<>> ELSE u.str[1]) \in Line
      <4>1. u.str \in Seq(Line)
        BY <2>1 DEF Items
      <4>2. u.str # <<>> => u.str[1] \in Line
        BY <4>1, LenNat, ElementOfSeq
      <4> QED BY <4>2, UnitIn DEF NULL
    <3>5. w \in Line
      <4> DEFINE f == IF u.str = NULL THEN <<>> ELSE u.str[1]
                 g == SubSeq(CurLine(s), u.mx + 1, u.mx + 1)
      <4>1. f \in Line /\ g \in Line
        BY <3>3, <3>4
      <4> HIDE DEF f, g
      <4>2. f \o g \in Line
        BY <4>1, LineConcat
      <4> QED BY <4>2 DEF f, g
    <3>6. <<w>> \in Seq(Line) /\ s.cur \in Int /\ s.x \in Int
      BY <1>1, <3>5
    <3> HIDE DEF v, w
    <3>7. v \in Items /\ v.type = u.type /\ v.mlineno = s.cur
      BY <2>1, <3>1, <3>6 DEF Items
    <3>8. UpdatedIs(s, [s EXCEPT !.items[1] = v])
      BY <1>1, <2>1, <2>3, <3>7, TopUpdates DEF u
    <3> QED BY <2>1, <2>2, <2>3, <3>8 DEF v
  <2>4. CASE action \in {"BACK", "DEL"} /\ s.x \in {u.begin, u.begin - 1}
    <3> DEFINE v == GrownDeletion(s, u)
    <3>1. v = IF s.x = u.begin THEN [u EXCEPT !.str = <<u.str[1] \o c>>, !.mx = s.x]
                               ELSE [u EXCEPT !.str = <<c \o u.str[1]>>, !.begin = s.x]
      BY DEF GrownDeletion
    <3>2. c \in Line
      <4>1. s.x + 1 \in 1..Len(CurLine(s))
        BY <1>1, <2>4
      <4> QED BY <1>1, <4>1, CharIn
    <3>3. u.str[1] \in Line
      <4>1. u.str \in Seq(Line) /\ u.str # <<>>
        <5>1. s.items[1].str # NULL
          BY <2>1, <2>4 DEF u, TopOK
        <5> QED BY <2>1, <5>1 DEF Items, u, NULL
      <4> QED BY <4>1, LenNat, ElementOfSeq
    <3> DEFINE d == u.str[1] \o c
               e == c \o u.str[1]
    <3>4. d \in Line /\ e \in Line
      <4> HIDE DEF c
      <4> QED BY <3>2, <3>3, LineConcat
    <3> HIDE DEF d, e, c
    <3>5. <<d>> \in Seq(Line) /\ <<e>> \in Seq(Line) /\ s.x \in Int /\ <<d>> # NULL /\ <<e>> # NULL
      BY <1>1, <3>4 DEF NULL
    <3>6. v = IF s.x = u.begin THEN [u EXCEPT !.str = <<d>>, !.mx = s.x]
                               ELSE [u EXCEPT !.str = <<e>>, !.begin = s.x]
      BY <3>1 DEF d, e
    <3> HIDE DEF v
    <3>7. v \in Items /\ v.type = u.type /\ v.mlineno = u.mlineno /\ v.str # NULL
      BY <2>1, <3>5, <3>6 DEF Items
    <3>8. UpdatedIs(s, [s EXCEPT !.items[1] = v])
      BY <2>1, <3>7, TopUpdates DEF u
    <3> QED BY <2>1, <2>2, <2>4, <3>8 DEF v
  <2>5. CASE action \in {"BACK", "DEL"} /\ s.x \notin {u.begin, u.begin - 1}
    BY <1>3, <2>1, <2>2, <2>5
  <2>6. CASE action = "PASTE"
    <3> DEFINE v == [u EXCEPT !.begin = s.x, !.lineno = s.cur]
    <3>1. v \in Items /\ v.type = u.type /\ v.mlineno = u.mlineno
      <4>1. s.x \in Int /\ s.cur \in Int
        BY <1>1
      <4>2. u \in Items
        BY <2>1
      <4> QED BY ONLY <4>1, <4>2 DEF Items
    <3> HIDE DEF v
    <3>2. UpdatedIs(s, [s EXCEPT !.items[1] = v])
      BY <2>1, <2>6, <3>1, TopUpdates DEF u
    <3> QED BY <2>1, <2>2, <2>6, <3>2 DEF v
  <2>7. CASE action = "ENTER"
    <3> DEFINE v == [u EXCEPT !.mx = s.x]
    <3>1. v \in Items /\ v.type = u.type /\ v.mlineno = u.mlineno
      BY <1>1, <2>1 DEF Items
    <3> HIDE DEF v
    <3>2. UpdatedIs(s, [s EXCEPT !.items[1] = v])
      BY <2>1, <2>7, <3>1, TopUpdates DEF u
    <3> QED BY <2>1, <2>2, <2>7, <3>2 DEF v
  <2> QED BY <2>3, <2>4, <2>5, <2>6, <2>7
<1> QED BY <1>4, <1>5

\* update_undo, for a cut whose item is on top of the stack: the item has the text of the
\* cutbuffer, and the line where it starts.
CutUpdatedIs(s, t) ==
    LET u == s.items[1] IN
    /\ t \in States /\ SameText(s, t) /\ TopOK(t)
    /\ t.items # <<>> /\ t.items[1].type = u.type
    /\ t.items[1].mlineno =
         IF s.cutbuf # NULL /\ u.mset /\ Before(<<u.lineno, u.begin>>, <<u.mlineno, u.mx>>)
         THEN u.lineno ELSE u.mlineno

LEMMA UpdateCutDone ==
  ASSUME NEW s \in States, NEW action \in {"CUT", "CUT_EOF"},
         TopOK(s) /\ s.last = action /\ (action = "CUT_EOF" => s.cur = CurUndo(s).lineno)
  PROVE  CutUpdatedIs(s, UpdateUndo(s, action))
<1> DEFINE u == s.items[1]
           v == GrownCut(s, u)
           t == [s EXCEPT !.items[1] = v]
<1>1. s.items # <<>> /\ u \in Items /\ u.type = action
  BY TopItem
<1> HIDE DEF u
<1>2. UpdateUndo(s, action) = t
  BY <1>1 DEF UpdateUndo, u
<1>3. /\ s.cutbuf \in Seq(Line) /\ u.mlineno \in Int /\ u.lineno \in Int /\ u.begin \in Int /\ u.mx \in Int
  BY <1>1 DEF States, Items
<1> DEFINE b == u.mlineno + Len(s.cutbuf) - 1
           g == IF CutToEnd \/ u.type = "CUT_EOF"
                THEN Len(s.cutbuf[Len(s.cutbuf)]) + (IF b = u.mlineno THEN u.mx ELSE 0)
                ELSE u.begin
           w == [u EXCEPT !.buf = s.cutbuf]
<1>4. s.cutbuf # NULL => b \in Int /\ g \in Int
  <2> HAVE s.cutbuf # NULL
  <2>1. Len(s.cutbuf) \in Nat \ {0}
    BY <1>3, LenNat DEF NULL
  <2>2. Len(s.cutbuf[Len(s.cutbuf)]) \in Nat
    BY <1>3, <2>1, LineIn DEF Lines
  <2> QED BY <1>3, <2>1, <2>2
<1>5. w \in Items /\ w.type = u.type /\ w.mlineno = u.mlineno
  BY <1>1, <1>3 DEF Items
<1>6. v = IF s.cutbuf = NULL THEN u
          ELSE IF u.mset
          THEN IF Before(<<u.lineno, u.begin>>, <<u.mlineno, u.mx>>)
               THEN [w EXCEPT !.lineno = u.mlineno, !.begin = u.mx, !.mlineno = u.lineno, !.mx = u.begin]
               ELSE [w EXCEPT !.xflags = "WAS_MARKED_FORWARD"]
          ELSE [w EXCEPT !.lineno = b, !.begin = g]
  BY DEF GrownCut
<1> HIDE DEF w, b, g, v, t
<1>7. v \in Items /\ v.type = u.type
      /\ v.mlineno = IF s.cutbuf # NULL /\ u.mset /\ Before(<<u.lineno, u.begin>>, <<u.mlineno, u.mx>>)
                     THEN u.lineno ELSE u.mlineno
  <2>1. CASE s.cutbuf = NULL
    BY <1>1, <1>6, <2>1
  <2>2. CASE s.cutbuf # NULL /\ u.mset /\ Before(<<u.lineno, u.begin>>, <<u.mlineno, u.mx>>)
    BY <1>3, <1>5, <1>6, <2>2 DEF Items
  <2>3. CASE s.cutbuf # NULL /\ u.mset /\ ~Before(<<u.lineno, u.begin>>, <<u.mlineno, u.mx>>)
    BY <1>6, <2>3, <1>5 DEF XFlags, Items
  <2>4. CASE s.cutbuf # NULL /\ ~u.mset
    BY <1>4, <1>6, <2>4, <1>5 DEF Items
  <2> QED BY <2>1, <2>2, <2>3, <2>4
<1>8. TopSetIs(s, v)
  BY <1>1, <1>7, TopSet DEF u
<1>9. t \in States /\ SameText(s, t) /\ TopOK(t) /\ t.items # <<>> /\ t.items[1] = v
  BY <1>8 DEF TopSetIs, t
<1>10. CutUpdatedIs(s, t)
  BY <1>7, <1>9 DEF CutUpdatedIs, u
<1> QED BY <1>2, <1>10

-----------------------------------------------------------------------------
(* The end of the text, and the magicline.                                 *)

EmptyEnd(t) == t[Len(t)] = <<>>

LEMMA EmptyEndIs ==
  ASSUME NEW t \in Texts
  PROVE  (EmptyEnd(t) => End(t)[2] = 0) /\ (End(t)[2] = 0 => EmptyEnd(t))
<1>1. t \in Lines /\ Len(t) \in Nat \ {0}
  BY TextLen
<1>2. t[Len(t)] \in Line
  BY <1>1, LineIn
<1> QED BY <1>2, EmptySeq DEF EmptyEnd, End, Line

\* How a text ends that is attached to another.
LEMMA EndAfter ==
  ASSUME NEW X \in Texts, NEW F \in Texts, NEW n \in Nat, NEW k \in Nat, Moves(F, n, k)
  PROVE  End(X \oplus F)[2] = IF n = 0 THEN End(X)[2] + k ELSE k
<1>1. End(X) \in Int \X Int /\ End(X \oplus F) = EndOf(End(X), F)
  BY EndInts, EndPlus
<1> QED BY <1>1 DEF Moves

LEMMA EndKept ==
  ASSUME NEW X \in Texts, NEW Y \in Texts, NEW F \in Texts, Len(F) > 1 /\ EmptyEnd(X \oplus F)
  PROVE  EmptyEnd(Y \oplus F)
<1>1. PICK n, k \in Nat : Moves(F, n, k)
  BY HowFar
<1>2. n # 0
  <2>1. EndOf(<<0, 0>>, F) = <<Len(F) - 1, Len(F[Len(F)])>>
    BY TextLen DEF EndOf
  <2>2. EndOf(<<0, 0>>, F) = IF n = 0 THEN <<0, 0 + k>> ELSE <<0 + n, k>>
    BY <1>1 DEF Moves
  <2>3. ASSUME n = 0 PROVE FALSE
    <3>1. Len(F) - 1 = 0
      BY <2>1, <2>2, <2>3
    <3>2. Len(F) > 1 /\ Len(F) \in Nat
      BY TextLen
    <3> QED BY ONLY <3>1, <3>2
  <2> QED BY <2>3
<1>3. End(X \oplus F)[2] = k /\ End(Y \oplus F)[2] = k
  BY <1>1, <1>2, EndAfter
<1> QED BY <1>3, EmptyEndIs, AttachIn

LEMMA EndBroken ==
  ASSUME NEW B \in Texts, NEW F \in Texts, EmptyEnd(B \oplus F)
  PROVE  EmptyEnd(B \oplus (Newline \oplus F))
<1>1. PICK n, k \in Nat : Moves(F, n, k)
  BY HowFar
<1> DEFINE X == B \oplus Newline
<1>2. X \in Texts /\ X \oplus F = B \oplus (Newline \oplus F) /\ X \oplus F \in Texts /\ B \oplus F \in Texts
  BY UnitIn, AttachIn, AttachAssoc
<1>3. End(X)[2] = 0
  <2>1. End(X) = EndOf(End(B), Newline) /\ End(B)[1] \in Int
    BY UnitIn, EndPlus, EndIn
  <2>2. EndOf(End(B), Newline) = <<End(B)[1] + 1, 0>>
    <3> DEFINE p == End(B)
    <3> HIDE DEF p
    <3>1. EndOf(p, Newline) = <<p[1] + 1, 0>>
      BY <2>1, EndOfNewline DEF p
    <3> QED BY <3>1 DEF p
  <2> QED BY <2>1, <2>2
<1> HIDE DEF X
<1>4. End(X \oplus F)[2] = IF n = 0 THEN 0 + k ELSE k
  BY <1>1, <1>2, <1>3, EndAfter
<1>5. End(B \oplus F)[2] = (IF n = 0 THEN End(B)[2] + k ELSE k) /\ End(B)[2] \in Nat
  BY <1>1, EndAfter, EndIn
<1>6. End(B \oplus F)[2] = 0
  BY <1>2, EmptyEndIs
<1>7. End(X \oplus F)[2] = 0
  BY <1>4, <1>5, <1>6
<1> QED BY <1>2, <1>7, EmptyEndIs

LEMMA EndTaken ==
  ASSUME NEW B \in Texts, NEW F \in Texts, NEW w \in Line,
         Len(w) = 1 /\ EmptyEnd(B \oplus (<<w>> \oplus F))
  PROVE  EmptyEnd(B \oplus F)
<1>1. PICK n, k \in Nat : Moves(F, n, k)
  BY HowFar
<1> DEFINE W == <<w>>
           X == B \oplus W
<1>2. W \in Texts /\ X \in Texts /\ X \oplus F = B \oplus (W \oplus F) /\ X \oplus F \in Texts /\ B \oplus F \in Texts
  <2>1. W \in Texts
    BY OneIn
  <2> HIDE DEF W
  <2> QED BY <2>1, AttachIn, AttachAssoc
<1>3. End(X)[2] = End(B)[2] + 1 /\ End(B)[2] \in Nat
  <2>1. End(X) = EndOf(End(B), W) /\ End(B)[2] \in Nat
    <3> HIDE DEF W
    <3> QED BY <1>2, EndPlus, EndIn
  <2>2. EndOf(End(B), W) = <<End(B)[1], End(B)[2] + 1>>
    BY EndOfLine
  <2> QED BY <2>1, <2>2
<1> HIDE DEF X
<1>4. End(X \oplus F)[2] = IF n = 0 THEN End(X)[2] + k ELSE k
  BY <1>1, <1>2, EndAfter
<1>5. End(B \oplus F)[2] = (IF n = 0 THEN End(B)[2] + k ELSE k)
  BY <1>1, EndAfter
<1>6. End(X \oplus F)[2] = 0
  BY <1>2, EmptyEndIs
<1>7. End(B \oplus F)[2] = 0
  BY <1>3, <1>4, <1>5, <1>6
<1> QED BY <1>2, <1>7, EmptyEndIs

LEMMA EndNewline ==
  ASSUME NEW B \in Texts
  PROVE  EmptyEnd(B \oplus Newline)
<1>1. B \oplus Newline = Append(B, <<>>) /\ B \in Seq(Line) /\ <<>> \in Line /\ Len(B) \in Nat
  BY NewlineAfter, UnitIn, LenNat DEF Texts
<1>2. Len(Append(B, <<>>)) = Len(B) + 1 /\ Append(B, <<>>)[Len(B) + 1] = <<>>
  BY <1>1, AppendProperties
<1> QED BY <1>1, <1>2 DEF EmptyEnd

-----------------------------------------------------------------------------
(* States in which the cursor and the mark are in the text and its size is known. *)

Marks(s) == s.mark # NoMark => s.mark \in PositionsOf(s.lines)
Sizes(s) == CountSize => s.size = TotSize(s.lines)
Magic(s) == ~NoNewlines => EmptyEnd(s.lines)

Sound(s) == CursorIn(s) /\ Marks(s) /\ Sizes(s) /\ ~s.ub

Good(s) == s \in States /\ Sound(s) /\ Magic(s) /\ TopOK(s) /\ TopLine(s)

Fields(s, t) ==
    /\ t.lines = s.lines /\ t.cur = s.cur /\ t.x = s.x /\ t.mark = s.mark /\ t.size = s.size
    /\ t.ub = s.ub /\ t.session = s.session /\ t.cutbuf = s.cutbuf /\ t.mod = s.mod
    /\ t.sameline = s.sameline /\ t.prep = s.prep

LEMMA SameFields == \A s \in States : \A t : SameText(s, t) => Fields(s, t)
BY DEF SameText, Fields, States

\* Recording leaves a state sound.
LEMMA SoundSame ==
  ASSUME NEW s \in States, NEW t, SameText(s, t)
  PROVE  /\ Sound(s) => Sound(t)
         /\ Magic(s) => Magic(t)
<1>1. Fields(s, t)
  BY SameFields
<1> QED BY <1>1 DEF Fields, Sound, Magic, CursorIn, Marks, Sizes

LEMMA CountedInt == \A n \in Int : Counted(n) \in Int
BY DEF Counted

\* new_magicline.
MagiclineIs(s, nn) ==
    LET t == Magicline(s, nn) IN
    /\ t \in States /\ Sound(t)
    /\ nn = NoNewlines => Magic(t)
    /\ t = [s EXCEPT !.lines = t.lines, !.size = t.size]
    /\ t.lines = s.lines \/ t.lines = s.lines \oplus Newline
    /\ nn => t = s
    /\ Len(t.lines) \in Nat /\ Len(t.lines) >= Len(s.lines)

LEMMA MagiclineDone ==
  ASSUME NEW s \in States, NEW nn \in BOOLEAN, Sound(s)
  PROVE  MagiclineIs(s, nn)
<1> DEFINE t == Magicline(s, nn)
           new == s.lines \oplus Newline
<1>1. s.lines \in Texts /\ s.size \in Int /\ Len(s.lines) \in Nat \ {0}
  BY TextLen DEF States
<1>2. CASE ~nn /\ s.lines[Len(s.lines)] # <<>>
  <2>1. new \in Texts /\ new = Append(s.lines, <<>>)
    BY <1>1, UnitIn, AttachIn, NewlineAfter
  <2>2. t = [s EXCEPT !.lines = new, !.size = Counted(s.size + 1)]
    BY <1>2, <2>1 DEF Magicline
  <2>3. TotSize(new) = TotSize(s.lines) + 1
    BY <1>1, UnitIn, SizePlus, UnitSize
  <2>4. Counted(s.size + 1) \in Int /\ Len(new) = Len(s.lines) + 2 - 1
    <3>1. s.size + 1 \in Int
      BY <1>1
    <3>2. Counted(s.size + 1) \in Int
      BY <3>1, CountedInt
    <3>3. Len(new) = Len(s.lines) + Len(Newline) - 1 /\ Len(Newline) = 2
      BY <1>1, UnitIn, UnitSize, LenPlus
    <3> QED BY <3>2, <3>3
  <2>5. EmptyEnd(new)
    BY <1>1, EndNewline
  <2> DEFINE z == Counted(s.size + 1)
  <2>6. CountSize => z = s.size + 1
    BY DEF Counted
  <2> HIDE DEF new, t, z
  <2>7. /\ t \in States /\ t.lines = new /\ t.size = z /\ t.cur = s.cur /\ t.x = s.x
        /\ t.mark = s.mark /\ t.ub = s.ub
    BY <2>1, <2>2, <2>4 DEF States, z
  <2>8. t = [s EXCEPT !.lines = t.lines, !.size = t.size]
    BY <2>2, <2>7 DEF z
  <2>9. CursorIn(t)
    BY CursorPlace, <1>1, UnitIn, FirstPlaces, <2>7 DEF Sound, InText, new, Cursor
  <2>10. Marks(t)
    BY <1>1, UnitIn, FirstPlaces, <2>7 DEF new, Sound, Marks
  <2>11. Sizes(t)
    BY <2>3, <2>6, <2>7 DEF Sizes, Sound
  <2>12. Sound(t) /\ Magic(t)
    BY <2>5, <2>7, <2>9, <2>10, <2>11 DEF Sound, Magic
  <2>13. Len(t.lines) \in Nat /\ Len(t.lines) >= Len(s.lines)
    BY <1>1, <2>4, <2>7
  <2> QED BY <1>2, <2>7, <2>8, <2>12, <2>13 DEF MagiclineIs, t, new
<1>3. CASE ~(~nn /\ s.lines[Len(s.lines)] # <<>>)
  <2>1. t = s
    BY <1>3 DEF Magicline
  <2>2. nn = NoNewlines => Magic(s)
    BY <1>3 DEF Magic, EmptyEnd
  <2>3. s = [s EXCEPT !.lines = s.lines, !.size = s.size]
    BY DEF States
  <2> QED BY <1>1, <2>1, <2>2, <2>3 DEF MagiclineIs
<1> QED BY <1>2, <1>3

\* The text before the cursor, and behind it.
Bef(s) == TextBefore(s.lines, Cursor(s))
Aft(s) == TextFrom(s.lines, Cursor(s))

AtCursor(s) ==
    /\ Bef(s) \in Texts /\ Aft(s) \in Texts /\ s.lines = Bef(s) \oplus Aft(s)
    /\ End(Bef(s)) = <<s.cur, s.x>> /\ End(Bef(s))[1] = s.cur /\ End(Bef(s))[2] = s.x
    /\ Len(s.lines) = s.cur + Len(Aft(s)) - 1 /\ Len(Aft(s)) \in Nat \ {0}
    /\ s.cur \in Nat \ {0} /\ s.x \in Nat

LEMMA CursorParts ==
  ASSUME NEW s \in States, CursorIn(s)
  PROVE  AtCursor(s)
<1>1. s.lines \in Texts /\ Cursor(s) \in PositionsOf(s.lines)
  BY CursorPlace DEF InText, States
<1>2. Bef(s) \in Texts /\ Aft(s) \in Texts /\ s.lines = Bef(s) \oplus Aft(s) /\ End(Bef(s)) = Cursor(s)
  BY <1>1, TakenApart DEF Bef, Aft
<1>3. Len(s.lines) = Len(Bef(s)) + Len(Aft(s)) - 1 /\ Len(Bef(s)) = End(Bef(s))[1]
  BY <1>2, LenPlus, EndIn
<1>4. Len(Aft(s)) \in Nat \ {0} /\ s.cur \in Nat \ {0} /\ s.x \in Nat
  BY <1>2, TextLen, CursorLine
<1> QED BY <1>2, <1>3, <1>4 DEF Cursor, AtCursor

\* The cursor is in the text when it is the end of what that begins with.
LEMMA CursorAtEnd ==
  ASSUME NEW s \in States, NEW B \in Texts, NEW F \in Texts,
         s.lines = B \oplus F /\ <<s.cur, s.x>> = End(B)
  PROVE  CursorIn(s)
<1>1. Cursor(s) \in PositionsOf(s.lines)
  BY EndPosition DEF Cursor
<1> QED BY <1>1, CursorPlace DEF InText

\* A line replaced that is the last one, with an empty line behind it.
LEMMA ReplaceLast ==
  ASSUME NEW t \in Texts, NEW m \in Line
  PROVE  ReplaceLine(t, Len(t), <<m>> \o <<(<<>>)>>) = Append(ReplaceLine(t, Len(t), <<m>>), <<>>)
<1> DEFINE k == Len(t)
           A == SubSeq(t, 1, k - 1)
           C == SubSeq(t, k + 1, k)
           e == <<(<<>>)>>
           r == <<m>>
<1>1. k \in Nat \ {0} /\ t \in Lines /\ k \in 1..Len(t)
  BY TextLen
<1>2. A \in Lines /\ C \in Lines /\ Len(C) = Len(t) - k
  BY <1>1, Around
<1> HIDE DEF A, C, k
<1>3. C = <<>>
  <2>1. Len(C) = 0
    BY <1>1, <1>2 DEF k
  <2> QED BY <1>2, <2>1, EmptySeq DEF Lines
<1>4. e \in Lines /\ r \in Lines
  BY UnitIn, OneIn
<1> HIDE DEF e, r
<1>5. r \o e \in Lines /\ A \o r \in Lines /\ A \o (r \o e) \in Lines
  BY <1>2, <1>4, ConcatIn
<1>6. ReplaceLine(t, k, r \o e) = A \o (r \o e) \o C /\ ReplaceLine(t, k, r) = A \o r \o C
  BY DEF ReplaceLine, A, C, k
<1>7. A \o (r \o e) \o <<>> = A \o (r \o e) /\ A \o r \o <<>> = A \o r
  BY <1>5, ConcatEmptySeq DEF Lines
<1>8. A \o (r \o e) = (A \o r) \o e
  BY <1>2, <1>4, Assoc
<1>9. Append(A \o r, <<>>) = (A \o r) \o e
  BY <1>5, UnitIn, AppendIsConcat DEF Lines, e
<1> QED BY <1>3, <1>6, <1>7, <1>8, <1>9 DEF k, e, r

\* do_output, but for its undo item: the state it is added to, and the one it is brought up
\* to date in.
TypedLines(s, c) ==
    LET onBot == ~NoNewlines /\ s.cur = Len(s.lines)
        new == Bef(s) \oplus (<< <<c>> >> \oplus Aft(s))
    IN  IF onBot THEN new \oplus Newline ELSE new
Typed1(s, c) ==
    [s EXCEPT !.lines = TypedLines(s, c),
              !.size = Counted(@ + IF ~NoNewlines /\ s.cur = Len(s.lines) THEN 2 ELSE 1),
              !.mod = TRUE]
Typed2(s, c) ==
    [AddUndo(Typed1(s, c), "ADD") EXCEPT
        !.x = s.x + 1, !.mark = IF s.mark = NoMark THEN NoMark ELSE TypedMark(s.mark, Cursor(s))]

LEMMA TypeCharIs ==
  ASSUME NEW s \in States, NEW c \in Chars \cup Blanks, CursorIn(s)
  PROVE  /\ TypeChar(s, c) = UpdateUndo(Typed2(s, c), "ADD")
         /\ TypedLines(s, c) \in Texts
         /\ TotSize(TypedLines(s, c)) = TotSize(s.lines) + IF ~NoNewlines /\ s.cur = Len(s.lines) THEN 2 ELSE 1
<1> DEFINE B == Bef(s)
           F == Aft(s)
           w == <<c>>
           l == CurLine(s)
           m == Prefix(l, s.x) \o w \o Suffix(l, s.x)
           onBot == ~NoNewlines /\ s.cur = Len(s.lines)
           W == <<w>>
           new == B \oplus (W \oplus F)
           repl == <<m>> \o (IF onBot THEN <<(<<>>)>> ELSE <<>>)
           t == AddUndo([s EXCEPT !.lines = ReplaceLine(@, s.cur, repl),
                                  !.size = Counted(@ + IF onBot THEN 2 ELSE 1),
                                  !.mod = TRUE], "ADD")
           shifted == s.mark # NoMark /\ s.mark[1] = s.cur /\ s.x < s.mark[2]
<1>1. AtCursor(s) /\ l \in Line
  BY CursorParts, CursorLine
<1>2. w \in Line /\ Len(w) = 1 /\ W \in Texts /\ s.lines \in Texts
  <2>1. w \in Line /\ Len(w) = 1
    BY DEF Line
  <2> QED BY <2>1, OneIn DEF States
<1>3. m \in Line
  <2>1. Prefix(l, s.x) \in Line /\ Suffix(l, s.x) \in Line
    <3>1. s.x \in 0..Len(l)
      BY DEF CursorIn, CurLine
    <3> QED BY <1>1, <3>1, Sides
  <2> DEFINE f == Prefix(l, s.x)
             g == Suffix(l, s.x)
  <2> HIDE DEF f, g, w
  <2>2. f \o w \in Line
    BY <1>2, <2>1, LineConcat DEF f, g
  <2>3. f \o w \o g \in Line
    BY <2>1, <2>2, LineConcat DEF f, g
  <2> QED BY <2>3 DEF f, g, w
<1>4. ReplaceLine(s.lines, s.cur, <<m>>) = new
  <2>1. PutIs(B, w, F)
    <3> HIDE DEF w
    <3> QED BY <1>1, <1>2, Putting DEF AtCursor
  <2> QED BY <1>1, <2>1 DEF PutIs, AtCursor, CurLine
<1> HIDE DEF B, F, W
<1>5. new \in Texts /\ W \oplus F \in Texts
  BY <1>1, <1>2, AttachIn DEF AtCursor, B, F
<1> HIDE DEF w, l, m
<1>6. ReplaceLine(s.lines, s.cur, repl) = TypedLines(s, c)
  <2>1. CASE onBot
    <3>1. ReplaceLine(s.lines, s.cur, <<m>> \o <<(<<>>)>>) = Append(new, <<>>)
      BY <1>2, <1>3, <1>4, <2>1, ReplaceLast
    <3>2. Append(new, <<>>) = new \oplus Newline
      <4> HIDE DEF new
      <4> QED BY <1>5, NewlineAfter
    <3> QED BY <2>1, <3>1, <3>2 DEF TypedLines, B, F, W, w
  <2>2. CASE ~onBot
    <3>1. <<m>> \o <<>> = <<m>>
      BY <1>3, OneIn, ConcatEmptySeq DEF Lines
    <3> QED BY <1>4, <2>2, <3>1 DEF TypedLines, B, F, W, w
  <2> QED BY <2>1, <2>2
<1>7. t = AddUndo(Typed1(s, c), "ADD")
  BY <1>6 DEF Typed1
<1>8. (IF shifted THEN <<s.mark[1], s.mark[2] + 1>> ELSE s.mark)
        = IF s.mark = NoMark THEN NoMark ELSE TypedMark(s.mark, Cursor(s))
  BY DEF TypedMark, Cursor
<1>9. t.mark = s.mark
  <2>1. Typed1(s, c).mark = s.mark
    BY DEF Typed1, States
  <2>2. ASSUME NEW v PROVE AddUndo(v, "ADD").mark = v.mark
    BY DEF AddUndo
  <2> QED BY <1>7, <2>1, <2>2
<1>10. TypeChar(s, c) = UpdateUndo([t EXCEPT !.x = s.x + 1, !.mark = IF shifted THEN <<@[1], @[2] + 1>> ELSE @], "ADD")
  BY DEF TypeChar, l, m, w
<1> HIDE DEF t
<1>11. [t EXCEPT !.x = s.x + 1, !.mark = IF shifted THEN <<@[1], @[2] + 1>> ELSE @] = Typed2(s, c)
  BY <1>7, <1>8, <1>9 DEF Typed2
<1>12. TypedLines(s, c) \in Texts
  <2>1. new \oplus Newline \in Texts
    <3> HIDE DEF new
    <3> QED BY <1>5, UnitIn, AttachIn
  <2> QED BY <1>5, <2>1 DEF TypedLines, B, F, W, w
<1>13. TotSize(new) = TotSize(s.lines) + 1
  <2>1. TotSize(W) = 1
    BY <1>2, UnitSize DEF W
  <2>2. /\ TotSize(new) = TotSize(B) + TotSize(W \oplus F) /\ TotSize(W \oplus F) = TotSize(W) + TotSize(F)
        /\ TotSize(s.lines) = TotSize(B) + TotSize(F)
    BY <1>1, <1>2, <1>5, SizePlus DEF AtCursor, B, F
  <2>3. TotSize(B) \in Int /\ TotSize(F) \in Int
    BY <1>1, SizeNat DEF AtCursor, B, F
  <2> QED BY <2>1, <2>2, <2>3
<1>14. TotSize(new \oplus Newline) = TotSize(s.lines) + 2
  <2>1. TotSize(new \oplus Newline) = TotSize(new) + 1
    <3> HIDE DEF new
    <3> QED BY <1>5, SizePlus, UnitSize, UnitIn
  <2>2. TotSize(s.lines) \in Int
    BY <1>2, SizeNat
  <2> QED BY <1>13, <2>1, <2>2
<1>15. TotSize(TypedLines(s, c)) = TotSize(s.lines) + IF ~NoNewlines /\ s.cur = Len(s.lines) THEN 2 ELSE 1
  BY <1>13, <1>14 DEF TypedLines, B, F, W, w
<1> QED BY <1>10, <1>11, <1>12, <1>15

LEMMA GoodUpdated ==
  \A s \in States : \A t : Sound(s) /\ Magic(s) /\ TopLine(s) /\ UpdatedIs(s, t) => Good(t)
BY SoundSame DEF UpdatedIs, Good

LEMMA UpdateKeepsItems ==
  ASSUME NEW s \in States, NEW action, TopOK(s) /\ s.items # <<>>
  PROVE  UpdateUndo(s, action).items # <<>>
<1>1. s.items \in Seq(Items) /\ Len(s.items) \in Nat \ {0} /\ DOMAIN s = DOMAIN [s EXCEPT !.cu = 1]
  <2>1. s.items \in Seq(Items)
    BY DEF States
  <2> QED BY <2>1, EmptySeq
<1>2. \A v : [s EXCEPT !.items[1] = v].items # <<>>
  <2> TAKE v
  <2>1. [s EXCEPT !.items[1] = v].items = [s.items EXCEPT ![1] = v]
    BY DEF States
  <2>2. DOMAIN [s.items EXCEPT ![1] = v] = 1..Len(s.items) /\ DOMAIN <<>> = {}
    BY <1>1
  <2> QED BY <1>1, <2>1, <2>2
<1>3. \A a : AddUndo(s, a).items # <<>>
  <2> TAKE a
  <2> DEFINE u == NewItem(s, a)
             r == SubSeq(s.items, s.cu, Len(s.items))
  <2>1. CASE Contiguous(s, a) \/ DeletesFinalNewline(s, a)
    BY <2>1 DEF AddUndo
  <2>2. CASE ~(Contiguous(s, a) \/ DeletesFinalNewline(s, a))
    <3>1. AddUndo(s, a).items = <<u>> \o r
      BY <2>2 DEF AddUndo, States
    <3>2. r \in Seq(Items)
      <4>1. s.cu = 1
        BY DEF TopOK
      <4> QED BY <1>1, <4>1
    <3> QED BY <3>1, <3>2
  <2> QED BY <2>1, <2>2
<1> QED BY <1>2, <1>3 DEF UpdateUndo

\* The state after an edit.
EditedIs(s, t, lines, mark, cur, x, size) ==
    /\ t \in States /\ t.lines = lines /\ t.mark = mark /\ t.cur = cur /\ t.x = x /\ t.size = size
    /\ t.items = s.items /\ t.cu = s.cu /\ t.last = s.last /\ t.keep = s.keep /\ t.ub = s.ub
    /\ t.cutbuf = s.cutbuf /\ t.session = s.session /\ t.prep = s.prep /\ t.sameline = s.sameline
Edits(s, lines, mark, cur, x, size) ==
    [s EXCEPT !.lines = lines, !.mark = mark, !.cur = cur, !.x = x, !.size = size, !.mod = TRUE]
LEMMA Edited ==
  ASSUME NEW s \in States, NEW lines \in Texts, NEW cur \in Int, NEW x \in Int, NEW size \in Int,
         NEW mark \in {NoMark} \cup (Int \X Int)
  PROVE  EditedIs(s, Edits(s, lines, mark, cur, x, size), lines, mark, cur, x, size)
<1> DEFINE M == {NoMark} \cup (Int \X Int)
           t1 == [s EXCEPT !.lines = lines, !.mark = mark]
           t2 == [t1 EXCEPT !.cur = cur, !.x = x]
           t3 == [t2 EXCEPT !.size = size, !.mod = TRUE]
           t == [s EXCEPT !.lines = lines, !.mark = mark, !.cur = cur, !.x = x, !.size = size, !.mod = TRUE]
<1>1. t = t3
  BY DEF States
<1>2. t1 \in States
  BY DEF States
<1> HIDE DEF t1
<1>3. t2 \in States
  BY <1>2 DEF States
<1> HIDE DEF t2
<1>4. t3 \in States
  BY <1>3 DEF States
<1>5. /\ t.lines = lines /\ t.mark = mark /\ t.cur = cur /\ t.x = x /\ t.size = size
      /\ t.items = s.items /\ t.cu = s.cu /\ t.last = s.last /\ t.keep = s.keep /\ t.ub = s.ub
      /\ t.cutbuf = s.cutbuf /\ t.session = s.session /\ t.prep = s.prep /\ t.sameline = s.sameline
  BY DEF States
<1> HIDE DEF t, t3
<1> QED BY <1>1, <1>4, <1>5 DEF EditedIs, Edits, t

\* do_output: the character is put in, and the cursor goes behind it.
TypedIs(s, t) ==
    /\ Good(t) /\ t.items # <<>> /\ t.cur = s.cur /\ t.x = s.x + 1
    /\ t.cutbuf = s.cutbuf /\ t.session = s.session /\ t.mark = NoMark <=> s.mark = NoMark

LEMMA TypedText ==
  ASSUME NEW s \in States, NEW c \in Char, Good(s)
  PROVE  LET new == TypedLines(s, c)
             p   == <<s.cur, s.x + 1>>
         IN  /\ new \in Texts /\ Len(new) >= Len(s.lines) /\ Len(new) \in Nat
             /\ Cursor(s) \in PositionsOf(new) /\ p \in PositionsOf(new)
             /\ s.mark # NoMark => TypedMark(s.mark, Cursor(s)) \in PositionsOf(new)
             /\ ~NoNewlines => EmptyEnd(new)
<1> DEFINE new == TypedLines(s, c)
           p == <<s.cur, s.x + 1>>
           B == Bef(s)
           F == Aft(s)
           w == <<c>>
           W == <<w>>
           N == B \oplus (W \oplus F)
           onBot == ~NoNewlines /\ s.cur = Len(s.lines)
<1>1. AtCursor(s) /\ CursorIn(s)
  BY CursorParts DEF Good, Sound
<1>2. new \in Texts /\ (onBot => new = N \oplus Newline) /\ (~onBot => new = N)
  BY <1>1, TypeCharIs DEF TypedLines, Char
<1>3. w \in Line /\ Len(w) = 1 /\ W \in Texts
  <2>1. w \in Line /\ Len(w) = 1
    BY DEF Line, Char
  <2> QED BY <2>1, OneIn
<1>4. B \in Texts /\ F \in Texts /\ s.lines = B \oplus F /\ End(B) = <<s.cur, s.x>> /\ Cursor(s) = End(B)
  BY <1>1 DEF AtCursor, Cursor
<1> HIDE DEF B, F, W, new, N
<1>5. N \in Texts /\ W \oplus F \in Texts /\ B \oplus W \in Texts /\ N = (B \oplus W) \oplus F
  BY <1>3, <1>4, AttachIn, AttachAssoc DEF N
<1>6. End(B \oplus W) = p
  BY <1>3, EndOfLine, <1>4, EndPlus DEF W
<1>7. Cursor(s) \in PositionsOf(N)
  BY <1>4, <1>5, EndPosition DEF N
<1>8. p \in PositionsOf(N)
  BY <1>4, <1>5, <1>6, EndPosition
<1>9. s.mark # NoMark => TypedMark(s.mark, Cursor(s)) \in PositionsOf(N)
  <2> SUFFICES ASSUME s.mark # NoMark PROVE TypedMark(s.mark, Cursor(s)) \in PositionsOf(N)
    OBVIOUS
  <2>1. s.mark \in PositionsOf(B \oplus F)
    BY <1>4 DEF Good, Sound, Marks
  <2>2. TypedMark(s.mark, End(B)) \in PositionsOf(B \oplus (W \oplus F))
    <3> HIDE DEF w
    <3> QED BY <1>3, <1>4, <2>1, MarkTyped DEF W
  <2> QED BY <1>4, <2>2 DEF N
<1>10. \A q \in PositionsOf(N) : q \in PositionsOf(new)
  BY <1>2, <1>5, UnitIn, FirstPlaces
<1>11. Len(N) = Len(s.lines) /\ Len(N) \in Nat
  <2>1. Len(W) = 1
    BY <1>3, OneIn DEF W
  <2>2. /\ Len(N) = Len(B) + Len(W \oplus F) - 1 /\ Len(W \oplus F) = Len(W) + Len(F) - 1
        /\ Len(s.lines) = Len(B) + Len(F) - 1
    BY <1>3, <1>4, <1>5, LenPlus DEF N
  <2>3. Len(B) \in Nat \ {0} /\ Len(F) \in Nat \ {0}
    BY <1>4, TextLen
  <2> QED BY <2>1, <2>2, <2>3
<1>12. Len(new) >= Len(s.lines) /\ Len(new) \in Nat
  <2>1. Len(N \oplus Newline) = Len(N) + 2 - 1
    BY <1>5, UnitIn, UnitSize, LenPlus
  <2> QED BY <1>2, <1>11, <2>1
<1>13. ~NoNewlines => EmptyEnd(new)
  <2>1. CASE onBot
    BY <1>2, <1>5, <2>1, EndNewline
  <2>2. CASE ~onBot /\ ~NoNewlines
    BY <1>1, <2>2, <1>4, <1>5, EndKept, <1>2 DEF AtCursor, F, Good, Magic
  <2> QED BY <2>1, <2>2
<1> QED BY <1>2, <1>7, <1>8, <1>9, <1>10, <1>12, <1>13 DEF new

\* The state in which update_undo puts the character into the item.
Typed2Is(s, c) ==
    LET t == Typed2(s, c) IN
    /\ t \in States /\ Good(t) /\ t.items # <<>> /\ t.items[1].mx = s.x
    /\ t.lines = TypedLines(s, c) /\ t.cur = s.cur /\ t.x = s.x + 1 /\ (t.mark = NoMark <=> s.mark = NoMark)
    /\ t.cutbuf = s.cutbuf /\ t.session = s.session
    /\ t.size = Counted(s.size + IF ~NoNewlines /\ s.cur = Len(s.lines) THEN 2 ELSE 1)
    /\ t.mark = IF s.mark = NoMark THEN NoMark ELSE TypedMark(s.mark, Cursor(s))
    /\ t.items = AddUndo(Typed1(s, c), "ADD").items
LEMMA Typed2Good ==
  ASSUME NEW s \in States, NEW c \in Char, Good(s)
  PROVE  Typed2Is(s, c)
<1> DEFINE new == TypedLines(s, c)
           p == <<s.cur, s.x + 1>>
           k == IF ~NoNewlines /\ s.cur = Len(s.lines) THEN 2 ELSE 1
           z == Counted(s.size + k)
           m == IF s.mark = NoMark THEN NoMark ELSE TypedMark(s.mark, Cursor(s))
           s1 == Typed1(s, c)
           s2 == AddUndo(s1, "ADD")
           s3 == Typed2(s, c)
           t == UpdateUndo(s3, "ADD")
<1>1. /\ new \in Texts /\ Len(new) >= Len(s.lines) /\ Len(new) \in Nat
      /\ Cursor(s) \in PositionsOf(new) /\ p \in PositionsOf(new)
      /\ s.mark # NoMark => TypedMark(s.mark, Cursor(s)) \in PositionsOf(new)
      /\ ~NoNewlines => EmptyEnd(new)
  BY TypedText
<1>2. CursorIn(s) /\ AtCursor(s) /\ s.cur \in Nat \ {0} /\ s.x \in Nat /\ TopOK(s) /\ TopLine(s)
  BY CursorParts DEF Good, Sound, AtCursor
<1>3. TypeChar(s, c) = t /\ TotSize(new) = TotSize(s.lines) + k
  BY <1>2, TypeCharIs DEF Char
<1>4. z \in Int /\ (CountSize => z = TotSize(new))
  BY <1>3 DEF States, Good, Sound, Sizes, Counted
<1>5. s1 = [s EXCEPT !.lines = new, !.size = z, !.mod = TRUE]
  BY DEF Typed1
<1> HIDE DEF new, z
<1>6. /\ s1 \in States /\ s1.lines = new /\ s1.size = z /\ s1.cur = s.cur /\ s1.x = s.x
      /\ s1.mark = s.mark /\ s1.ub = s.ub /\ s1.items = s.items /\ s1.cu = s.cu /\ s1.last = s.last
      /\ s1.cutbuf = s.cutbuf /\ s1.session = s.session
  BY <1>1, <1>4, <1>5 DEF States
<1> HIDE DEF s1
<1>7. CursorIn(s1)
  BY <1>6, <1>1, CursorPlace DEF Cursor, InText
<1>8. TopOK(s1)
  BY <1>2, <1>6 DEF TopOK
<1>9. AddedIs(s1, "ADD", s2) /\ NewItemIs(s1, "ADD")
  BY <1>6, <1>7, <1>8, AddUndoDone, NewItemMade DEF Actions
<1>10. s2 \in States /\ SameText(s1, s2) /\ TopOK(s2) /\ Fields(s1, s2)
  BY <1>6, <1>9, SameFields DEF AddedIs
<1> HIDE DEF s2
<1>11. s3 = [s2 EXCEPT !.x = s.x + 1, !.mark = m]
  BY DEF Typed2, s2, s1
<1>12. m \in {NoMark} \cup (Int \X Int) /\ s.x + 1 \in Int /\ (m = NoMark <=> s.mark = NoMark)
  BY <1>1, PlaceInts, <1>2 DEF NoMark
<1> HIDE DEF m, s3
<1>13. /\ s3 \in States /\ s3.lines = new /\ s3.size = z /\ s3.cur = s.cur /\ s3.x = s.x + 1
       /\ s3.mark = m /\ s3.ub = s.ub /\ s3.items = s2.items /\ s3.cu = s2.cu /\ s3.last = s2.last
       /\ s3.cutbuf = s.cutbuf /\ s3.session = s.session
  BY <1>6, <1>10, <1>11, <1>12 DEF States, Fields
<1>14. CursorIn(s3) /\ Cursor(s3) = p
  <2>1. Cursor(s3) = p
    BY <1>13 DEF Cursor
  <2> QED BY <1>1, <1>13, <2>1, CursorPlace DEF InText, new
<1>15. Sound(s3) /\ Magic(s3)
  <2>1. Marks(s3)
    BY <1>1, <1>12, <1>13 DEF Marks, m
  <2>2. Sizes(s3)
    BY <1>4, <1>13 DEF Sizes
  <2>3. ~s3.ub
    BY <1>13 DEF Good, Sound
  <2>4. Magic(s3)
    BY <1>1, <1>13 DEF Magic
  <2> QED BY <1>14, <2>1, <2>2, <2>3, <2>4 DEF Sound
<1>16. TopOK(s3) /\ s3.items # <<>> /\ TopLine(s3) /\ s3.items[1].mx = s.x
  <2>1. CASE s2 = s1 /\ (Contiguous(s1, "ADD") \/ DeletesFinalNewline(s1, "ADD"))
    <3>1. HasUndo(s1) /\ CurUndo(s1).mx = s1.x
      BY <2>1 DEF Contiguous, DeletesFinalNewline
    <3>2. s1.cu = 1 /\ s1.items \in Seq(Items)
      BY <1>6, <1>8 DEF TopOK, States
    <3>3. s1.items # <<>> /\ s1.items[1].mx = s.x
      BY <1>6, <3>1, <3>2 DEF HasUndo, CurUndo
    <3>4. TopLine(s3)
      BY <1>1, <1>2, <1>6, <1>13, <2>1 DEF TopLine
    <3> QED BY <1>10, <1>13, <2>1, <3>3, <3>4 DEF TopOK
  <2>2. CASE s2.items # <<>> /\ s2.items[1] = NewItem(s1, "ADD")
    BY <1>6, <2>2, <1>13, <1>14, <1>10 DEF NewItem, BlankItem, CursorIn, TopOK, TopLine
  <2> QED BY <1>9, <2>1, <2>2 DEF AddedIs, s2
<1> HIDE DEF k
<1> QED BY <1>12, <1>13, <1>15, <1>16 DEF Typed2Is, Good, s3, z, new, k, m, s2, s1

LEMMA TypedUpdate ==
  ASSUME NEW s \in States, Good(s) /\ s.items # <<>> /\ s.items[1].mx = s.x - 1 /\ s.x > 0
  PROVE  /\ Good(UpdateUndo(s, "ADD")) /\ UpdateUndo(s, "ADD").items # <<>>
         /\ Fields(s, UpdateUndo(s, "ADD"))
<1>1. s.items[1].mx \in 0..Len(CurLine(s)) - 1
  BY CursorLine DEF Good, Sound
<1>2. UpdatedIs(s, UpdateUndo(s, "ADD"))
  BY <1>1, UpdateUndoDone DEF Good, Sound
<1> QED BY <1>2, GoodUpdated, UpdateKeepsItems, SameFields DEF Good, UpdatedIs

LEMMA TypeCharGood ==
  ASSUME NEW s \in States, NEW c \in Char, Good(s)
  PROVE  TypedIs(s, TypeChar(s, c))
<1> DEFINE s3 == Typed2(s, c)
           t == UpdateUndo(s3, "ADD")
<1>1. CursorIn(s) /\ s.x \in Nat
  BY CursorLine DEF Good, Sound
<1>2. TypeChar(s, c) = t
  BY <1>1, TypeCharIs DEF Char
<1>3. Typed2Is(s, c)
  BY Typed2Good
<1> HIDE DEF s3
<1>4. /\ s3 \in States /\ Good(s3) /\ s3.items # <<>> /\ s3.items[1].mx = s.x
      /\ s3.cur = s.cur /\ s3.x = s.x + 1 /\ (s3.mark = NoMark <=> s.mark = NoMark)
      /\ s3.cutbuf = s.cutbuf /\ s3.session = s.session
  BY <1>3 DEF Typed2Is, s3
<1>5. s3.items[1].mx = s3.x - 1 /\ s3.x > 0
  BY <1>1, <1>4
<1>6. Good(t) /\ t.items # <<>> /\ Fields(s3, t)
  BY <1>4, <1>5, TypedUpdate
<1> HIDE DEF t
<1> QED BY <1>2, <1>4, <1>6 DEF TypedIs, Fields

\* do_enter: the line is broken at the cursor, which goes to the beginning of the second part.
BrokenText(s) == Bef(s) \oplus (Newline \oplus Aft(s))
BrokenTextIs(s) ==
    LET new == BrokenText(s)
        p   == <<s.cur + 1, 0>>
    IN  /\ new \in Texts /\ Len(new) = Len(s.lines) + 1 /\ Len(new) \in Nat
        /\ ReplaceLine(s.lines, s.cur, <<Prefix(CurLine(s), s.x), Suffix(CurLine(s), s.x)>>) = new
        /\ TotSize(new) = TotSize(s.lines) + 1
        /\ p \in PositionsOf(new)
        /\ s.mark # NoMark => BrokenMark(s.mark, Cursor(s)) \in PositionsOf(new)
        /\ Magic(s) => (~NoNewlines => EmptyEnd(new))
        /\ Len(new[s.cur]) = s.x /\ Len(new[s.cur + 1]) = Len(CurLine(s)) - s.x

LEMMA BrokenTextDone ==
  ASSUME NEW s \in States, CursorIn(s) /\ Marks(s)
  PROVE  BrokenTextIs(s)
<1> DEFINE new == BrokenText(s)
           p == <<s.cur + 1, 0>>
           B == Bef(s)
           F == Aft(s)
<1>1. AtCursor(s)
  BY CursorParts
<1>2. B \in Texts /\ F \in Texts /\ s.lines = B \oplus F /\ End(B) = <<s.cur, s.x>> /\ Cursor(s) = End(B)
      /\ End(B)[1] = s.cur /\ End(B)[2] = s.x /\ new = B \oplus (Newline \oplus F)
  BY <1>1 DEF AtCursor, Cursor, BrokenText
<1>3. F[1] = Suffix(CurLine(s), s.x)
  <2>1. F = <<Suffix(s.lines[Cursor(s)[1]], Cursor(s)[2])>> \o SubSeq(s.lines, Cursor(s)[1] + 1, Len(s.lines))
    BY DEF Aft, TextFrom
  <2> DEFINE a == Suffix(CurLine(s), s.x)
             C == SubSeq(s.lines, s.cur + 1, Len(s.lines))
  <2>2. F = <<a>> \o C
    BY <2>1 DEF Cursor, CurLine
  <2>3. a \in Line /\ C \in Lines
    BY CursorLine, Sides, Around DEF CursorIn, CurLine
  <2> HIDE DEF a, C
  <2>4. (<<a>> \o C)[1] = a
    BY <2>3, StartIs
  <2> QED BY <2>2, <2>4 DEF a
<1> HIDE DEF B, F, new
<1>4. new \in Texts /\ Newline \oplus F \in Texts /\ B \oplus Newline \in Texts /\ new = (B \oplus Newline) \oplus F
  BY <1>2, UnitIn, AttachIn, AttachAssoc
<1>5. ReplaceLine(s.lines, s.cur, <<Prefix(CurLine(s), s.x), Suffix(CurLine(s), s.x)>>) = new
  <2>1. BreakIs(B, F)
    BY <1>2, Breaking
  <2> QED BY <1>2, <2>1 DEF BreakIs, CurLine
<1>6. p \in PositionsOf(new)
  <2>1. End(B \oplus Newline) = EndOf(End(B), Newline) /\ End(B)[1] \in Int
    <3>1. End(B \oplus Newline) = EndOf(End(B), Newline)
      BY <1>2, UnitIn, EndPlus
    <3>2. End(B)[1] \in Int
      BY <1>2, EndIn
    <3> QED BY <3>1, <3>2
  <2>2. EndOf(End(B), Newline) = <<End(B)[1] + 1, 0>>
    <3> DEFINE q == End(B)
    <3> HIDE DEF q
    <3>1. EndOf(q, Newline) = <<q[1] + 1, 0>>
      BY <2>1, EndOfNewline DEF q
    <3> QED BY <3>1 DEF q
  <2>3. End(B \oplus Newline) = p
    BY <1>2, <2>1, <2>2
  <2> QED BY <1>2, <1>4, <2>3, EndPosition
<1>7. s.mark # NoMark => BrokenMark(s.mark, Cursor(s)) \in PositionsOf(new)
  BY <1>2, MarkBroken DEF Marks
<1>8. TotSize(new) = TotSize(s.lines) + 1
  BY <1>2, <1>4, UnitIn, SizePlus, SizeNat, UnitSize
<1>9. Len(new) = Len(s.lines) + 1 /\ Len(new) \in Nat
  <2>1. /\ Len(new) = Len(B) + Len(Newline \oplus F) - 1
        /\ Len(Newline \oplus F) = Len(Newline) + Len(F) - 1
        /\ Len(s.lines) = Len(B) + Len(F) - 1
    BY <1>2, <1>4, UnitIn, LenPlus
  <2>2. Len(B) \in Nat \ {0} /\ Len(F) \in Nat \ {0} /\ Len(Newline) = 2
    BY <1>2, TextLen, UnitSize
  <2> QED BY <2>1, <2>2
<1>10. Magic(s) => (~NoNewlines => EmptyEnd(new))
  BY <1>2, EndBroken DEF Magic
<1>11. Len(new[s.cur]) = s.x /\ Len(new[s.cur + 1]) = Len(CurLine(s)) - s.x
  <2>1. JoinIs(B, F)
    BY <1>2, Joining
  <2>2. Len(new[s.cur]) = s.x /\ new[s.cur + 1] = F[1]
    BY <1>2, <2>1 DEF JoinIs
  <2>3. CurLine(s) \in Line /\ s.x \in 0..Len(CurLine(s))
    BY CursorLine DEF CursorIn, CurLine
  <2>4. Len(Suffix(CurLine(s), s.x)) = Len(CurLine(s)) - s.x
    BY <2>3, Sides
  <2> QED BY <1>3, <2>2, <2>4
<1> QED BY <1>4, <1>5, <1>6, <1>7, <1>8, <1>9, <1>10, <1>11 DEF BrokenTextIs, new

EnterIs(s, t) ==
    /\ Good(t) /\ t.items # <<>> /\ t.cur = s.cur + 1 /\ t.x = 0
    /\ Len(t.lines) = Len(s.lines) + 1
    /\ Len(t.lines[s.cur]) = s.x /\ Len(t.lines[s.cur + 1]) = Len(CurLine(s)) - s.x
    /\ t.cutbuf = s.cutbuf /\ t.session = s.session
LEMMA EnterGood ==
  ASSUME NEW s \in States, Good(s)
  PROVE  EnterIs(s, Enter(s, FALSE))
<1> DEFINE new == BrokenText(s)
           p == <<s.cur + 1, 0>>
           z == Counted(s.size + 1)
           m == IF s.mark = NoMark THEN NoMark ELSE BrokenMark(s.mark, Cursor(s))
           s2 == AddUndo(s, "ENTER")
           repl == <<Prefix(CurLine(s), s.x), Suffix(CurLine(s), s.x)>>
           mk == s.mark
           mark == CASE mk = NoMark -> NoMark
                     [] mk # NoMark /\ mk[1] = s.cur /\ s.x < mk[2] -> <<mk[1] + 1, mk[2] - s.x>>
                     [] mk # NoMark /\ mk[1] > s.cur -> <<mk[1] + 1, mk[2]>>
                     [] OTHER -> mk
           s3 == [s2 EXCEPT !.lines = ReplaceLine(@, s.cur, repl), !.mark = mark, !.cur = s.cur + 1, !.x = 0,
                            !.size = Counted(@ + 1), !.mod = TRUE]
           t == UpdateUndo(s3, "ENTER")
<1>1. CursorIn(s) /\ Marks(s) /\ Sizes(s) /\ Magic(s) /\ ~s.ub /\ TopOK(s) /\ s.cur \in Nat \ {0} /\ s.x \in Nat
      /\ s.x <= Len(CurLine(s)) /\ Len(CurLine(s)) \in Nat
  BY CursorLine DEF Good, Sound
<1>2. BrokenTextIs(s)
  BY <1>1, BrokenTextDone
<1>3. AddedIs(s, "ENTER", s2) /\ NewItemIs(s, "ENTER")
  BY <1>1, AddUndoDone, NewItemMade DEF Actions
<1>4. s2 \in States /\ SameText(s, s2) /\ TopOK(s2) /\ Fields(s, s2)
  BY <1>3, SameFields DEF AddedIs
<1>5. s2.items # <<>> /\ s2.items[1] = NewItem(s, "ENTER")
  BY <1>3 DEF Contiguous, DeletesFinalNewline, AddedIs
<1>6. Enter(s, FALSE) = t
  BY <1>1 DEF Enter
<1>7. mark = m
  <2> DEFINE inLine == mk[1] = s.cur /\ s.x < mk[2]
             below == mk[1] > s.cur
             a == <<mk[1] + 1, mk[2] - s.x>>
             b == <<mk[1] + 1, mk[2]>>
  <2>1. mark = CASE mk = NoMark -> NoMark [] mk # NoMark /\ inLine -> a
                 [] mk # NoMark /\ below -> b [] OTHER -> mk
    OBVIOUS
  <2>2. m = IF mk = NoMark THEN NoMark ELSE IF inLine THEN a ELSE IF below THEN b ELSE mk
    BY DEF BrokenMark, Cursor
  <2>3. inLine => ~below
    BY <1>1 DEF States
  <2> HIDE DEF mark, m, inLine, below, a, b, mk
  <2> QED BY <2>1, <2>2, <2>3
<1> HIDE DEF s2, mark
<1>8. s3 = [s2 EXCEPT !.lines = new, !.mark = m, !.cur = s.cur + 1, !.x = 0, !.size = z, !.mod = TRUE]
  BY <1>2, <1>4, <1>7 DEF BrokenTextIs, Fields
<1>9. z \in Int /\ (CountSize => z = TotSize(new))
  <2>1. s.size \in Int
    BY DEF States
  <2> QED BY <1>1, <1>2, <2>1 DEF Counted, Sizes, BrokenTextIs
<1>10. m \in {NoMark} \cup (Int \X Int)
  BY <1>2, PlaceInts DEF BrokenTextIs
<1>11. new \in Texts
  BY <1>2 DEF BrokenTextIs
<1> HIDE DEF s3, new, z, m
<1>12. /\ s3 \in States /\ s3.lines = new /\ s3.size = z /\ s3.cur = s.cur + 1 /\ s3.x = 0
       /\ s3.mark = m /\ s3.ub = s.ub /\ s3.items = s2.items /\ s3.cu = s2.cu /\ s3.last = s2.last
       /\ s3.cutbuf = s.cutbuf /\ s3.session = s.session
  <2> DEFINE n == s.cur + 1
  <2>1. n \in Int
    BY <1>1
  <2>2. s2 \in States /\ s2.ub = s.ub /\ s2.cutbuf = s.cutbuf /\ s2.session = s.session
    BY <1>4 DEF Fields
  <2>3. s3 = [s2 EXCEPT !.lines = new, !.mark = m, !.cur = n, !.x = 0, !.size = z, !.mod = TRUE]
    BY <1>8
  <2> HIDE DEF n
  <2>4. /\ s3 \in States /\ s3.lines = new /\ s3.size = z /\ s3.cur = n /\ s3.x = 0
        /\ s3.mark = m /\ s3.ub = s2.ub /\ s3.items = s2.items /\ s3.cu = s2.cu /\ s3.last = s2.last
        /\ s3.cutbuf = s2.cutbuf /\ s3.session = s2.session
    <3>1. EditedIs(s2, s3, new, m, n, 0, z)
      <4>1. s3 = Edits(s2, new, m, n, 0, z)
        BY <2>3 DEF Edits
      <4>2. 0 \in Int
        OBVIOUS
      <4> QED BY <1>9, <1>10, <1>11, <2>1, <2>2, <4>1, <4>2, Edited
    <3> QED BY <3>1 DEF EditedIs
  <2> QED BY <2>2, <2>4 DEF n
<1>13. CursorIn(s3)
  <2>1. Cursor(s3) = p
    BY <1>12 DEF Cursor
  <2> QED BY <1>2, <1>12, <2>1, CursorPlace DEF InText, new, BrokenTextIs
<1>14. Sound(s3) /\ Magic(s3)
  BY <1>2, <1>12, <1>1, <1>9, <1>13 DEF Marks, m, new, BrokenTextIs, Sizes, Magic, Sound
<1>15. TopOK(s3) /\ TopLine(s3) /\ s3.items # <<>>
  BY <1>3, <1>5, <1>12, <1>2, <1>13, <1>1, <1>4 DEF NewItemIs, CursorIn, new, BrokenTextIs, TopOK,
     TopLine
<1>16. UpdatedIs(s3, t)
  BY <1>12, <1>13, <1>15, UpdateUndoDone
<1>17. Good(t) /\ t.items # <<>> /\ Fields(s3, t)
  BY <1>12, <1>14, <1>15, <1>16, GoodUpdated, UpdateKeepsItems, SameFields DEF UpdatedIs
<1> HIDE DEF t
<1> QED BY <1>2, <1>6, <1>12, <1>17 DEF EnterIs, Fields, new, BrokenTextIs

\* do_deletion, of a character.
DeletedText(s) == Bef(s) \oplus TextFrom(s.lines, <<s.cur, s.x + 1>>)
DeletedTextIs(s) ==
    LET new == DeletedText(s) IN
    /\ new \in Texts /\ Len(new) = Len(s.lines) /\ Len(new) \in Nat
    /\ ReplaceLine(s.lines, s.cur, <<Prefix(CurLine(s), s.x) \o Suffix(CurLine(s), s.x + 1)>>) = new
    /\ TotSize(new) = TotSize(s.lines) - 1
    /\ Cursor(s) \in PositionsOf(new)
    /\ s.mark # NoMark => DeletedMark(s.mark, Cursor(s)) \in PositionsOf(new)
    /\ ~NoNewlines => EmptyEnd(new)

LEMMA DeletedTextDone ==
  ASSUME NEW s \in States, Good(s) /\ s.x < Len(CurLine(s))
  PROVE  DeletedTextIs(s)
<1> DEFINE q == <<s.cur, s.x + 1>>
           B == Bef(s)
           G == TextFrom(s.lines, q)
           w == SubSeq(CurLine(s), s.x + 1, s.x + 1)
           W == <<w>>
           new == DeletedText(s)
<1>1. AtCursor(s) /\ CursorIn(s) /\ Marks(s) /\ Magic(s) /\ s.lines \in Texts
  BY CursorParts DEF Good, Sound, States
<1>2. B \in Texts /\ Aft(s) \in Texts /\ s.lines = B \oplus Aft(s) /\ End(B) = <<s.cur, s.x>> /\ Cursor(s) = End(B)
      /\ End(B)[1] = s.cur /\ End(B)[2] = s.x /\ new = B \oplus G
  BY <1>1 DEF AtCursor, Cursor, DeletedText
<1>3. w \in Line /\ Len(w) = 1 /\ Aft(s) = W \oplus G /\ q \in PositionsOf(s.lines)
  <2>1. Cursor(s) \in PositionsOf(s.lines) /\ Cursor(s)[2] < Len(s.lines[Cursor(s)[1]])
    BY <1>1, CursorPlace DEF InText, Cursor, CurLine
  <2> DEFINE p == Cursor(s)
  <2>2. CharAfter(s.lines, p)
    <3> HIDE DEF p
    <3> QED BY <1>1, <2>1, NextChar DEF p
  <2> QED BY <2>1, <2>2 DEF CharAfter, Aft, Cursor, CurLine
<1>4. G \in Texts /\ W \in Texts
  <2> HIDE DEF q, w
  <2> QED BY <1>1, <1>3, TakenApart, OneIn
<1> HIDE DEF B, G, w, new, W
<1>5. W \oplus G \in Texts /\ new \in Texts /\ s.lines = B \oplus (W \oplus G)
  BY <1>2, <1>3, <1>4, AttachIn
<1>6. ReplaceLine(s.lines, s.cur, <<Prefix(CurLine(s), s.x) \o Suffix(CurLine(s), s.x + 1)>>) = new
  <2>1. TakeIs(B, w, G)
    BY <1>2, <1>3, <1>4, Taking
  <2>2. ReplaceLine(s.lines, s.cur, <<Prefix(s.lines[s.cur], s.x) \o Suffix(s.lines[s.cur], s.x + Len(w))>>) = B \oplus G
    BY <1>2, <1>5, <2>1 DEF TakeIs, W
  <2> QED BY <1>2, <1>3, <2>2 DEF CurLine
<1>7. Cursor(s) \in PositionsOf(new)
  BY <1>2, <1>4, EndPosition
<1>8. s.mark # NoMark => DeletedMark(s.mark, Cursor(s)) \in PositionsOf(new)
  BY <1>1, <1>2, <1>3, <1>4, <1>5, MarkDeleted DEF Marks, W
<1>9. TotSize(new) = TotSize(s.lines) - 1 /\ Len(new) = Len(s.lines) /\ Len(new) \in Nat
  <2>1. /\ TotSize(new) = TotSize(B) + TotSize(G)
        /\ TotSize(s.lines) = TotSize(B) + TotSize(W \oplus G)
        /\ TotSize(W \oplus G) = TotSize(W) + TotSize(G)
    BY <1>2, <1>4, <1>5, SizePlus
  <2>2. TotSize(B) \in Int /\ TotSize(G) \in Int /\ TotSize(W) = 1
    BY <1>2, <1>3, <1>4, SizeNat, UnitSize DEF W
  <2>3. /\ Len(new) = Len(B) + Len(G) - 1
        /\ Len(s.lines) = Len(B) + Len(W \oplus G) - 1
        /\ Len(W \oplus G) = Len(W) + Len(G) - 1
    BY <1>2, <1>4, <1>5, LenPlus
  <2>4. Len(B) \in Nat \ {0} /\ Len(G) \in Nat \ {0} /\ Len(W) = 1
    BY <1>2, <1>3, <1>4, TextLen, OneIn DEF W
  <2> QED BY <2>1, <2>2, <2>3, <2>4
<1>10. ~NoNewlines => EmptyEnd(new)
  BY <1>1, <1>2, <1>3, <1>4, <1>5, EndTaken DEF Magic, W
<1> QED BY <1>5, <1>6, <1>7, <1>8, <1>9, <1>10 DEF DeletedTextIs, new

DeletionIs(s, t) ==
    /\ Good(t) /\ t.cur = s.cur /\ t.x = s.x /\ (s.items # <<>> => t.items # <<>>)
    /\ t.cutbuf = s.cutbuf /\ t.session = s.session

LEMMA CharDeleted ==
  ASSUME NEW s \in States, NEW action \in {"BACK", "DEL"}, Good(s) /\ s.x < Len(CurLine(s))
  PROVE  DeletionIs(s, Deletion(s, action))
<1> DEFINE new == DeletedText(s)
           z == Counted(s.size - 1)
           m == IF s.mark = NoMark THEN NoMark ELSE DeletedMark(s.mark, Cursor(s))
           repl == <<Prefix(CurLine(s), s.x) \o Suffix(CurLine(s), s.x + 1)>>
           s2 == UpdateUndo(s, action)
           onMark == s.mark # NoMark /\ s.mark[1] = s.cur /\ s.x < s.mark[2]
           t == [s2 EXCEPT !.lines = ReplaceLine(@, s.cur, repl),
                           !.mark = IF onMark THEN <<@[1], @[2] - 1>> ELSE @,
                           !.size = Counted(@ - 1), !.mod = TRUE]
<1>1. CursorIn(s) /\ Marks(s) /\ Sizes(s) /\ Magic(s) /\ ~s.ub /\ TopOK(s) /\ TopLine(s)
      /\ s.cur \in Nat \ {0} /\ s.x \in Nat /\ Len(CurLine(s)) \in Nat
  BY CursorLine DEF Good, Sound
<1>2. DeletedTextIs(s)
  BY DeletedTextDone
<1>3. UpdatedIs(s, s2)
  BY <1>1, UpdateUndoDone
<1>4. s2 \in States /\ SameText(s, s2) /\ TopOK(s2) /\ TopLine(s2) /\ Fields(s, s2)
  BY <1>1, <1>3, SameFields DEF UpdatedIs
<1>5. s.items # <<>> => s2.items # <<>>
  BY <1>1, UpdateKeepsItems
<1>6. Deletion(s, action) = t
  BY DEF Deletion
<1>7. (IF onMark THEN <<s.mark[1], s.mark[2] - 1>> ELSE s.mark) = m
  BY DEF DeletedMark, Cursor
<1> HIDE DEF s2, onMark, repl
<1>8. t = [s2 EXCEPT !.lines = ReplaceLine(s.lines, s.cur, repl),
                     !.mark = IF onMark THEN <<s.mark[1], s.mark[2] - 1>> ELSE s.mark,
                     !.size = z, !.mod = TRUE]
  BY <1>4 DEF Fields
<1>9. z \in Int /\ (CountSize => z = TotSize(new))
  <2>1. s.size \in Int
    BY DEF States
  <2> QED BY <1>1, <1>2, <2>1 DEF Counted, Sizes, DeletedTextIs
<1>10. m \in {NoMark} \cup (Int \X Int)
  BY <1>2, PlaceInts DEF DeletedTextIs
<1>11. new \in Texts /\ ReplaceLine(s.lines, s.cur, repl) = new /\ s.cur \in Int /\ s.x \in Int
  BY <1>1, <1>2 DEF DeletedTextIs, repl
<1> HIDE DEF t, new, z, m
<1>12. t = Edits(s2, new, m, s.cur, s.x, z)
  BY <1>4, <1>7, <1>8, <1>11 DEF Edits, States, Fields
<1>13. EditedIs(s2, t, new, m, s.cur, s.x, z)
  BY <1>4, <1>9, <1>10, <1>11, <1>12, Edited
<1>14. t \in States /\ CursorIn(t)
  BY <1>13, <1>2, CursorPlace DEF Cursor, EditedIs, InText, new, DeletedTextIs
<1>15. Sound(t) /\ Magic(t)
  BY <1>2, <1>13, <1>1, <1>4, <1>9, <1>14 DEF Marks, m, new, DeletedTextIs, EditedIs, Sizes, Fields,
     Magic, Sound
<1>16. TopOK(t) /\ TopLine(t)
  BY <1>2, <1>4, <1>13 DEF DeletedTextIs, new, Fields, TopOK, TopLine, EditedIs
<1> QED BY <1>4, <1>5, <1>6, <1>13, <1>14, <1>15, <1>16 DEF DeletionIs, Good, EditedIs, Fields

\* do_deletion, of a line end.
JoinedText(s) == Bef(s) \oplus SubSeq(s.lines, s.cur + 1, Len(s.lines))
JoinedTextIs(s) ==
    LET new == JoinedText(s)
        nn  == NoNewlines \/ s.cur + 1 < Len(s.lines)
    IN  /\ new \in Texts /\ Len(new) = Len(s.lines) - 1 /\ Len(new) \in Nat
        /\ JoinLines(s.lines, s.cur, CurLine(s) \o s.lines[s.cur + 1]) = new
        /\ TotSize(new) = TotSize(s.lines) - 1
        /\ Cursor(s) \in PositionsOf(new)
        /\ s.mark # NoMark => JoinedMark(s.mark, Cursor(s)) \in PositionsOf(new)
        /\ ~NoNewlines /\ nn => EmptyEnd(new)
        /\ ~nn /\ s.x # 0 => new[Len(new)] # <<>>

LEMMA JoinedTextDone ==
  ASSUME NEW s \in States, Good(s) /\ s.x = Len(CurLine(s)) /\ s.cur < Len(s.lines)
  PROVE  JoinedTextIs(s)
<1> DEFINE B == Bef(s)
           G == SubSeq(s.lines, s.cur + 1, Len(s.lines))
           new == JoinedText(s)
           nn == NoNewlines \/ s.cur + 1 < Len(s.lines)
<1>1. AtCursor(s) /\ CursorIn(s) /\ Marks(s) /\ Magic(s) /\ s.lines \in Texts /\ s.cur \in Nat \ {0} /\ s.x \in Nat
      /\ Len(s.lines) \in Nat
  BY CursorParts, CursorLine DEF Good, Sound, States
<1>2. B \in Texts /\ Aft(s) \in Texts /\ s.lines = B \oplus Aft(s) /\ End(B) = <<s.cur, s.x>> /\ Cursor(s) = End(B)
      /\ End(B)[1] = s.cur /\ End(B)[2] = s.x /\ new = B \oplus G
  BY <1>1 DEF AtCursor, Cursor, JoinedText
<1>3. Aft(s) = Newline \oplus G /\ G \in Texts
  <2>1. s.cur \in 1..Len(s.lines)
    BY <1>1 DEF CursorIn
  <2>2. LineEnd(s.lines, s.cur)
    BY <1>1, <2>1, NextLine
  <2> QED BY <2>2 DEF LineEnd, Aft, Cursor, CurLine
<1> HIDE DEF B, G, new
<1>4. Newline \oplus G \in Texts /\ new \in Texts /\ s.lines = B \oplus (Newline \oplus G)
  BY <1>2, <1>3, AttachIn, UnitIn
<1>5. JoinLines(s.lines, s.cur, CurLine(s) \o s.lines[s.cur + 1]) = new
  <2>1. JoinIs(B, G)
    BY <1>2, <1>3, Joining
  <2> QED BY <1>2, <1>4, <2>1 DEF JoinIs, CurLine
<1>6. Cursor(s) \in PositionsOf(new)
  BY <1>2, <1>3, EndPosition
<1>7. s.mark # NoMark => JoinedMark(s.mark, Cursor(s)) \in PositionsOf(new)
  BY <1>1, <1>2, <1>3, <1>4, MarkJoined DEF Marks
<1>8. TotSize(new) = TotSize(s.lines) - 1 /\ Len(new) = Len(s.lines) - 1 /\ Len(new) \in Nat
      /\ Len(G) = Len(s.lines) - s.cur
  <2>1. /\ TotSize(new) = TotSize(B) + TotSize(G)
        /\ TotSize(s.lines) = TotSize(B) + TotSize(Newline \oplus G)
        /\ TotSize(Newline \oplus G) = TotSize(Newline) + TotSize(G)
    BY <1>2, <1>3, <1>4, UnitIn, SizePlus
  <2>2. TotSize(B) \in Int /\ TotSize(G) \in Int /\ TotSize(Newline) = 1
    BY <1>2, <1>3, SizeNat, UnitSize
  <2>3. /\ Len(new) = Len(B) + Len(G) - 1
        /\ Len(s.lines) = Len(B) + Len(Newline \oplus G) - 1
        /\ Len(Newline \oplus G) = Len(Newline) + Len(G) - 1
    BY <1>2, <1>3, <1>4, UnitIn, LenPlus
  <2>4. Len(B) \in Nat \ {0} /\ Len(G) \in Nat \ {0} /\ Len(Newline) = 2 /\ Len(B) = s.cur
    <3>1. Len(B) = End(B)[1]
      BY <1>2, EndIn
    <3> QED BY <1>2, <1>3, <3>1, TextLen, UnitSize
  <2> QED BY <2>1, <2>2, <2>3, <2>4
<1>9. ~NoNewlines /\ nn => EmptyEnd(new)
  <2> SUFFICES ASSUME ~NoNewlines, s.cur + 1 < Len(s.lines) PROVE EmptyEnd(new)
    OBVIOUS
  <2>1. Len(G) > 1
    BY <1>1, <1>8
  <2>2. B \oplus Newline \in Texts /\ s.lines = (B \oplus Newline) \oplus G
    BY <1>2, <1>3, <1>4, UnitIn, AttachIn, AttachAssoc
  <2>3. EmptyEnd((B \oplus Newline) \oplus G)
    BY <1>1, <2>2 DEF Magic
  <2> QED BY <1>2, <1>3, <2>1, <2>2, <2>3, EndKept
<1>10. ~nn /\ s.x # 0 => new[Len(new)] # <<>>
  <2> SUFFICES ASSUME ~NoNewlines, ~(s.cur + 1 < Len(s.lines)), s.x # 0 PROVE new[Len(new)] # <<>>
    OBVIOUS
  <2>1. PICK n, k \in Nat : Moves(G, n, k)
    BY <1>3, HowFar
  <2>2. End(new)[2] = IF n = 0 THEN s.x + k ELSE k
    BY <1>2, <1>3, <2>1, EndAfter
  <2>3. n = 0
    <3>1. Len(G) = 1
      BY <1>1, <1>8
    <3>2. EndOf(<<0, 0>>, G) = <<0, 0 + Len(G[1])>>
      BY <3>1 DEF EndOf
    <3>3. EndOf(<<0, 0>>, G) = IF n = 0 THEN <<0, 0 + k>> ELSE <<0 + n, k>>
      <4>1. <<0, 0>> \in Int \X Int
        OBVIOUS
      <4> QED BY <2>1, <4>1 DEF Moves
    <3> QED BY <2>1, <3>2, <3>3
  <2>4. End(new)[2] # 0
    BY <1>1, <2>1, <2>2, <2>3
  <2> QED BY <1>4, <2>4, EmptyEndIs DEF EmptyEnd
<1> QED BY <1>4, <1>5, <1>6, <1>7, <1>8, <1>9, <1>10 DEF JoinedTextIs, new

LEMMA LineDeleted ==
  ASSUME NEW s \in States, NEW action \in {"BACK", "DEL"},
         Good(s) /\ s.x = Len(CurLine(s)) /\ s.cur < Len(s.lines)
  PROVE  DeletionIs(s, Deletion(s, action))
<1> DEFINE new == JoinedText(s)
           nn == NoNewlines \/ s.cur + 1 < Len(s.lines)
           z == Counted(s.size - 1)
           m == IF s.mark = NoMark THEN NoMark ELSE JoinedMark(s.mark, Cursor(s))
           line == CurLine(s)
           s2 == AddUndo(s, action)
           s3 == [s2 EXCEPT !.lines = JoinLines(@, s.cur, line \o @[s.cur + 1]),
                            !.mark = MarkAfterJoin(@, s.cur, s.x, TRUE),
                            !.size = Counted(@ - 1), !.mod = TRUE]
           t == Magicline(s3, nn)
<1>1. CursorIn(s) /\ Marks(s) /\ Sizes(s) /\ Magic(s) /\ ~s.ub /\ TopOK(s) /\ TopLine(s)
      /\ s.cur \in Nat \ {0} /\ s.x \in Nat /\ Len(CurLine(s)) \in Nat /\ Len(s.lines) \in Nat
  BY CursorLine DEF Good, Sound
<1>2. JoinedTextIs(s)
  BY JoinedTextDone
<1>3. AddedIs(s, action, s2) /\ NewItemIs(s, action)
  BY <1>1, AddUndoDone, NewItemMade DEF Actions
<1>4. s2 \in States /\ SameText(s, s2) /\ TopOK(s2) /\ Fields(s, s2)
  BY <1>3, SameFields DEF AddedIs
<1>5. Deletion(s, action) = t
  BY DEF Deletion
<1>6. MarkAfterJoin(s.mark, s.cur, s.x, TRUE) = m
  <2>1. CASE s.mark = NoMark
    BY <2>1 DEF MarkAfterJoin
  <2>2. CASE s.mark # NoMark
    <3>1. s.mark[1] \in Int
      BY <2>2 DEF States
    <3> QED BY <1>1, <2>2, <3>1 DEF MarkAfterJoin, JoinedMark, Cursor
  <2> QED BY <2>1, <2>2
<1> HIDE DEF s2
<1>7. s3 = [s2 EXCEPT !.lines = JoinLines(s.lines, s.cur, line \o s.lines[s.cur + 1]),
                      !.mark = MarkAfterJoin(s.mark, s.cur, s.x, TRUE),
                      !.size = z, !.mod = TRUE]
  BY <1>4 DEF Fields
<1>8. z \in Int /\ (CountSize => z = TotSize(new))
  <2>1. s.size \in Int
    BY DEF States
  <2> QED BY <1>1, <1>2, <2>1 DEF Counted, Sizes, JoinedTextIs
<1>9. m \in {NoMark} \cup (Int \X Int)
  BY <1>2, PlaceInts DEF JoinedTextIs
<1>10. new \in Texts /\ JoinLines(s.lines, s.cur, line \o s.lines[s.cur + 1]) = new /\ s.cur \in Int /\ s.x \in Int
       /\ nn \in BOOLEAN
  BY <1>1, <1>2, EditorAssumption DEF JoinedTextIs
<1> HIDE DEF s3, new, z, m
<1>11. s3 = Edits(s2, new, m, s.cur, s.x, z)
  BY <1>4, <1>6, <1>7, <1>10 DEF Edits, States, Fields
<1>12. EditedIs(s2, s3, new, m, s.cur, s.x, z)
  BY <1>4, <1>8, <1>9, <1>10, <1>11, Edited
<1>13. s3 \in States /\ CursorIn(s3)
  BY <1>12, <1>2, CursorPlace DEF Cursor, EditedIs, InText, new, JoinedTextIs
<1>14. Sound(s3)
  BY <1>2, <1>12, <1>1, <1>4, <1>8, <1>13 DEF Marks, m, new, JoinedTextIs, EditedIs, Sizes, Fields,
     Sound
<1> HIDE DEF nn
<1>15. MagiclineIs(s3, nn)
  BY <1>10, <1>13, <1>14, MagiclineDone
<1> HIDE DEF t
<1>16. /\ t \in States /\ Sound(t) /\ Len(t.lines) \in Nat /\ Len(t.lines) >= Len(new)
       /\ t = [s3 EXCEPT !.lines = t.lines, !.size = t.size]
       /\ (nn => t = s3) /\ (nn = NoNewlines => Magic(t))
       /\ t.lines = new \/ t.lines = new \oplus Newline
  BY <1>12, <1>15 DEF MagiclineIs, t, EditedIs
<1>17. /\ t.cur = s.cur /\ t.x = s.x /\ t.items = s2.items /\ t.cu = s2.cu /\ t.last = s2.last
       /\ t.cutbuf = s.cutbuf /\ t.session = s.session
  BY <1>13, <1>16, <1>4, <1>12 DEF States, EditedIs, Fields
<1>18. Magic(t)
  <2>1. CASE nn /\ ~NoNewlines
    BY <1>2, <1>12, <1>16, <2>1 DEF Magic, JoinedTextIs, new, nn, EditedIs
  <2>2. CASE ~(nn /\ ~NoNewlines)
    <3>1. nn = NoNewlines
      BY <2>2, EditorAssumption DEF nn
    <3> QED BY <1>16, <3>1
  <2> QED BY <2>1, <2>2
<1>19. TopOK(t) /\ TopLine(t) /\ (s.items # <<>> => t.items # <<>>)
  <2>1. CASE s2 = s /\ DeletesFinalNewline(s, action)
    BY <1>1, <2>1, <1>2, <1>12, <1>13, <1>10, UnitIn, AppendProperties, <1>4, <1>17
       DEF DeletesFinalNewline, nn, JoinedTextIs, new, EditedIs, Magicline, t, States, Texts, TopOK,
       TopLine
  <2>2. CASE s2.items # <<>> /\ s2.items[1] = NewItem(s, action)
    BY <1>3, <2>2, <1>16, <1>17, <1>4 DEF NewItemIs, Sound, CursorIn, TopOK, TopLine
  <2>3. ~Contiguous(s, action)
    BY DEF Contiguous
  <2> QED BY <1>3, <2>1, <2>2, <2>3 DEF AddedIs, s2
<1> QED BY <1>5, <1>16, <1>17, <1>18, <1>19 DEF DeletionIs, Good

LEMMA DeletionGood ==
  ASSUME NEW s \in States, NEW action \in {"BACK", "DEL"}, Good(s)
  PROVE  DeletionIs(s, Deletion(s, action))
<1>1. s.x \in Nat /\ Len(CurLine(s)) \in Nat /\ s.x <= Len(CurLine(s))
  BY CursorLine DEF Good, Sound
<1>2. CASE s.x < Len(CurLine(s))
  BY <1>2, CharDeleted
<1>3. CASE s.x = Len(CurLine(s)) /\ s.cur < Len(s.lines)
  BY <1>3, LineDeleted
<1>4. CASE s.x = Len(CurLine(s)) /\ ~(s.cur < Len(s.lines))
  <2>1. Deletion(s, action) = s
    BY <1>1, <1>4 DEF Deletion
  <2> QED BY <2>1 DEF DeletionIs
<1> QED BY <1>1, <1>2, <1>3, <1>4

\* What a state being good is about.
Alike(s, t) ==
    /\ t \in States /\ t.lines = s.lines /\ t.cur = s.cur /\ t.x = s.x /\ t.mark = s.mark
    /\ t.size = s.size /\ t.ub = s.ub /\ t.items = s.items /\ t.cu = s.cu /\ t.last = s.last
LEMMA GoodAlike == \A s, t : Good(s) /\ Alike(s, t) => Good(t)
BY DEF Good, Alike, Sound, CursorIn, Marks, Sizes, Magic, TopOK, TopLine

\* The cursor moves.
LEMMA Moved ==
  ASSUME NEW s \in States, NEW p \in PositionsOf(s.lines), Good(s)
  PROVE  Good([s EXCEPT !.cur = p[1], !.x = p[2]])
<1> DEFINE c == p[1]
           x == p[2]
           t == [s EXCEPT !.cur = c, !.x = x]
<1>1. s.lines \in Texts
  BY DEF States
<1>2. c \in Int /\ x \in Int /\ c \in 1..Len(s.lines) /\ x \in 0..Len(s.lines[c])
  BY <1>1, PlaceIn, PlaceInts
<1> HIDE DEF c, x
<1>3. /\ t \in States /\ t.lines = s.lines /\ t.mark = s.mark /\ t.size = s.size /\ t.ub = s.ub
      /\ t.items = s.items /\ t.cu = s.cu /\ t.last = s.last /\ t.cur = c /\ t.x = x
  BY <1>2 DEF States
<1> HIDE DEF t
<1>4. Good(t)
  BY <1>2, <1>3 DEF Good, Sound, CursorIn, Marks, Sizes, Magic, TopOK, TopLine
<1> QED BY <1>4 DEF t, c, x

LEMMA LeftIn ==
  ASSUME NEW s \in States, CursorIn(s)
  PROVE  Cursor(Left(s)) \in PositionsOf(s.lines)
/\ Left(s) = [s EXCEPT !.cur = Cursor(Left(s))[1], !.x = Cursor(Left(s))[2]]
<1>1. s.lines \in Texts /\ s.cur \in Nat \ {0} /\ s.x \in Nat /\ Len(s.lines) \in Nat /\ s.cur <= Len(s.lines)
      /\ s.x \in 0..Len(s.lines[s.cur])
  BY CursorLine DEF States, CursorIn
<1>2. CASE s.x > 0
  <2> DEFINE x == s.x - 1
  <2>1. x \in 0..Len(s.lines[s.cur]) /\ x \in Int
    BY <1>1, <1>2
  <2>2. <<s.cur, x>> \in PositionsOf(s.lines)
    BY <1>1, <2>1, Place
  <2>3. Left(s) = [s EXCEPT !.x = x]
    BY <1>2 DEF Left
  <2> HIDE DEF x
  <2>4. Cursor(Left(s)) = <<s.cur, x>>
    BY <2>3 DEF Cursor, States
  <2>5. Left(s) = [s EXCEPT !.cur = s.cur, !.x = x]
    BY <2>3 DEF States
  <2> QED BY ONLY <2>2, <2>4, <2>5
<1>3. CASE s.x = 0 /\ s.cur > 1
  <2> DEFINE c == s.cur - 1
             x == Len(s.lines[c])
  <2>1. c \in 1..Len(s.lines)
    BY <1>1, <1>3
  <2>2. x \in 0..Len(s.lines[c])
    <3>1. x \in Nat
      BY <1>1, <2>1, LineIn, TextLen
    <3> QED BY <3>1
  <2>3. <<c, x>> \in PositionsOf(s.lines)
    BY <1>1, <2>1, <2>2, Place
  <2>4. Left(s) = [s EXCEPT !.cur = c, !.x = x]
    BY <1>3 DEF Left
  <2> HIDE DEF x, c
  <2>5. Cursor(Left(s)) = <<c, x>>
    BY <2>4 DEF Cursor, States
  <2>6. Cursor(Left(s))[1] = c /\ Cursor(Left(s))[2] = x
    BY <2>5
  <2> DEFINE t == Left(s)
             d == Cursor(t)[1]
             y == Cursor(t)[2]
  <2>7. d = c /\ y = x
    BY <2>6
  <2> HIDE DEF d, y
  <2>8. t = [s EXCEPT !.cur = d, !.x = y]
    BY <2>4, <2>7
  <2> QED BY <2>3, <2>5, <2>8 DEF d, y
<1>4. CASE s.x = 0 /\ ~(s.cur > 1)
  <2>1. Left(s) = s
    BY <1>4 DEF Left
  <2>2. s = [s EXCEPT !.cur = s.cur, !.x = s.x] /\ Cursor(s) = <<s.cur, s.x>>
    BY DEF States, Cursor
  <2>3. <<s.cur, s.x>> \in PositionsOf(s.lines)
    BY CursorPlace DEF InText, Cursor
  <2>4. Cursor(Left(s)) = <<s.cur, s.x>>
    BY <2>1, <2>2
  <2>5. Left(s) = [s EXCEPT !.cur = s.cur, !.x = s.x]
    BY <2>1, <2>2
  <2> QED BY ONLY <2>3, <2>4, <2>5
<1> QED BY <1>1, <1>2, <1>3, <1>4

LEMMA RightIn ==
  ASSUME NEW s \in States, CursorIn(s)
  PROVE  Cursor(Right(s)) \in PositionsOf(s.lines)
/\ Right(s) = [s EXCEPT !.cur = Cursor(Right(s))[1], !.x = Cursor(Right(s))[2]]
<1>1. s.lines \in Texts /\ s.cur \in Nat \ {0} /\ s.x \in Nat /\ Len(s.lines) \in Nat /\ s.cur <= Len(s.lines)
      /\ s.x \in 0..Len(s.lines[s.cur]) /\ Len(CurLine(s)) \in Nat /\ CurLine(s) = s.lines[s.cur]
  BY CursorLine DEF States, CursorIn, CurLine
<1>2. CASE s.x < Len(CurLine(s))
  <2> DEFINE x == s.x + 1
  <2>1. x \in 0..Len(s.lines[s.cur]) /\ x \in Int
    BY <1>1, <1>2
  <2>2. <<s.cur, x>> \in PositionsOf(s.lines)
    BY <1>1, <2>1, Place
  <2>3. Right(s) = [s EXCEPT !.x = x]
    BY <1>2 DEF Right
  <2> HIDE DEF x
  <2>4. Cursor(Right(s)) = <<s.cur, x>>
    BY <2>3 DEF Cursor, States
  <2>5. Right(s) = [s EXCEPT !.cur = s.cur, !.x = x]
    BY <2>3 DEF States
  <2> QED BY ONLY <2>2, <2>4, <2>5
<1>3. CASE ~(s.x < Len(CurLine(s))) /\ s.cur < Len(s.lines)
  <2> DEFINE c == s.cur + 1
  <2>1. c \in 1..Len(s.lines)
    BY <1>1, <1>3
  <2>2. 0 \in 0..Len(s.lines[c])
    <3>1. Len(s.lines[c]) \in Nat
      BY <1>1, <2>1, LineIn, TextLen
    <3> QED BY <3>1
  <2>3. <<c, 0>> \in PositionsOf(s.lines)
    BY <1>1, <2>1, <2>2, Place
  <2>4. Right(s) = [s EXCEPT !.cur = c, !.x = 0]
    BY <1>3 DEF Right
  <2> HIDE DEF c
  <2>5. Cursor(Right(s)) = <<c, 0>>
    BY <2>4 DEF Cursor, States
  <2>6. Cursor(Right(s))[1] = c /\ Cursor(Right(s))[2] = 0
    BY <2>5
  <2> DEFINE t == Right(s)
             d == Cursor(t)[1]
             y == Cursor(t)[2]
  <2>7. d = c /\ y = 0
    BY <2>6
  <2> HIDE DEF d, y
  <2>8. t = [s EXCEPT !.cur = d, !.x = y]
    BY <2>4, <2>7
  <2> QED BY <2>3, <2>5, <2>8 DEF d, y
<1>4. CASE ~(s.x < Len(CurLine(s))) /\ ~(s.cur < Len(s.lines))
  <2>1. Right(s) = s
    BY <1>4 DEF Right
  <2>2. s = [s EXCEPT !.cur = s.cur, !.x = s.x] /\ Cursor(s) = <<s.cur, s.x>>
    BY DEF States, Cursor
  <2>3. <<s.cur, s.x>> \in PositionsOf(s.lines)
    BY CursorPlace DEF InText, Cursor
  <2>4. Cursor(Right(s)) = <<s.cur, s.x>>
    BY <2>1, <2>2
  <2>5. Right(s) = [s EXCEPT !.cur = s.cur, !.x = s.x]
    BY <2>1, <2>2
  <2> QED BY ONLY <2>3, <2>4, <2>5
<1> QED BY <1>2, <1>3, <1>4

LEMMA LeftGood ==
  ASSUME NEW s \in States, Good(s)
  PROVE  Good(Left(s))
<1> DEFINE p == Cursor(Left(s))
<1>1. p \in PositionsOf(s.lines) /\ Left(s) = [s EXCEPT !.cur = p[1], !.x = p[2]]
  BY LeftIn DEF Good, Sound
<1> HIDE DEF p
<1> QED BY <1>1, Moved

LEMMA RightGood ==
  ASSUME NEW s \in States, Good(s)
  PROVE  Good(Right(s))
<1> DEFINE p == Cursor(Right(s))
<1>1. p \in PositionsOf(s.lines) /\ Right(s) = [s EXCEPT !.cur = p[1], !.x = p[2]]
  BY RightIn DEF Good, Sound
<1> HIDE DEF p
<1> QED BY <1>1, Moved

LEMMA BackspaceGood ==
  ASSUME NEW s \in States, Good(s)
  PROVE  Good(Backspace(s))
<1>1. Good(Left(s)) /\ Left(s) \in States
  BY LeftGood DEF Good
<1> DEFINE t == Left(s)
<1> HIDE DEF t
<1>2. Good(Deletion(t, "BACK"))
  BY <1>1, DeletionGood DEF DeletionIs, t
<1> QED BY <1>2 DEF Backspace, t

\* The order of positions.
LEMMA BeforeOrder ==
  ASSUME NEW p \in Int \X Int, NEW q \in Int \X Int
  PROVE  /\ ~(Before(p, q) /\ Before(q, p))
         /\ ~Before(p, q) /\ ~Before(q, p) => p = q
<1>1. p[1] \in Int /\ p[2] \in Int /\ q[1] \in Int /\ q[2] \in Int /\ p = <<p[1], p[2]>> /\ q = <<q[1], q[2]>>
  OBVIOUS
<1>2. ~(Before(p, q) /\ Before(q, p))
  BY <1>1 DEF Before
<1>3. ~Before(p, q) /\ ~Before(q, p) => p[1] = q[1] /\ p[2] = q[2]
  BY <1>1 DEF Before
<1> QED BY <1>1, <1>2, <1>3

LEMMA LastPlace ==
  ASSUME NEW t \in Texts, NEW p \in PositionsOf(t)
  PROVE  ~Before(End(t), p)
<1> DEFINE l == p[1]
           x == p[2]
           n == Len(t)
           k == Len(t[n])
<1>1. l \in 1..n /\ x \in 0..Len(t[l]) /\ n \in Nat \ {0} /\ k \in Nat
  BY PlaceIn, TextLen, LineIn
<1>2. End(t)[1] = n /\ End(t)[2] = k
  BY DEF End
<1>3. l = n => x <= k
  BY <1>1
<1> HIDE DEF l, x, n, k
<1>4. ~(n < l \/ (n = l /\ k < x))
  BY <1>1, <1>3
<1> QED BY <1>2, <1>4 DEF Before, l, x, n, k

\* The region that is cut: from where the cursor or the mark is, with no mark behind it.
RegionIs(s, tillEof) ==
    LET r == CutRegion(s, tillEof) IN
    /\ r[1] \in PositionsOf(s.lines) /\ r[2] \in PositionsOf(s.lines)
    /\ ~Before(r[2], r[1])
    /\ s.mark # NoMark => ~Before(r[2], s.mark)
    /\ tillEof \/ s.mark = NoMark => r[1][1] = s.cur
    /\ ~tillEof /\ s.mark # NoMark =>
         r = IF Before(s.mark, Cursor(s)) THEN <<s.mark, Cursor(s)>> ELSE <<Cursor(s), s.mark>>

LEMMA RegionOrder ==
  ASSUME NEW s \in States, NEW tillEof \in BOOLEAN, CursorIn(s) /\ Marks(s)
  PROVE  RegionIs(s, tillEof)
<1> DEFINE eol == <<s.cur, Len(CurLine(s))>>
           bot == Len(s.lines)
           next == IF s.cur < bot THEN <<s.cur + 1, 0>> ELSE eol
           P == PositionsOf(s.lines)
           r == CutRegion(s, tillEof)
           last == <<bot, Len(s.lines[bot])>>
<1>1. s.lines \in Texts /\ s.cur \in Nat \ {0} /\ s.x \in Nat /\ bot \in Nat \ {0} /\ s.cur \in 1..bot
      /\ s.x \in 0..Len(s.lines[s.cur]) /\ Len(CurLine(s)) \in Nat /\ CurLine(s) = s.lines[s.cur]
      /\ s.x <= Len(CurLine(s))
  BY CursorLine DEF States, CursorIn, CurLine
<1>2. Cursor(s) \in P /\ Cursor(s) = <<s.cur, s.x>>
  BY CursorPlace DEF InText, Cursor
<1>3. eol \in P
  BY <1>1, Place
<1>4. last \in P /\ End(s.lines) = last
  BY <1>1, EndOfText DEF End
<1>5. <<s.cur, 0>> \in P
  BY <1>1, Place
<1>6. next \in P /\ next[1] \in Int /\ next[2] \in Int
      /\ (next[1] = s.cur + 1 \/ (next[1] = s.cur /\ next[2] = Len(CurLine(s))))
  <2>1. CASE s.cur < bot
    <3> DEFINE c == s.cur + 1
    <3>1. c \in 1..bot
      BY <1>1, <2>1
    <3>2. 0 \in 0..Len(s.lines[c])
      BY <1>1, <3>1, TextLen, LineIn
    <3>3. <<c, 0>> \in P
      BY <1>1, <3>1, <3>2, Place
    <3> QED BY <1>1, <2>1, <3>3
  <2>2. CASE ~(s.cur < bot)
    BY <1>1, <1>3, <2>2
  <2> QED BY <2>1, <2>2
<1>7. s.mark # NoMark => s.mark \in P /\ s.mark \in Int \X Int
  BY <1>1, PlaceInts DEF Marks
<1>8. Cursor(s) \in Int \X Int
  BY <1>1, <1>2, PlaceInts
<1> HIDE DEF next, eol, last, P
<1>9. CASE tillEof
  <2>1. r = <<Cursor(s), last>>
    BY <1>9 DEF CutRegion, last
  <2>2. ~Before(last, Cursor(s)) /\ (s.mark # NoMark => ~Before(last, s.mark))
    BY <1>1, <1>2, <1>4, <1>7, LastPlace DEF P
  <2>3. r[1] = Cursor(s) /\ r[2] = last /\ r[1][1] = s.cur
    BY <1>2, <2>1
  <2> HIDE DEF r
  <2> QED BY <1>2, <1>4, <1>9, <2>2, <2>3 DEF RegionIs, P, r
<1>10. CASE ~tillEof /\ s.mark # NoMark
  <2>1. r = IF Before(s.mark, Cursor(s)) THEN <<s.mark, Cursor(s)>> ELSE <<Cursor(s), s.mark>>
    BY <1>10 DEF CutRegion
  <2>2. CASE Before(s.mark, Cursor(s))
    BY <1>7, <1>8, <1>10, <2>2, BeforeOrder, <1>2, <2>1 DEF RegionIs, P
  <2>3. CASE ~Before(s.mark, Cursor(s))
    BY <1>7, <1>10, BeforeOrder, <1>2, <2>1, <2>3 DEF RegionIs, P
  <2> QED BY <2>2, <2>3
<1>11. CASE ~tillEof /\ s.mark = NoMark /\ CutToEnd
  <2> DEFINE q == IF s.x < Len(CurLine(s)) THEN eol ELSE next
  <2>1. r = <<Cursor(s), q>>
    BY <1>11 DEF CutRegion, eol, next
  <2>2. q \in P
    BY <1>3, <1>6
  <2>3. ~Before(q, Cursor(s))
    <3>1. CASE s.x < Len(CurLine(s))
      BY <1>1, <1>2, <3>1 DEF Before, eol
    <3>2. CASE ~(s.x < Len(CurLine(s)))
      BY <1>1, <1>2, <1>6, <3>2 DEF Before
    <3> QED BY <3>1, <3>2
  <2> HIDE DEF q
  <2> QED BY <1>2, <1>11, <2>1, <2>2, <2>3 DEF RegionIs, P
<1>12. CASE ~tillEof /\ s.mark = NoMark /\ ~CutToEnd
  <2> DEFINE b == <<s.cur, 0>>
  <2>1. r = <<b, next>>
    BY <1>12 DEF CutRegion, eol, next
  <2>2. ~Before(next, b)
    BY <1>1, <1>6 DEF Before
  <2>3. b \in P /\ b[1] = s.cur
    BY <1>5
  <2> HIDE DEF b
  <2> QED BY <1>6, <1>12, <2>1, <2>2, <2>3 DEF RegionIs, P
<1> QED BY <1>9, <1>10, <1>11, <1>12

\* move_to_filestruct.
MovedIs(s, p, q, nn) ==
    LET t == MoveToCutbuffer(s, p, q, nn) IN
    /\ t \in States /\ Sound(t)
    /\ Magic(s) /\ nn = NoNewlines => Magic(t)
    /\ t.items = s.items /\ t.cu = s.cu /\ t.last = s.last /\ t.keep = s.keep /\ t.session = s.session
    /\ p # q => /\ t.cur = p[1] /\ t.x = p[2] /\ t.cutbuf # NULL
                /\ nn => t.lines = Without(s.lines, p, q)
    /\ p = q => t = s

LEMMA MoveDone ==
  ASSUME NEW s \in States, NEW p \in PositionsOf(s.lines), NEW q \in PositionsOf(s.lines),
         NEW nn \in BOOLEAN,
         /\ Sound(s) /\ ~Before(q, p)
         /\ s.mark # NoMark => ~Before(q, s.mark)
  PROVE  MovedIs(s, p, q, nn)
<1> DEFINE t == MoveToCutbuffer(s, p, q, nn)
           cut == Region(s.lines, p, q)
           B == TextBefore(s.lines, p)
           F == TextFrom(s.lines, q)
           new == Without(s.lines, p, q)
           z == Counted(s.size - TotSize(cut))
           buf == IF s.cutbuf = NULL THEN cut ELSE Attach(s.cutbuf, cut)
           m == MarkAfterRemoval(s.mark, p, q)
           c == p[1]
           x == p[2]
           s3 == [s EXCEPT !.lines = new, !.size = z, !.cutbuf = buf, !.cur = c, !.x = x,
                           !.sameline = FALSE, !.mark = m]
<1>1. s.lines \in Texts /\ s.cutbuf \in Seq(Line) /\ s.size \in Int
  BY DEF States
<1>2. CASE p = q
  <2>1. t = s
    BY <1>2 DEF MoveToCutbuffer
  <2> QED BY <1>2, <2>1 DEF MovedIs
<1>3. CASE p # q
  <2>1. t = Magicline(s3, nn)
    BY <1>3 DEF MoveToCutbuffer, InText
  <2>2. cut \in Texts /\ B \in Texts /\ F \in Texts /\ s.lines = B \oplus (cut \oplus F) /\ End(B) = p
        /\ new = B \oplus F
    BY <1>1, TakenApart, PlacesBetween DEF Between, Without, \oplus
  <2>3. c \in Int /\ x \in Int /\ p = <<c, x>> /\ p \in Int \X Int
    BY <1>1, PlaceInts
  <2> HIDE DEF B, F, cut, new
  <2>4. new \in Texts /\ TotSize(new) = TotSize(s.lines) - TotSize(cut) /\ TotSize(cut) \in Int
    BY <2>2, AttachIn, SizePlus, SizeNat
  <2>5. z \in Int /\ (CountSize => z = TotSize(new))
    BY <1>1, <2>4 DEF Counted, Sound, Sizes
  <2>6. buf \in Seq(Line) /\ buf # NULL
    BY <1>1, <2>2, AttachIn DEF NULL, Texts, \oplus
  <2>7. m \in {NoMark} \cup (Int \X Int) /\ (m # NoMark => m \in PositionsOf(new))
    <3>1. p \in PositionsOf(new)
      BY <2>2, EndPosition
    <3>2. CASE m = p
      BY <2>3, <3>1, <3>2
    <3>3. CASE m # p /\ s.mark # NoMark
      <4>1. m = s.mark /\ Before(m, p) /\ m \in PositionsOf(s.lines)
        BY <3>3 DEF MarkAfterRemoval, Sound, Marks
      <4>2. m \in Int \X Int
        BY <1>1, <4>1, PlaceInts
      <4>3. ~Before(p, m)
        BY <2>3, <4>1, <4>2, BeforeOrder
      <4>4. m \in PositionsOf(B)
        BY <1>1, <4>1, <4>3, PlaceOrder DEF B
      <4> QED BY <2>2, <4>2, <4>4, FirstPlaces
    <3>4. CASE s.mark = NoMark
      BY <3>4 DEF MarkAfterRemoval
    <3> QED BY <3>2, <3>3, <3>4
  <2> HIDE DEF z, buf, m, c, x
  <2>8. /\ s3.lines = new /\ s3.size = z /\ s3.cutbuf = buf /\ s3.cur = c /\ s3.x = x /\ s3.mark = m
        /\ s3.items = s.items /\ s3.cu = s.cu /\ s3.last = s.last /\ s3.keep = s.keep /\ s3.ub = s.ub
        /\ s3.session = s.session
    BY DEF States
  <2>9. s3 \in States
    <3> DEFINE a == [s EXCEPT !.lines = new, !.size = z, !.cutbuf = buf]
    <3>1. a \in States
      BY <2>4, <2>5, <2>6 DEF States
    <3>2. s3 = [a EXCEPT !.cur = c, !.x = x, !.sameline = FALSE, !.mark = m]
      BY DEF States
    <3> HIDE DEF a, s3
    <3> QED BY <2>3, <2>7, <3>1, <3>2 DEF States
  <2> HIDE DEF s3
  <2>10. Sound(s3)
    <3>1. CursorIn(s3)
      BY <2>2, <2>3, <2>8, <2>9, CursorAtEnd
    <3> QED BY <2>5, <2>7, <2>8, <3>1 DEF Sound, Marks, Sizes
  <2>11. MagiclineIs(s3, nn)
    BY <2>9, <2>10, MagiclineDone
  <2> HIDE DEF t
  <2>12. /\ t \in States /\ Sound(t) /\ (nn = NoNewlines => Magic(t)) /\ (nn => t = s3)
         /\ t = [s3 EXCEPT !.lines = t.lines, !.size = t.size]
    BY <2>1, <2>11 DEF MagiclineIs
  <2>13. /\ t.items = s3.items /\ t.cu = s3.cu /\ t.last = s3.last /\ t.keep = s3.keep /\ t.session = s3.session
         /\ t.cur = s3.cur /\ t.x = s3.x /\ t.cutbuf = s3.cutbuf
    BY <2>9, <2>12 DEF States
  <2> QED BY <1>3, <2>6, <2>8, <2>12, <2>13 DEF MovedIs, t, c, x, new
<1> QED BY <1>2, <1>3

\* A run of cuts into one cutbuffer does not go on at a mark, unless it cut to the end of the file.
Collects(s) == s.keep /\ s.mark # NoMark => s.items # <<>> /\ s.items[1].type = "CUT_EOF"

\* The item that a cut is recorded in.
CutItemIs(s, tillEof, u) ==
    /\ u.type = IF tillEof THEN "CUT_EOF" ELSE "CUT"
    /\ u.mset \in BOOLEAN
    /\ u.mset => /\ ~tillEof /\ s.mark # NoMark
                 /\ u.lineno = s.cur /\ u.begin = s.x /\ u.mlineno = s.mark[1] /\ u.mx = s.mark[2]
    /\ ~u.mset => u.mlineno = s.cur /\ (tillEof \/ s.mark = NoMark)
    /\ tillEof => u.lineno = s.cur
LEMMA CutItemMade ==
  ASSUME NEW s \in States, NEW tillEof \in BOOLEAN, Good(s) /\ Collects(s)
  PROVE  LET a == IF tillEof THEN "CUT_EOF" ELSE "CUT"
             t == AddUndo(s, a)
         IN  AddedIs(s, a, t) /\ t.items # <<>> /\ CutItemIs(s, tillEof, t.items[1])
<1> DEFINE a == IF tillEof THEN "CUT_EOF" ELSE "CUT"
           t == AddUndo(s, a)
<1>1. a \in Actions /\ CursorIn(s) /\ TopOK(s) /\ a \notin {"BACK", "DEL"}
  BY DEF Actions, Good, Sound
<1>2. AddedIs(s, a, t) /\ NewItemIs(s, a)
  BY <1>1, AddUndoDone, NewItemMade
<1> HIDE DEF t
<1>3. ASSUME Contiguous(s, a) \/ DeletesFinalNewline(s, a)
      PROVE t.items # <<>> /\ CutItemIs(s, tillEof, t.items[1])
  <2>1. Contiguous(s, a) /\ a = "CUT" /\ ~tillEof
    BY <1>3 DEF Contiguous, DeletesFinalNewline
  <2>2. /\ HasUndo(s) /\ CurUndo(s).mlineno = s.cur
        /\ CurUndo(s).type = "CUT" /\ ~CurUndo(s).mset /\ s.keep
    BY <2>1 DEF Contiguous
  <2>3. s.items # <<>> /\ CurUndo(s) = s.items[1] /\ t = s
    BY <1>1, <1>3, <2>2 DEF TopOK, States, AddUndo, t, HasUndo, CurUndo
  <2>4. s.mark = NoMark
    BY <2>2, <2>3 DEF Collects
  <2>5. s.items[1].mset \in BOOLEAN
    <3>1. s.items[1] \in Items
      BY <2>3, EmptySeq DEF States
    <3> QED BY <3>1 DEF Items
  <2> QED BY <2>1, <2>2, <2>3, <2>4, <2>5 DEF CutItemIs
<1>4. ASSUME ~(Contiguous(s, a) \/ DeletesFinalNewline(s, a))
      PROVE t.items # <<>> /\ CutItemIs(s, tillEof, t.items[1])
  <2> DEFINE u == NewItem(s, a)
  <2>1. t.items # <<>> /\ t.items[1] = u
    BY <1>2, <1>4 DEF AddedIs
  <2>2. CASE tillEof
    <3>1. u = BlankItem(s, "CUT_EOF")
      BY <2>2 DEF NewItem
    <3> HIDE DEF u
    <3>2. u.type = "CUT_EOF" /\ u.mset = FALSE /\ u.mlineno = s.cur /\ u.lineno = s.cur
      BY <3>1 DEF BlankItem
    <3> QED BY <2>1, <2>2, <3>2 DEF CutItemIs
  <2>3. CASE ~tillEof /\ s.mark # NoMark
    <3>1. u = [BlankItem(s, "CUT") EXCEPT !.mset = TRUE, !.mlineno = s.mark[1], !.mx = s.mark[2]]
      BY <2>3 DEF NewItem, CutItem
    <3> HIDE DEF u
    <3>2. /\ u.type = "CUT" /\ u.mset = TRUE /\ u.mlineno = s.mark[1] /\ u.mx = s.mark[2]
          /\ u.lineno = s.cur /\ u.begin = s.x
      BY <3>1 DEF BlankItem
    <3> QED BY <2>1, <2>3, <3>2 DEF CutItemIs
  <2>4. CASE ~tillEof /\ s.mark = NoMark
    <3> DEFINE b == BlankItem(s, "CUT")
    <3>1. u = b \/ u = [b EXCEPT !.begin = 0, !.xflags = "WAS_WHOLE_LINE"]
      BY <2>4 DEF NewItem, CutItem
    <3>2. u.type = "CUT" /\ u.mset = FALSE /\ u.mlineno = s.cur
      <4>1. CASE u = b
        <5> HIDE DEF u
        <5> QED BY <4>1 DEF BlankItem
      <4>2. CASE u = [b EXCEPT !.begin = 0, !.xflags = "WAS_WHOLE_LINE"]
        <5> HIDE DEF u
        <5> QED BY <4>2 DEF BlankItem
      <4> QED BY <3>1, <4>1, <4>2
    <3> HIDE DEF u, b
    <3> QED BY <2>1, <2>4, <3>2 DEF CutItemIs
  <2> QED BY <2>2, <2>3, <2>4
<1>5. t.items # <<>> /\ CutItemIs(s, tillEof, t.items[1])
  BY <1>3, <1>4
<1> QED BY <1>2, <1>5 DEF t

\* do_cut_text, as do_copy_text calls it, too.
CutOutIs(s, tillEof, nn) ==
    LET r == CutRegion(s, tillEof)
        t == CutOut(s, tillEof, nn)
    IN  /\ t \in States /\ Sound(t)
        /\ Magic(s) /\ nn = NoNewlines => Magic(t)
        /\ t.items = s.items /\ t.cu = s.cu /\ t.last = s.last /\ t.session = s.session /\ t.keep = TRUE
        /\ tillEof \/ t.mark = NoMark
        /\ r[1] # r[2] => /\ t.cur = r[1][1] /\ t.x = r[1][2] /\ t.cutbuf # NULL
                          /\ nn => t.lines = Without(s.lines, r[1], r[2])
        /\ r[1] = r[2] => /\ t.cur = s.cur /\ t.x = s.x
                          /\ t.lines = s.lines /\ t.size = s.size
LEMMA CutOutDone ==
  ASSUME NEW s \in States, NEW tillEof \in BOOLEAN, NEW nn \in BOOLEAN, Sound(s)
  PROVE  CutOutIs(s, tillEof, nn)
<1> DEFINE r == CutRegion(s, tillEof)
           p == r[1]
           q == r[2]
           buf == IF s.keep THEN s.cutbuf ELSE NULL
           s2 == [s EXCEPT !.cutbuf = buf, !.keep = TRUE]
           mv == MoveToCutbuffer(s2, p, q, nn)
           t == CutOut(s, tillEof, nn)
<1>1. RegionIs(s, tillEof)
  BY RegionOrder DEF Sound
<1>2. /\ p \in PositionsOf(s.lines) /\ q \in PositionsOf(s.lines) /\ ~Before(q, p)
      /\ s.mark # NoMark => ~Before(q, s.mark)
  BY <1>1 DEF RegionIs
<1>3. buf \in Seq(Line)
  BY DEF States, NULL
<1>4. t = IF tillEof THEN mv ELSE [mv EXCEPT !.mark = NoMark]
  <2>1. [s EXCEPT !.cutbuf = IF s.keep THEN @ ELSE NULL, !.keep = TRUE] = s2
    BY DEF States
  <2> HIDE DEF s2
  <2> QED BY <2>1 DEF CutOut
<1> HIDE DEF buf
<1>5. /\ s2 \in States /\ s2.lines = s.lines /\ s2.cur = s.cur /\ s2.x = s.x /\ s2.mark = s.mark /\ s2.size = s.size
      /\ s2.ub = s.ub /\ s2.items = s.items /\ s2.cu = s.cu /\ s2.last = s.last /\ s2.session = s.session
      /\ s2.keep = TRUE
  BY <1>3 DEF States
<1> HIDE DEF s2, p, q, r
<1>6. Sound(s2) /\ (Magic(s) => Magic(s2))
  BY <1>5 DEF Sound, CursorIn, Marks, Sizes, Magic
<1>7. MovedIs(s2, p, q, nn)
  BY <1>2, <1>5, <1>6, MoveDone
<1> HIDE DEF mv, t
<1>8. /\ mv \in States /\ Sound(mv) /\ (Magic(s) /\ nn = NoNewlines => Magic(mv))
      /\ mv.items = s.items /\ mv.cu = s.cu /\ mv.last = s.last /\ mv.keep = TRUE /\ mv.session = s.session
      /\ p # q => /\ mv.cur = p[1] /\ mv.x = p[2] /\ mv.cutbuf # NULL
                  /\ nn => mv.lines = Without(s.lines, p, q)
      /\ p = q => mv = s2
  BY <1>5, <1>6, <1>7 DEF MovedIs, mv
<1>9. CASE tillEof
  <2>1. t = mv
    BY <1>4, <1>9
  <2> QED BY <1>5, <1>8, <1>9, <2>1 DEF CutOutIs, p, q, r, t
<1>10. CASE ~tillEof
  <2>1. t = [mv EXCEPT !.mark = NoMark]
    BY <1>4, <1>10
  <2>2. /\ t \in States /\ t.lines = mv.lines /\ t.cur = mv.cur /\ t.x = mv.x /\ t.mark = NoMark /\ t.size = mv.size
        /\ t.ub = mv.ub /\ t.items = mv.items /\ t.cu = mv.cu /\ t.last = mv.last /\ t.session = mv.session
        /\ t.keep = mv.keep /\ t.cutbuf = mv.cutbuf
    BY <1>8, <2>1 DEF States
  <2>3. Sound(t) /\ (Magic(s) /\ nn = NoNewlines => Magic(t))
    BY <1>8, <2>2 DEF Sound, CursorIn, Marks, Sizes, Magic
  <2> QED BY <1>5, <1>8, <1>10, <2>2, <2>3 DEF CutOutIs, p, q, r, t
<1> QED BY <1>9, <1>10

\* do_cut_text: cutting records where the text came from.
LEMMA CutGood ==
  ASSUME NEW s \in States, NEW tillEof \in BOOLEAN, Good(s) /\ Collects(s)
  PROVE  LET t == CutText(AddUndo(s, IF tillEof THEN "CUT_EOF" ELSE "CUT"), tillEof)
         IN  Good(t) /\ Collects(t)
<1> DEFINE a == IF tillEof THEN "CUT_EOF" ELSE "CUT"
           s1 == AddUndo(s, a)
           u == s1.items[1]
           r == CutRegion(s1, tillEof)
           t0 == CutOut(s1, tillEof, NoNewlines)
           t1 == [t0 EXCEPT !.mod = TRUE]
           t == UpdateUndo(t1, a)
<1>1. AddedIs(s, a, s1) /\ s1.items # <<>> /\ CutItemIs(s, tillEof, u)
  BY CutItemMade
<1>2. s1 \in States /\ SameText(s, s1) /\ TopOK(s1) /\ Fields(s, s1) /\ Sound(s1) /\ Magic(s1)
  BY <1>1, SameFields, SoundSame DEF AddedIs, Good
<1>3. CutOutIs(s1, tillEof, NoNewlines)
  BY <1>2, CutOutDone, EditorAssumption
<1>4. RegionIs(s1, tillEof)
  BY <1>2, RegionOrder DEF Sound
<1> HIDE DEF s1, t0
<1>5. /\ t0 \in States /\ Sound(t0) /\ Magic(t0) /\ t0.items = s1.items /\ t0.cu = s1.cu /\ t0.last = s1.last
      /\ tillEof \/ t0.mark = NoMark
      /\ r[1] # r[2] => t0.cur = r[1][1] /\ t0.cutbuf # NULL
      /\ r[1] = r[2] => t0.cur = s1.cur
  BY <1>2, <1>3 DEF CutOutIs, t0
<1> HIDE DEF r
<1>6. /\ t1 \in States /\ t1.lines = t0.lines /\ t1.cur = t0.cur /\ t1.x = t0.x /\ t1.mark = t0.mark
      /\ t1.size = t0.size /\ t1.ub = t0.ub /\ t1.items = s1.items /\ t1.cu = s1.cu /\ t1.last = s1.last
      /\ t1.cutbuf = t0.cutbuf
  BY <1>5 DEF States
<1> HIDE DEF t1
<1>7. Sound(t1) /\ Magic(t1) /\ TopOK(t1)
  BY <1>2, <1>5, <1>6 DEF Sound, CursorIn, Marks, Sizes, Magic, TopOK
<1>8. CutText(s1, tillEof) = t
  <2>1. ~t1.ub
    BY <1>7 DEF Sound
  <2> QED BY <2>1 DEF CutText, t1, t0
<1>10. tillEof \/ s.mark = NoMark => t0.cur = s.cur
  BY <1>2, <1>4, <1>5 DEF RegionIs, Fields, r
<1>11. CutUpdatedIs(t1, t)
  <2>1. t1.last = a
    BY <1>1, <1>2, <1>6 DEF TopOK, CutItemIs
  <2>2. a = "CUT_EOF" => tillEof
    OBVIOUS
  <2>3. a = "CUT_EOF" => t1.cur = CurUndo(t1).lineno
    <3> SUFFICES ASSUME tillEof PROVE t1.cur = CurUndo(t1).lineno
      BY <2>2
    <3>1. t1.cur = s.cur
      BY <1>6, <1>10
    <3>2. u.lineno = s.cur
      BY <1>1 DEF CutItemIs
    <3>3. CurUndo(t1) = u
      BY <1>6, <1>7 DEF CurUndo, TopOK
    <3> QED BY <3>1, <3>2, <3>3
  <2>4. a \in {"CUT", "CUT_EOF"}
    OBVIOUS
  <2> HIDE DEF a
  <2> QED BY <1>6, <1>7, <2>1, <2>3, <2>4, UpdateCutDone
<1> DEFINE l == IF t1.cutbuf # NULL /\ u.mset /\ Before(<<u.lineno, u.begin>>, <<u.mlineno, u.mx>>)
                THEN u.lineno ELSE u.mlineno
<1>12. l = t1.cur
  <2>1. CASE ~u.mset
    BY <1>1, <1>6, <1>10, <2>1 DEF CutItemIs
  <2>2. CASE u.mset
    <3>1. /\ ~tillEof /\ s.mark # NoMark
          /\ u.lineno = s.cur /\ u.begin = s.x /\ u.mlineno = s.mark[1] /\ u.mx = s.mark[2]
      BY <1>1, <2>2 DEF CutItemIs
    <3>2. s1.mark = s.mark /\ Cursor(s1) = <<s.cur, s.x>> /\ s1.cur = s.cur
      BY <1>2 DEF Fields, Cursor
    <3> DEFINE c == <<s.cur, s.x>>
               m == s.mark
    <3>3. r = IF Before(m, c) THEN <<m, c>> ELSE <<c, m>>
      BY <1>4, <3>1, <3>2 DEF RegionIs, r
    <3>4. c \in Int \X Int /\ m \in Int \X Int /\ c[1] = s.cur /\ m = <<m[1], m[2]>>
      BY <3>1 DEF States
    <3>5. l = IF t1.cutbuf # NULL /\ Before(c, m) THEN s.cur ELSE m[1]
      <4>1. Before(<<u.lineno, u.begin>>, <<u.mlineno, u.mx>>) <=> Before(c, m)
        BY <3>1, <3>4
      <4> HIDE DEF c, m
      <4> QED BY <2>2, <3>1, <4>1 DEF m
    <3> HIDE DEF l, c, m, u
    <3>6. CASE Before(m, c)
      BY <3>3, <3>4, <3>6, BeforeOrder, <1>5, <1>6, <3>5
    <3>7. CASE ~Before(m, c) /\ Before(c, m)
      BY <3>3, <3>7, <1>5, <1>6, <3>4, <3>5
    <3>8. CASE ~Before(m, c) /\ ~Before(c, m)
      BY <3>3, <3>4, <3>8, BeforeOrder, <1>5, <1>6, <3>2, <3>5
    <3> QED BY <3>6, <3>7, <3>8
  <2> QED BY <1>1, <2>1, <2>2 DEF CutItemIs
<1>13. t1.cur \in 1..Len(t1.lines)
  BY <1>7 DEF Sound, CursorIn
<1> HIDE DEF t, a
<1>14. /\ t \in States /\ SameText(t1, t) /\ TopOK(t) /\ t.items # <<>>
       /\ t.items[1].type = u.type /\ t.items[1].mlineno = l /\ Fields(t1, t)
  BY <1>6, <1>11, SameFields DEF CutUpdatedIs
<1>15. Good(t)
  BY <1>14, <1>12, <1>13, <1>6, <1>7, SoundSame DEF Fields, TopLine, Good
<1>16. Collects(t)
  <2>1. CASE tillEof
    <3>1. u.type = "CUT_EOF"
      BY <1>1, <2>1 DEF CutItemIs
    <3> QED BY <1>14, <3>1 DEF Collects
  <2>2. CASE ~tillEof
    BY <1>5, <1>6, <1>14, <2>2 DEF Collects, Fields
  <2> QED BY <2>1, <2>2
<1> QED BY <1>8, <1>15, <1>16 DEF a, s1

\* copy_from_filestruct, without a mark.
CopiedIs(s, piece, nn) ==
    LET t   == CopyFrom(s, piece, nn)
        new == With(s.lines, Cursor(s), piece)
    IN  /\ t \in States /\ Sound(t) /\ t.mark = NoMark
        /\ nn = NoNewlines => Magic(t)
        /\ t.items = s.items /\ t.cu = s.cu /\ t.last = s.last /\ t.session = s.session
        /\ t.lines = new \/ t.lines = new \oplus Newline
        /\ nn => t.lines = new
        /\ new \in Texts /\ Len(t.lines) \in Nat /\ Len(s.lines) \in Nat /\ Len(t.lines) >= Len(s.lines)
        /\ t.cur = EndOf(Cursor(s), piece)[1] /\ t.x = EndOf(Cursor(s), piece)[2]
LEMMA CopyDone ==
  ASSUME NEW s \in States, NEW piece \in Texts, NEW nn \in BOOLEAN, Sound(s) /\ s.mark = NoMark
  PROVE  CopiedIs(s, piece, nn)
<1> DEFINE B == Bef(s)
           F == Aft(s)
           R == piece
           p == Cursor(s)
           end == EndOf(p, R)
           c == end[1]
           x == end[2]
           new == With(s.lines, p, R)
           z == Counted(s.size + TotSize(R))
           s3 == [s EXCEPT !.lines = new, !.size = z, !.cur = c, !.x = x, !.mark = MarkAfterInsertion(@, p, R)]
           t == CopyFrom(s, piece, nn)
<1>1. AtCursor(s) /\ s.size \in Int /\ InText(s, p)
  BY CursorParts, CursorPlace DEF Sound, States
<1>2. t = Magicline(s3, nn)
  BY <1>1 DEF CopyFrom
<1>3. /\ B \in Texts /\ F \in Texts /\ s.lines = B \oplus F /\ p = End(B) /\ new = (B \oplus R) \oplus F
      /\ B \oplus R \in Texts /\ new \in Texts /\ end = End(B \oplus R) /\ end \in Int \X Int
  <2>1. B \in Texts /\ F \in Texts /\ s.lines = B \oplus F /\ p = End(B)
    BY <1>1 DEF AtCursor, Cursor
  <2> HIDE DEF B, F, p
  <2>2. new = (B \oplus R) \oplus F
    BY <2>1, Pasting
  <2>3. B \oplus R \in Texts /\ (B \oplus R) \oplus F \in Texts
    BY <2>1, AttachIn
  <2>4. end = End(B \oplus R)
    BY <2>1, EndPlus
  <2>5. End(B \oplus R) \in Int \X Int
    BY <2>3, EndInts
  <2> QED BY <2>1, <2>2, <2>3, <2>4, <2>5
<1> HIDE DEF B, F, p, new, end
<1>4. TotSize(new) = TotSize(s.lines) + TotSize(R) /\ TotSize(R) \in Int
      /\ Len(new) \in Nat /\ Len(s.lines) \in Nat /\ Len(new) >= Len(s.lines)
  <2>1. /\ TotSize(new) = TotSize(B \oplus R) + TotSize(F) /\ TotSize(B \oplus R) = TotSize(B) + TotSize(R)
        /\ TotSize(s.lines) = TotSize(B) + TotSize(F)
    BY <1>3, SizePlus
  <2>2. TotSize(B) \in Int /\ TotSize(F) \in Int /\ TotSize(R) \in Int
    BY <1>3, SizeNat
  <2>3. /\ Len(new) = Len(B \oplus R) + Len(F) - 1 /\ Len(B \oplus R) = Len(B) + Len(R) - 1
        /\ Len(s.lines) = Len(B) + Len(F) - 1
    BY <1>3, LenPlus
  <2>4. Len(B) \in Nat \ {0} /\ Len(F) \in Nat \ {0} /\ Len(R) \in Nat \ {0}
    BY <1>3, TextLen
  <2> QED BY <2>1, <2>2, <2>3, <2>4
<1>5. z \in Int /\ (CountSize => z = TotSize(new))
  BY <1>1, <1>4 DEF Counted, Sound, Sizes
<1>6. MarkAfterInsertion(NoMark, p, R) = NoMark
  BY DEF MarkAfterInsertion
<1>7. c \in Int /\ x \in Int /\ end = <<c, x>>
  BY <1>3
<1> HIDE DEF c, x, z
<1>8. /\ s3.lines = new /\ s3.size = z /\ s3.cur = c /\ s3.x = x /\ s3.mark = NoMark
      /\ s3.items = s.items /\ s3.cu = s.cu /\ s3.last = s.last /\ s3.session = s.session /\ s3.ub = s.ub
  BY <1>6 DEF States
<1>9. s3 \in States
  <2> DEFINE a == [s EXCEPT !.lines = new, !.size = z]
  <2>1. a \in States
    BY <1>3, <1>5 DEF States
  <2>2. s3 = [a EXCEPT !.cur = c, !.x = x, !.mark = NoMark]
    BY <1>6 DEF States
  <2> HIDE DEF a, s3
  <2> QED BY <1>7, <2>1, <2>2 DEF States
<1> HIDE DEF s3
<1>10. Sound(s3)
  BY <1>3, <1>7, <1>8, <1>9, CursorAtEnd, <1>5 DEF Sound, Marks, Sizes
<1>11. MagiclineIs(s3, nn)
  BY <1>9, <1>10, MagiclineDone
<1> HIDE DEF t
<1>12. /\ t \in States /\ Sound(t) /\ (nn = NoNewlines => Magic(t)) /\ (nn => t = s3)
       /\ t = [s3 EXCEPT !.lines = t.lines, !.size = t.size]
       /\ t.lines = new \/ t.lines = new \oplus Newline
       /\ Len(t.lines) \in Nat /\ Len(t.lines) >= Len(new)
  BY <1>2, <1>8, <1>11 DEF MagiclineIs
<1>13. /\ t.items = s3.items /\ t.cu = s3.cu /\ t.last = s3.last /\ t.session = s3.session
       /\ t.cur = s3.cur /\ t.x = s3.x /\ t.mark = s3.mark
  BY <1>9, <1>12 DEF States
<1>14. Len(t.lines) >= Len(s.lines)
  BY <1>4, <1>12
<1> QED BY <1>3, <1>4, <1>8, <1>12, <1>13, <1>14 DEF CopiedIs, t, new, p, c, x, end

\* do_uncut_text.
LEMMA PasteGood ==
  ASSUME NEW s \in States, Good(s) /\ s.mark = NoMark /\ s.cutbuf # NULL
  PROVE  Good(PasteText(s))
<1> DEFINE s1 == UpdateUndo(s, "PASTE")
           t0 == CopyFrom(s1, s.cutbuf, NoNewlines)
           t1 == UpdateUndo(t0, "PASTE")
           t == [t1 EXCEPT !.mod = TRUE]
<1>1. UpdatedIs(s, s1)
  BY UpdateUndoDone DEF Good, Sound
<1>2. s1 \in States /\ Good(s1) /\ Fields(s, s1)
  BY <1>1, GoodUpdated, SameFields DEF Good, UpdatedIs
<1> HIDE DEF s1
<1>3. s.cutbuf \in Texts /\ s1.mark = NoMark
  BY <1>2 DEF States, NULL, Texts, Fields
<1>4. CopiedIs(s1, s.cutbuf, NoNewlines)
  BY <1>2, <1>3, CopyDone, EditorAssumption DEF Good
<1> HIDE DEF t0
<1>5. /\ t0 \in States /\ Sound(t0) /\ Magic(t0)
      /\ t0.items = s1.items /\ t0.cu = s1.cu /\ t0.last = s1.last
      /\ Len(t0.lines) \in Nat /\ Len(s1.lines) \in Nat /\ Len(t0.lines) >= Len(s1.lines)
  BY <1>4 DEF CopiedIs, t0
<1>6. TopOK(t0) /\ TopLine(t0)
  BY <1>2, <1>5 DEF Good, TopOK, TopLine
<1>7. UpdatedIs(t0, t1)
  BY <1>5, <1>6, UpdateUndoDone DEF Sound
<1>8. t1 \in States /\ Good(t1)
  BY <1>5, <1>6, <1>7, GoodUpdated DEF UpdatedIs
<1>9. PasteText(s) = t
  <2>1. ~t0.ub
    BY <1>5 DEF Sound
  <2> QED BY <2>1 DEF PasteText, t0, s1
<1> HIDE DEF t1
<1>10. Alike(t1, t)
  BY <1>8 DEF Alike, States
<1>11. Good(t)
  BY <1>8, <1>10, GoodAlike
<1> QED BY <1>9, <1>11

\* do_copy_text puts back what it cut.
CopyIs(s, t) ==
    /\ t \in States /\ Sound(t) /\ t.mark = NoMark /\ t.lines = s.lines
    /\ t.items = s.items /\ t.cu = s.cu /\ t.last = s.last

LEMMA CopyBack ==
  ASSUME NEW s \in States, Sound(s)
  PROVE  CopyIs(s, CopyText(s))
<1> DEFINE k == s.keep /\ s.mark = NoMark /\ s.sameline
           s1 == [s EXCEPT !.keep = k]
           r == CutRegion(s1, FALSE)
           p == r[1]
           q == r[2]
           c == CutOut(s1, FALSE, TRUE)
           R == Region(s.lines, p, q)
           f == CopyFrom(c, R, TRUE)
           back == IF p = q \/ c.ub THEN c ELSE f
           t == [back EXCEPT !.sameline = s.mark = NoMark]
<1>1. k \in BOOLEAN
  BY DEF States
<1>2. s1 \in States /\ Alike(s, s1)
  <2> HIDE DEF k
  <2> QED BY <1>1 DEF States, Alike
<1>3. CopyText(s) = t
  <2>1. [s EXCEPT !.keep = @ /\ s.mark = NoMark /\ s.sameline] = s1
    BY DEF States
  <2> HIDE DEF s1
  <2> QED BY <2>1 DEF CopyText
<1> HIDE DEF s1
<1>4. Sound(s1) /\ s1.lines = s.lines /\ s1.cu = s.cu /\ s1.items = s.items /\ s1.last = s.last /\ s.lines \in Texts
  BY <1>2 DEF Alike, States, Sound, CursorIn, Marks, Sizes
<1>5. CutOutIs(s1, FALSE, TRUE) /\ RegionIs(s1, FALSE)
  BY <1>2, <1>4, CutOutDone, RegionOrder DEF Sound
<1> HIDE DEF c
<1>6. /\ c \in States /\ Sound(c) /\ c.items = s.items /\ c.cu = s.cu /\ c.last = s.last /\ c.mark = NoMark /\ ~c.ub
      /\ p # q => c.cur = p[1] /\ c.x = p[2] /\ c.lines = Without(s.lines, p, q)
      /\ p = q => c.lines = s.lines
  BY <1>4, <1>5 DEF CutOutIs, c, Sound
<1>7. p \in PositionsOf(s.lines) /\ q \in PositionsOf(s.lines) /\ ~Before(q, p)
  BY <1>4, <1>5 DEF RegionIs
<1> HIDE DEF r, f, R, p, q
<1>8. /\ back \in States /\ Sound(back) /\ back.mark = NoMark /\ back.lines = s.lines
      /\ back.items = s.items /\ back.cu = s.cu /\ back.last = s.last
  <2>1. CASE p = q
    BY <1>6, <2>1
  <2>2. CASE p # q
    <3>1. back = f
      BY <1>6, <2>2
    <3> DEFINE B == TextBefore(s.lines, p)
               F == TextFrom(s.lines, q)
    <3>2. B \in Texts /\ F \in Texts /\ R \in Texts /\ End(B) = p /\ s.lines = B \oplus (R \oplus F)
          /\ Without(s.lines, p, q) = B \oplus F
      BY <1>4, <1>7, TakenApart, PlacesBetween DEF Between, Without, R, \oplus
    <3> HIDE DEF B, F
    <3>3. CopiedIs(c, R, TRUE)
      BY <1>6, <3>2, CopyDone
    <3>4. Cursor(c) = p
      <4>1. p = <<p[1], p[2]>>
        BY <1>4, <1>7, PlaceInts
      <4> QED BY <1>6, <2>2, <4>1 DEF Cursor
    <3>5. With(c.lines, Cursor(c), R) = s.lines
      BY <3>2, Pasting, AttachAssoc, <1>6, <2>2, <3>4
    <3> QED BY <1>6, <3>1, <3>3, <3>5 DEF CopiedIs, f
  <2> QED BY <2>1, <2>2
<1> HIDE DEF back
<1>9. Alike(back, t)
  <2> DEFINE b == s.mark = NoMark
  <2>1. b \in BOOLEAN /\ t = [back EXCEPT !.sameline = b]
    OBVIOUS
  <2> HIDE DEF b, t
  <2> QED BY <1>8, <2>1 DEF Alike, States
<1> QED BY <1>3, <1>8, <1>9 DEF Alike, CopyIs, Sound, CursorIn, Marks, Sizes

LEMMA CopyGood == \A s \in States : Good(s) => Good(CopyText(s)) /\ CopyText(s).mark = NoMark
BY CopyBack DEF Good, CopyIs, Magic, TopOK, TopLine

-----------------------------------------------------------------------------
(* Wrapping.                                                               *)

LEMMA HighestIn ==
  ASSUME NEW n \in Nat, NEW S, S \subseteq 0..n, S # {}
  PROVE  Highest(S) \in S /\ \A j \in S : j <= Highest(S)
<1> DEFINE Has(k) == \A X \in SUBSET (0..k) : X # {} => \E i \in X : \A j \in X : j <= i
           T == {k \in Nat : Has(k)}
<1>1. 0 \in T
  <2> SUFFICES ASSUME NEW X \in SUBSET (0..0), X # {} PROVE \E i \in X : \A j \in X : j <= i
    OBVIOUS
  <2>1. \A j \in X : j = 0
    OBVIOUS
  <2>2. 0 \in X
    BY <2>1
  <2> QED BY <2>1, <2>2
<1>2. ASSUME NEW k \in Nat, k \in T PROVE k + 1 \in T
  <2> SUFFICES ASSUME NEW X \in SUBSET (0..k + 1), X # {} PROVE \E i \in X : \A j \in X : j <= i
    OBVIOUS
  <2>1. CASE k + 1 \in X
    BY <2>1
  <2>2. CASE k + 1 \notin X
    <3>1. X \in SUBSET (0..k)
      BY <2>2
    <3> QED BY <1>2, <3>1
  <2> QED BY <2>1, <2>2
<1> HIDE DEF T
<1>3. \A k \in Nat : k \in T
  BY <1>1, <1>2, NatSet
<1>4. \E i \in S : \A j \in S : j <= i
  BY <1>3 DEF T
<1> QED BY <1>4 DEF Highest

LEMMA LowestIn ==
  ASSUME NEW n \in Nat, NEW S, S \subseteq 0..n, S # {}
  PROVE  Lowest(S) \in S /\ \A j \in S : Lowest(S) <= j
<1> DEFINE Has(k) == \A X \in SUBSET (0..k) : X # {} => \E i \in X : \A j \in X : i <= j
           T == {k \in Nat : Has(k)}
<1>1. 0 \in T
  <2> SUFFICES ASSUME NEW X \in SUBSET (0..0), X # {} PROVE \E i \in X : \A j \in X : i <= j
    OBVIOUS
  <2>1. \A j \in X : j = 0
    OBVIOUS
  <2>2. 0 \in X
    BY <2>1
  <2> QED BY <2>1, <2>2
<1>2. ASSUME NEW k \in Nat, k \in T PROVE k + 1 \in T
  <2> SUFFICES ASSUME NEW X \in SUBSET (0..k + 1), X # {} PROVE \E i \in X : \A j \in X : i <= j
    OBVIOUS
  <2> DEFINE Y == X \ {k + 1}
  <2>1. CASE Y = {}
    <3>1. \A j \in X : j = k + 1
      BY <2>1
    <3>2. k + 1 \in X
      BY <3>1
    <3> QED BY <3>1, <3>2
  <2>2. CASE Y # {}
    <3>1. Y \in SUBSET (0..k)
      OBVIOUS
    <3>2. PICK i \in Y : \A j \in Y : i <= j
      BY <1>2, <2>2, <3>1
    <3>3. i \in 0..k /\ i \in X
      BY <3>1
    <3>4. \A j \in X : i <= j
      <4> TAKE j \in X
      <4>1. CASE j = k + 1
        BY <3>3, <4>1
      <4>2. CASE j # k + 1
        BY <3>2, <4>2
      <4> QED BY <4>1, <4>2
    <3> QED BY <3>3, <3>4
  <2> QED BY <2>1, <2>2
<1> HIDE DEF T
<1>3. \A k \in Nat : k \in T
  BY <1>1, <1>2, NatSet
<1>4. \E i \in S : \A j \in S : i <= j
  BY <1>3 DEF T
<1> QED BY <1>4 DEF Lowest

\* A line is wrapped behind a blank, before its last character.
LEMMA WrapsWhere ==
  ASSUME NEW line \in Line, Wraps(line)
  PROVE  BreakLine(line) \in Nat /\ BreakLine(line) + 1 < Len(line) /\ Len(line) \in Nat /\ Blanks # {}
<1> DEFINE n == Len(line)
           blanks == {i \in 0..n - 1 : BlankAt(line, i)}
           short == {i \in blanks : i <= Fill}
           Group(i) == {j \in i..n - 1 : j + 1 = n \/ ~BlankAt(line, j + 1)}
           GroupEnd(i) == Lowest(Group(i))
           far == IF blanks = {} THEN -1 ELSE GroupEnd(Lowest(blanks))
           b == BreakLine(line)
<1>1. n \in Nat
  BY LenNat DEF Line
<1>2. b = CASE n <= Fill -> n
            [] n > Fill /\ short # {} -> GroupEnd(Highest(short))
            [] OTHER -> IF far + 1 = n THEN -1 ELSE far
  BY DEF BreakLine
<1>3. b \notin {-1, n, n - 1}
  BY DEF Wraps
<1>4. ASSUME NEW i \in 0..n - 1 PROVE GroupEnd(i) \in 0..n - 1
  <2>1. Group(i) \subseteq 0..n /\ n - 1 \in Group(i) /\ Group(i) \subseteq 0..n - 1
    BY <1>1, <1>4
  <2> DEFINE G == Group(i)
  <2>2. Lowest(G) \in G
    <3>1. G \subseteq 0..n /\ G # {}
      BY <2>1
    <3> HIDE DEF G
    <3> QED BY <1>1, <3>1, LowestIn
  <2> QED BY <2>1, <2>2
<1>5. blanks # {} => Lowest(blanks) \in 0..n - 1
  <2>1. blanks \subseteq 0..n /\ blanks \subseteq 0..n - 1
    BY <1>1
  <2> HIDE DEF blanks
  <2> QED BY <1>1, <2>1, LowestIn
<1>6. short # {} => Highest(short) \in 0..n - 1 /\ blanks # {}
  <2>1. short \subseteq 0..n /\ short \subseteq 0..n - 1 /\ (short # {} => blanks # {})
    BY <1>1
  <2> HIDE DEF short, blanks
  <2> QED BY <1>1, <2>1, HighestIn
<1>7. blanks # {} => Blanks # {}
  BY DEF BlankAt
<1> HIDE DEF blanks, short, GroupEnd, b
<1>8. CASE n <= Fill
  BY <1>1, <1>8, EditorAssumption, <1>2, <1>3
<1>9. CASE ~(n <= Fill) /\ short # {}
  <2>1. b = GroupEnd(Highest(short))
    <3>1. n > Fill
      BY <1>1, <1>9, EditorAssumption
    <3> QED BY <1>2, <1>9, <3>1
  <2>2. b \in 0..n - 1
    BY <1>4, <1>6, <1>9, <2>1
  <2>3. b \in Nat /\ b + 1 < n
    BY <1>1, <1>3, <2>2
  <2> QED BY <1>1, <1>6, <1>7, <1>9, <2>3 DEF b
<1>10. CASE ~(n <= Fill) /\ short = {}
  <2>1. b = IF far + 1 = n THEN -1 ELSE far
    BY <1>2, <1>10
  <2>2. b = far /\ far # -1
    BY <1>3, <2>1
  <2>3. blanks # {} /\ far = GroupEnd(Lowest(blanks))
    BY <2>2
  <2>4. b \in 0..n - 1
    BY <1>4, <1>5, <2>2, <2>3
  <2>5. b \in Nat /\ b + 1 < n
    BY <1>1, <1>3, <2>4
  <2> QED BY <1>1, <1>7, <2>3, <2>5 DEF b
<1> QED BY <1>8, <1>9, <1>10

\* A recursive function from the numbers up to h, its next value by the function D.
Iterated(K, D, a) ==
    \A h \in Nat : \E f \in [0..h -> K] : f[0] = a /\ \A n \in 1..h : f[n] = D[f[n - 1]]
LEMMA Iteration ==
  ASSUME NEW K, NEW D \in [K -> K], NEW a \in K
  PROVE  Iterated(K, D, a)
<1> DEFINE Has(h) == \E f \in [0..h -> K] : f[0] = a /\ \A n \in 1..h : f[n] = D[f[n - 1]]
           T == {h \in Nat : Has(h)}
<1>1. 0 \in T
  <2> DEFINE f == [n \in 0..0 |-> a]
  <2>1. f \in [0..0 -> K] /\ f[0] = a /\ \A n \in 1..0 : f[n] = D[f[n - 1]]
    OBVIOUS
  <2> QED BY <2>1
<1>2. ASSUME NEW h \in Nat, h \in T PROVE h + 1 \in T
  <2>1. PICK g \in [0..h -> K] : g[0] = a /\ \A n \in 1..h : g[n] = D[g[n - 1]]
    BY <1>2
  <2> DEFINE f == [n \in 0..h + 1 |-> IF n = h + 1 THEN D[g[h]] ELSE g[n]]
  <2>2. f \in [0..h + 1 -> K] /\ f[0] = a
    BY <2>1
  <2>3. ASSUME NEW n \in 1..h + 1 PROVE f[n] = D[f[n - 1]]
    <3>1. CASE n = h + 1
      BY <3>1
    <3>2. CASE n # h + 1
      BY <3>2, <2>1
    <3> QED BY <3>1, <3>2
  <2> HIDE DEF f
  <2> QED BY <2>2, <2>3
<1> HIDE DEF T
<1>3. \A h \in Nat : h \in T
  BY <1>1, <1>2, NatSet
<1> QED BY <1>3 DEF T, Iterated

\* Deleting over and over.
LEMMA Dropping ==
  ASSUME NEW s \in States, NEW h \in Nat, Good(s)
  PROVE  LET dropped[n \in 0..h] == IF n = 0 THEN s ELSE Deletion(dropped[n - 1], "DEL")
         IN  DeletionIs(s, dropped[h])
<1> DEFINE K == {t \in States : DeletionIs(s, t)}
           D == [t \in K |-> Deletion(t, "DEL")]
           Rec(f) == f = [n \in 0..h |-> IF n = 0 THEN s ELSE Deletion(f[n - 1], "DEL")]
           d == CHOOSE f : Rec(f)
<1>1. s \in K
  BY DEF DeletionIs
<1>2. ASSUME NEW t \in K PROVE Deletion(t, "DEL") \in K
  BY DeletionGood DEF DeletionIs, Good
<1>3. D \in [K -> K] /\ \A t \in K : D[t] = Deletion(t, "DEL")
  BY <1>2
<1> HIDE DEF K, D
<1>4. PICK g \in [0..h -> K] : g[0] = s /\ \A n \in 1..h : g[n] = D[g[n - 1]]
  <2>1. D \in [K -> K]
    BY <1>3
  <2>2. Iterated(K, D, s)
    BY <1>1, <2>1, Iteration
  <2> QED BY <2>2 DEF Iterated
<1>5. Rec(g)
  <2> DEFINE e == [n \in 0..h |-> IF n = 0 THEN s ELSE Deletion(g[n - 1], "DEL")]
  <2>1. ASSUME NEW n \in 0..h PROVE g[n] = e[n]
    <3>1. CASE n = 0
      BY <1>4, <3>1
    <3>2. CASE n # 0
      BY <3>2, <1>3, <1>4
    <3> QED BY <3>1, <3>2
  <2> QED BY <1>4, <2>1
<1>6. Rec(d)
  <2> HIDE DEF Rec
  <2> QED BY <1>5
<1> DEFINE T == {n \in Nat : n <= h => d[n] \in K}
<1> HIDE DEF d
<1>7. 0 \in T
  BY <1>1, <1>6
<1>8. ASSUME NEW n \in Nat, n \in T PROVE n + 1 \in T
  <2> SUFFICES ASSUME n + 1 <= h PROVE d[n + 1] \in K
    OBVIOUS
  <2>1. d[n] \in K
    BY <1>8
  <2>2. d[n + 1] = Deletion(d[n], "DEL")
    <3> DEFINE m == n + 1
    <3>1. m \in 0..h /\ m # 0 /\ m - 1 = n
      OBVIOUS
    <3> HIDE DEF m
    <3>2. d[m] = Deletion(d[m - 1], "DEL")
      BY <1>6, <3>1
    <3> QED BY <3>1, <3>2 DEF m
  <2> QED BY <1>2, <2>1, <2>2
<1> HIDE DEF T
<1>9. \A n \in Nat : n \in T
  BY <1>7, <1>8, NatSet
<1>10. d[h] \in K
  BY <1>9 DEF T
<1>11. DeletionIs(s, d[h])
  BY <1>10 DEF K
<1> QED BY <1>11 DEF d

\* do_wrap, when what it wraps goes to the line below: a blank is put behind that, and the line
\* end and the blanks behind it go.
BlankAdded(s, blank) ==
    [AddUndo(s, "ADD") EXCEPT !.lines[s.cur] = Append(@, blank), !.size = Counted(@ + 1), !.x = @ + 1]

LEMMA AddSame ==
  \A s, t \in States :
     /\ t.cur = s.cur /\ t.x = s.x /\ t.items = s.items /\ t.cu = s.cu /\ t.keep = s.keep
     => AddUndo(t, "ADD").items = AddUndo(s, "ADD").items
<1> TAKE s, t \in States
<1> HAVE t.cur = s.cur /\ t.x = s.x /\ t.items = s.items /\ t.cu = s.cu /\ t.keep = s.keep
<1>1. Contiguous(t, "ADD") <=> Contiguous(s, "ADD")
  BY DEF Contiguous, HasUndo, CurUndo
<1>2. ~DeletesFinalNewline(t, "ADD") /\ ~DeletesFinalNewline(s, "ADD")
  BY DEF DeletesFinalNewline
<1>3. NewItem(t, "ADD") = NewItem(s, "ADD")
  BY DEF NewItem, BlankItem
<1>4. CASE Contiguous(s, "ADD")
  BY <1>1, <1>4 DEF AddUndo
<1>5. CASE ~Contiguous(s, "ADD")
  BY <1>1, <1>2, <1>5, <1>3 DEF AddUndo, States
<1> QED BY <1>4, <1>5

LEMMA BlankAddedGood ==
  ASSUME NEW s \in States, NEW blank \in Blanks,
         Good(s) /\ s.cur < Len(s.lines) /\ s.x = Len(CurLine(s))
  PROVE  LET t == BlankAdded(s, blank)
         IN  Good(t) /\ t.items # <<>> /\ t.items[1].mx = t.x - 1 /\ t.x = s.x + 1 /\ t.cur = s.cur
<1> DEFINE t == BlankAdded(s, blank)
           g == Typed2(s, blank)
           a == AddUndo(s, "ADD")
           l == CurLine(s)
           w == <<blank>>
           z == Counted(s.size + 1)
           new == TypedLines(s, blank)
           x == s.x + 1
<1>1. CursorIn(s) /\ AtCursor(s) /\ l \in Line /\ s.lines \in Texts /\ s.cur \in 1..Len(s.lines) /\ s.x \in Nat
  BY CursorParts, CursorLine DEF Good, Sound, CursorIn, States
<1>2. blank \in Char
  BY DEF Char
<1>3. Typed2Is(s, blank)
  BY <1>2, Typed2Good
<1>4. AddedIs(s, "ADD", a)
  BY <1>1, AddUndoDone DEF Actions, Good
<1>5. a \in States /\ Fields(s, a) /\ TopOK(a)
  BY <1>4, SameFields DEF AddedIs
<1>6. g.items = a.items
  <2> DEFINE s1 == Typed1(s, blank)
             q == Counted(s.size + IF ~NoNewlines /\ s.cur = Len(s.lines) THEN 2 ELSE 1)
  <2>1. s1 = [s EXCEPT !.lines = new, !.size = q, !.mod = TRUE]
    BY DEF Typed1
  <2>2. q \in Int /\ new \in Texts
    <3>1. s.size \in Int
      BY DEF States
    <3> QED BY <1>1, <1>2, <3>1, TypeCharIs DEF Counted, Char
  <2> HIDE DEF s1, q, new
  <2>3. s1 \in States /\ s1.cur = s.cur /\ s1.x = s.x /\ s1.items = s.items /\ s1.cu = s.cu /\ s1.keep = s.keep
    BY <2>1, <2>2 DEF States
  <2>4. AddUndo(s1, "ADD").items = a.items
    BY <2>3, AddSame
  <2> QED BY <1>3, <2>4 DEF Typed2Is, s1
<1>7. [s.lines EXCEPT ![s.cur] = Append(@, blank)] = new
  <2>1. w \in Line /\ Append(l, blank) = l \o w /\ Append(l, blank) \in Line
    BY <1>1 DEF Line
  <2>2. PutIs(Bef(s), w, Aft(s))
    <3> HIDE DEF w
    <3> QED BY <1>1, <2>1, Putting DEF AtCursor
  <2>3. ReplaceLine(s.lines, s.cur, <<Prefix(l, s.x) \o w \o Suffix(l, s.x)>>) = Bef(s) \oplus (<<w>> \oplus Aft(s))
    BY <1>1, <2>2 DEF PutIs, AtCursor, CurLine
  <2>4. Prefix(l, s.x) = l /\ Suffix(l, s.x) = <<>>
    BY <1>1, LineEnds
  <2>5. (l \o w) \o <<>> = l \o w
    <3>1. l \o w \in Line
      BY <2>1
    <3> HIDE DEF w, l
    <3> QED BY <3>1, ConcatEmptySeq DEF Line
  <2>6. [s.lines EXCEPT ![s.cur] = Append(l, blank)] = ReplaceLine(s.lines, s.cur, <<Append(l, blank)>>)
    BY <1>1, <2>1, ExceptLine
  <2>7. new = Bef(s) \oplus (<<w>> \oplus Aft(s))
    BY DEF TypedLines
  <2> QED BY <2>1, <2>3, <2>4, <2>5, <2>6, <2>7 DEF CurLine
<1>8. t = [a EXCEPT !.lines = new, !.size = z, !.x = x]
  BY <1>5, <1>7 DEF BlankAdded, Fields
<1>9. /\ g \in States /\ Good(g) /\ g.items # <<>> /\ g.items[1].mx = s.x
      /\ g.lines = new /\ g.cur = s.cur /\ g.x = x /\ g.size = z
      /\ g.mark = IF s.mark = NoMark THEN NoMark ELSE TypedMark(s.mark, Cursor(s))
  BY <1>1, <1>3 DEF Typed2Is
<1>10. g.mark = s.mark
  <2>1. CASE s.mark = NoMark
    BY <1>9, <2>1
  <2>2. CASE s.mark # NoMark
    BY <1>1, <2>2, PlaceIn, <1>9 DEF Good, Sound, Marks, CurLine, TypedMark, Cursor
  <2> QED BY <2>1, <2>2
<1>11. new \in Texts /\ z \in Int /\ x \in Int
  BY <1>9 DEF States
<1> HIDE DEF t, g, a, z, new, x
<1>12. /\ t \in States /\ t.lines = new /\ t.size = z /\ t.x = x /\ t.cur = a.cur /\ t.mark = a.mark /\ t.ub = a.ub
       /\ t.items = a.items /\ t.cu = a.cu /\ t.last = a.last
  BY <1>5, <1>8, <1>11 DEF States
<1>13. g.ub = a.ub /\ g.cu = a.cu /\ g.last = a.last
  BY <1>9, <1>5, <1>6 DEF Good, Sound, Fields, States, TopOK
<1>14. Alike(g, t)
  BY <1>5, <1>6, <1>9, <1>10, <1>12, <1>13 DEF Alike, Fields
<1>15. Good(t)
  BY <1>9, <1>14, GoodAlike
<1>16. t.items = g.items /\ t.x = s.x + 1 /\ t.cur = s.cur
  BY <1>9, <1>14 DEF Alike, x
<1>17. t.x - 1 = s.x
  BY <1>1, <1>16
<1> QED BY <1>9, <1>15, <1>16, <1>17 DEF t

PrependIs(s, t) ==
    Good(t) /\ t.items # <<>> /\ t.cur = s.cur /\ Len(CurLine(t)) >= Len(CurLine(s))
LEMMA PrependGood ==
  ASSUME NEW s \in States, Good(s) /\ s.items # <<>> /\ s.cur < Len(s.lines) /\ Blanks # {}
  PROVE  PrependIs(s, Prepend(s))
<1> DEFINE line == CurLine(s)
           n == Len(line)
           end == [s EXCEPT !.x = n]
           blank == CHOOSE c \in Blanks : TRUE
           added == UpdateUndo([AddUndo(end, "ADD") EXCEPT
                                  !.lines[s.cur] = Append(@, blank), !.size = Counted(@ + 1), !.x = @ + 1], "ADD")
           t == IF BlankAt(line, Len(line) - 1) THEN end ELSE added
           next == s.lines[s.cur + 1]
           joined == Deletion(t, "DEL")
           blanks == {k \in 0..Len(next) : \A i \in 0..k - 1 : BlankAt(next, i)}
           h == Highest(blanks)
           dropped[k \in 0..h] == IF k = 0 THEN joined ELSE Deletion(dropped[k - 1], "DEL")
<1>1. /\ line \in Line /\ n \in Nat /\ s.cur \in Nat \ {0} /\ s.cur \in 1..Len(s.lines) /\ Len(s.lines) \in Nat
      /\ s.lines \in Texts /\ line = s.lines[s.cur]
  BY CursorLine DEF Good, Sound, CursorIn, States, CurLine
<1>2. Prepend(s) = IF Len(CurLine(t)) - (BreakLine(line) + 1) + Len(next) <= Fill THEN dropped[h] ELSE t
  BY DEF Prepend
<1>3. /\ end \in States /\ end.x = n /\ end.cur = s.cur /\ end.lines = s.lines /\ end.items = s.items
  <2>1. n \in Int
    BY <1>1
  <2> HIDE DEF n, line
  <2> QED BY <2>1 DEF States
<1>4. Good(end)
  <2> DEFINE p == <<s.cur, n>>
  <2>1. n \in 0..Len(s.lines[s.cur])
    BY <1>1
  <2>2. p \in PositionsOf(s.lines)
    BY <1>1, <2>1, Place
  <2>3. Good([s EXCEPT !.cur = p[1], !.x = p[2]])
    <3> HIDE DEF p
    <3> QED BY <2>2, Moved
  <2> DEFINE d == s.cur
             y == n
  <2>4. end = [s EXCEPT !.cur = d, !.x = y]
    BY DEF States
  <2>5. p[1] = d /\ p[2] = y
    OBVIOUS
  <2> QED BY <2>3, <2>4, <2>5
<1>5. blank \in Blanks
  OBVIOUS
<1> HIDE DEF end, blank
<1>6. added = UpdateUndo(BlankAdded(end, blank), "ADD")
  BY <1>3 DEF BlankAdded
<1> HIDE DEF added
<1>7. Good(added) /\ added.items # <<>> /\ added.cur = s.cur /\ added.x = n + 1
  <2> DEFINE e == BlankAdded(end, blank)
  <2>1. Good(e) /\ e.items # <<>> /\ e.items[1].mx = e.x - 1 /\ e.x = end.x + 1 /\ e.cur = end.cur
    BY <1>3, <1>4, <1>5, BlankAddedGood DEF CurLine
  <2> HIDE DEF e
  <2>2. e \in States /\ e.x > 0
    BY <1>1, <1>3, <2>1 DEF Good
  <2>3. /\ Good(UpdateUndo(e, "ADD")) /\ UpdateUndo(e, "ADD").items # <<>>
        /\ Fields(e, UpdateUndo(e, "ADD"))
    BY <2>1, <2>2, TypedUpdate
  <2> QED BY <1>3, <1>6, <2>1, <2>3 DEF Fields, e
<1>8. Good(t) /\ t \in States /\ t.items # <<>> /\ t.cur = s.cur /\ t.x >= n /\ t.x \in Nat
  <2>1. CASE t = end
    BY <1>1, <1>3, <1>4, <2>1
  <2>2. CASE t = added
    BY <1>1, <1>7, <2>2 DEF Good
  <2> QED BY <2>1, <2>2
<1>9. h \in Nat
  <2>1. Len(next) \in Nat
    BY <1>1, TextLen, LineIn
  <2>2. blanks \subseteq 0..Len(next) /\ 0 \in blanks
    BY <2>1
  <2> HIDE DEF blanks, next
  <2>3. h \in blanks
    BY <2>1, <2>2, HighestIn
  <2>4. h \in 0..Len(next)
    BY <2>2, <2>3
  <2> HIDE DEF h
  <2> QED BY <2>1, <2>4
<1> HIDE DEF t
<1>10. DeletionIs(t, joined)
  BY <1>8, DeletionGood
<1> HIDE DEF joined, h
<1>11. DeletionIs(joined, dropped[h])
  BY <1>10, <1>9, Dropping DEF DeletionIs, Good
<1> DEFINE d == dropped[h]
<1>12. \A q : Good(q) /\ q.cur = s.cur /\ q.x >= n /\ q.x \in Nat => Len(CurLine(q)) >= n
  <2> TAKE q
  <2> HAVE Good(q) /\ q.cur = s.cur /\ q.x >= n /\ q.x \in Nat
  <2>1. q.x <= Len(CurLine(q)) /\ Len(CurLine(q)) \in Nat
    BY CursorLine DEF Good, Sound
  <2> QED BY <1>1, <2>1
<1>13. CASE Prepend(s) = t
  BY <1>8, <1>12, <1>13 DEF PrependIs
<1>14. CASE Prepend(s) = d
  <2> HIDE DEF d
  <2>1. Good(d) /\ d.cur = s.cur /\ d.x = t.x /\ d.items # <<>>
    BY <1>8, <1>10, <1>11 DEF DeletionIs, d
  <2> QED BY <1>8, <1>12, <1>14, <2>1 DEF PrependIs
<1> QED BY <1>2, <1>13, <1>14

\* do_wrap puts the SPLIT_BEGIN under what was typed last.
LEMMA SplitBeginGood ==
  ASSUME NEW s \in States, Good(s) /\ s.items # <<>>
  PROVE  LET b == SplitBegin(s) IN
         /\ Good(b) /\ b.items # <<>> /\ b.lines = s.lines /\ b.cur = s.cur /\ b.x = s.x
<1> DEFINE b == SplitBegin(s)
           u == BlankItem(s, "SPLIT_BEGIN")
           top == s.items[1]
           two == <<top, u>>
           items == two \o Tail(s.items)
           last == top.type
<1>1. s.items \in Seq(Items) /\ Len(s.items) \in Nat \ {0} /\ top \in Items /\ Tail(s.items) \in Seq(Items)
  <2>1. s.items \in Seq(Items)
    BY DEF States
  <2> QED BY <2>1, EmptySeq
<1>2. u \in Items
  BY EmptySeq DEF States, NULL, BlankItem, Items, ItemTypes, XFlags
<1>3. items \in Seq(Items) /\ items # <<>> /\ items[1] = top
  <2>1. two \in Seq(Items) /\ Len(two) = 2 /\ two[1] = top
    BY <1>1, <1>2
  <2> HIDE DEF two
  <2> QED BY <1>1, <2>1, ConcatProperties
<1>4. last \in ItemTypes \cup {"OTHER"}
  BY <1>1 DEF Items
<1>5. b = [s EXCEPT !.items = items, !.last = last]
  BY DEF SplitBegin
<1> HIDE DEF b, items, last
<1>6. /\ b \in States /\ b.items = items /\ b.last = last
      /\ b.lines = s.lines /\ b.cur = s.cur /\ b.x = s.x /\ b.mark = s.mark /\ b.size = s.size
      /\ b.ub = s.ub /\ b.cu = s.cu
  BY <1>3, <1>4, <1>5 DEF States
<1>7. Sound(b) /\ Magic(b)
  BY <1>6 DEF Good, Sound, CursorIn, Marks, Sizes, Magic
<1>8. TopOK(b) /\ TopLine(b)
  BY <1>3, <1>6 DEF Good, TopOK, TopLine, last
<1> QED BY <1>3, <1>6, <1>7, <1>8 DEF Good, b

\* The line break of do_wrap, in the state p in which it is to happen, after which the cursor
\* goes back to where it was in the text.
WrapBreaks(s, p, loc) ==
    LET t == Enter([p EXCEPT !.x = loc], FALSE)
    IN  IF s.x < loc
        THEN [t EXCEPT !.cur = s.cur, !.x = s.x, !.prep = TRUE]
        ELSE [t EXCEPT !.x = @ + s.x - loc, !.prep = FALSE]
LEMMA WrapBreaksGood ==
  ASSUME NEW s \in States, NEW p \in States, NEW loc \in Nat,
         /\ Good(s) /\ Good(p) /\ p.cur = s.cur /\ Len(CurLine(p)) >= Len(CurLine(s)) /\ loc <= Len(CurLine(s))
  PROVE  Good(WrapBreaks(s, p, loc))
<1> DEFINE q == [p EXCEPT !.x = loc]
           t == Enter(q, FALSE)
           c == s.cur
           y == s.x
           z == s.x - loc
<1>1. /\ c \in Nat \ {0} /\ y \in Nat /\ y <= Len(CurLine(s)) /\ Len(CurLine(s)) \in Nat
      /\ Len(CurLine(p)) \in Nat /\ p.lines \in Texts /\ c \in 1..Len(p.lines) /\ Len(p.lines) \in Nat
      /\ CurLine(p) = p.lines[c] /\ p.cur = c
  BY CursorLine DEF Good, Sound, CursorIn, States, CurLine
<1> HIDE DEF c, y
<1>2. q \in States /\ q.x = loc /\ q.lines = p.lines /\ q.cur = c
  <2>1. loc \in Int /\ p.cur = c
    BY <1>1
  <2> QED BY <2>1 DEF States
<1>3. Good(q)
  <2> DEFINE a == <<c, loc>>
  <2>1. loc \in 0..Len(p.lines[c])
    BY <1>1
  <2>2. a \in PositionsOf(p.lines)
    BY <1>1, <2>1, Place
  <2>3. Good([p EXCEPT !.cur = a[1], !.x = a[2]])
    <3> HIDE DEF a
    <3> QED BY <2>2, Moved
  <2>4. q = [p EXCEPT !.cur = c, !.x = loc]
    BY <1>1 DEF States
  <2> QED BY <2>3, <2>4
<1> HIDE DEF q
<1>4. EnterIs(q, t)
  BY <1>2, <1>3, EnterGood
<1> HIDE DEF t
<1>5. /\ t \in States /\ Good(t) /\ t.cur = c + 1 /\ t.x = 0 /\ Len(t.lines) = Len(p.lines) + 1
      /\ Len(t.lines[c]) = loc /\ Len(t.lines[c + 1]) = Len(CurLine(p)) - loc /\ t.lines \in Texts
  BY <1>1, <1>2, <1>4 DEF EnterIs, Good, CurLine, States
<1>6. CASE s.x < loc
  <2> DEFINE a == <<c, y>>
             m == [t EXCEPT !.cur = c, !.x = y]
             w == [t EXCEPT !.cur = c, !.x = y, !.prep = TRUE]
  <2>1. c \in 1..Len(t.lines) /\ y \in 0..Len(t.lines[c])
    BY <1>1, <1>5, <1>6 DEF y
  <2>2. a \in PositionsOf(t.lines)
    BY <1>5, <2>1, Place
  <2>3. Good([t EXCEPT !.cur = a[1], !.x = a[2]])
    <3> HIDE DEF a
    <3> QED BY <1>5, <2>2, Moved
  <2>4. Good(m)
    BY <2>3
  <2>5. c \in Int /\ y \in Int
    BY <1>1
  <2>6. Alike(m, w) /\ w \in States
    BY <1>5, <2>5 DEF Alike, States
  <2>7. w = WrapBreaks(s, p, loc)
    BY <1>6 DEF WrapBreaks, t, q, c, y
  <2> HIDE DEF m, w
  <2> QED BY <2>4, <2>6, <2>7, GoodAlike
<1>7. CASE ~(s.x < loc)
  <2> DEFINE d == c + 1
             a == <<d, z>>
             m == [t EXCEPT !.cur = d, !.x = z]
             w == [t EXCEPT !.x = z, !.prep = FALSE]
  <2>1. d \in 1..Len(t.lines) /\ z \in 0..Len(t.lines[d])
    BY <1>1, <1>5, <1>7 DEF y
  <2>2. d \in Int /\ z \in Int /\ t.cur = d
    BY <1>5, <2>1
  <2>3. w = WrapBreaks(s, p, loc)
    <3>1. t.x + s.x - loc = z
      BY <1>1, <1>5 DEF y
    <3> QED BY <1>7, <3>1 DEF WrapBreaks, t, q
  <2> HIDE DEF d, z
  <2>4. a \in PositionsOf(t.lines)
    BY <1>5, <2>1, Place
  <2>5. Good([t EXCEPT !.cur = a[1], !.x = a[2]])
    <3> HIDE DEF a
    <3> QED BY <1>5, <2>4, Moved
  <2>6. Good(m)
    BY <2>5
  <2>7. Alike(m, w) /\ w \in States
    BY <1>5, <2>2 DEF Alike, States
  <2> HIDE DEF m, w
  <2> QED BY <2>3, <2>6, <2>7, GoodAlike
<1> QED BY <1>6, <1>7

\* do_wrap.
LEMMA WrapGood ==
  ASSUME NEW s \in States, Good(s) /\ s.items # <<>>
  PROVE  Good(Wrap(s))
<1> DEFINE loc == BreakLine(CurLine(s)) + 1
           b == SplitBegin(s)
           p == IF s.prep /\ s.cur < Len(s.lines) THEN Prepend(b) ELSE b
           u == WrapBreaks(s, p, loc)
<1>1. Wrap(s) = IF Fill = 0 \/ ~Wraps(CurLine(s)) THEN s ELSE AddUndo(u, "SPLIT_END")
  BY DEF Wrap, WrapBreaks
<1>2. CASE Fill = 0 \/ ~Wraps(CurLine(s))
  BY <1>1, <1>2
<1>3. CASE ~(Fill = 0 \/ ~Wraps(CurLine(s)))
  <2>1. loc \in Nat /\ loc <= Len(CurLine(s)) /\ Blanks # {} /\ Len(CurLine(s)) \in Nat
    <3>1. CurLine(s) \in Line
      BY CursorLine DEF Good, Sound
    <3> QED BY <1>3, <3>1, WrapsWhere
  <2>2. Good(b) /\ b \in States /\ b.items # <<>> /\ b.lines = s.lines /\ b.cur = s.cur
    BY SplitBeginGood DEF Good
  <2> HIDE DEF b
  <2>3. Good(p) /\ p \in States /\ p.cur = s.cur /\ Len(CurLine(p)) >= Len(CurLine(s))
    <3>1. CurLine(b) = CurLine(s)
      BY <2>2 DEF CurLine
    <3>2. CASE s.prep /\ s.cur < Len(s.lines)
      BY <2>1, <2>2, <3>2, PrependGood, <3>1 DEF PrependIs, Good
    <3>3. CASE ~(s.prep /\ s.cur < Len(s.lines))
      BY <2>1, <2>2, <3>1, <3>3
    <3> QED BY <3>2, <3>3
  <2> HIDE DEF p, loc
  <2>4. Good(u)
    BY <2>1, <2>3, WrapBreaksGood
  <2> HIDE DEF u
  <2>5. u \in States /\ CursorIn(u) /\ Sound(u) /\ Magic(u) /\ TopOK(u) /\ TopLine(u)
    BY <2>4 DEF Good, Sound
  <2>6. AddedIs(u, "SPLIT_END", AddUndo(u, "SPLIT_END")) /\ NewItemIs(u, "SPLIT_END")
    BY <2>5, AddUndoDone, NewItemMade DEF Actions
  <2>7. UpdatedIs(u, AddUndo(u, "SPLIT_END"))
    BY <2>5, <2>6, AddedUpdates DEF Actions
  <2> QED BY <1>1, <1>3, <2>5, <2>7, GoodUpdated
<1> QED BY <1>2, <1>3

-----------------------------------------------------------------------------
(* Lines that are indented.                                                *)

\* The text new is the text old with the lines L longer by the number of characters.
Grown(old, new, L, by) ==
    /\ L \subseteq 1..Len(old) /\ Len(new) = Len(old)
    /\ \A l \in 1..Len(old) : Len(new[l]) = Len(old[l]) + IF l \in L THEN by ELSE 0

LEMMA SizeGrown ==
  ASSUME NEW old \in Texts, NEW new \in Texts, NEW L, NEW by \in {-1, 1}, Grown(old, new, L, by)
  PROVE  TotSize(new) = TotSize(old) + by * Cardinality(L)
<1> DEFINE N == Len(old)
           Upto(n) == L \cap 1..n
           k(n) == Cardinality(Upto(n))
<1>1. old \in Lines /\ new \in Lines /\ N \in Nat /\ Len(new) = N /\ L \subseteq 1..N
  BY TextLen DEF Grown
<1>2. PICK f \in [0..N -> Int] : SizeRec(old, f) /\ TotSize(old) = f[N]
  BY <1>1, SizeIs
<1>3. PICK g \in [0..N -> Int] : SizeRec(new, g) /\ TotSize(new) = g[N]
  BY <1>1, SizeIs
<1>4. f[0] = -1 /\ g[0] = -1
  BY <1>1, <1>2, <1>3, SizeSteps
<1>5. \A n \in 1..N : f[n] = f[n - 1] + Len(old[n]) + 1 /\ g[n] = g[n - 1] + Len(new[n]) + 1
  BY <1>1, <1>2, <1>3, SizeSteps
<1>6. \A n \in Nat : IsFiniteSet(Upto(n)) /\ k(n) \in Nat
  <2> TAKE n \in Nat
  <2>1. IsFiniteSet(1..n)
    BY FS_Interval
  <2>2. IsFiniteSet(Upto(n))
    BY <2>1, FS_Subset
  <2> HIDE DEF Upto
  <2> QED BY <2>2, FS_CardinalityType
<1>7. k(0) = 0
  <2>1. Upto(0) = {}
    OBVIOUS
  <2> QED BY <2>1, FS_EmptySet
<1>8. \A n \in Nat : k(n + 1) = k(n) + IF n + 1 \in L THEN 1 ELSE 0
  <2> TAKE n \in Nat
  <2>1. CASE n + 1 \in L
    <3>1. Upto(n + 1) = Upto(n) \cup {n + 1} /\ n + 1 \notin Upto(n)
      BY <2>1
    <3> HIDE DEF Upto
    <3> QED BY <1>6, <2>1, <3>1, FS_AddElement
  <2>2. CASE n + 1 \notin L
    <3>1. Upto(n + 1) = Upto(n)
      BY <2>2
    <3>2. k(n) \in Nat
      BY <1>6
    <3> HIDE DEF Upto
    <3> QED BY <2>2, <3>1, <3>2
  <2> QED BY <2>1, <2>2
<1>9. \A n \in 1..N : Len(old[n]) \in Nat /\ Len(new[n]) = Len(old[n]) + IF n \in L THEN by ELSE 0
  BY <1>1, LineIn DEF Grown
<1> DEFINE T == {n \in Nat : n <= N => g[n] = f[n] + by * k(n)}
<1> HIDE DEF k
<1>10. 0 \in T
  BY <1>4, <1>7
<1>11. \A n \in Nat : n \in T => n + 1 \in T
  <2> SUFFICES ASSUME NEW n \in Nat, g[n] = f[n] + by * k(n), n + 1 <= N
               PROVE  g[n + 1] = f[n + 1] + by * k(n + 1)
    BY <1>1
  <2> DEFINE m == n + 1
  <2>1. /\ m \in 1..N /\ m - 1 = n
        /\ f[m] = f[n] + Len(old[m]) + 1 /\ g[m] = g[n] + Len(new[m]) + 1
    <3>1. m \in 1..N /\ m - 1 = n
      BY <1>1
    <3> HIDE DEF m
    <3> QED BY <1>5, <3>1
  <2>2. f[n] \in Int /\ g[n] \in Int /\ Len(old[m]) \in Nat /\ k(n) \in Nat
    <3>1. k(n) \in Nat
      BY <1>6 DEF k
    <3>2. n \in 0..N
      BY <1>1
    <3>3. Len(old[m]) \in Nat
      BY <1>9, <2>1
    <3> HIDE DEF N, m
    <3> QED BY <3>1, <3>2, <3>3
  <2>3. Len(new[m]) = Len(old[m]) + IF m \in L THEN by ELSE 0
    BY <1>9, <2>1
  <2>4. k(m) = k(n) + IF m \in L THEN 1 ELSE 0
    BY <1>8 DEF k
  <2>5. CASE by = 1
    <3>1. CASE m \in L
      BY <2>1, <2>2, <2>3, <2>4, <2>5, <3>1
    <3>2. CASE m \notin L
      BY <2>1, <2>2, <2>3, <2>4, <2>5, <3>2
    <3> QED BY <3>1, <3>2
  <2>6. CASE by = -1
    <3>1. CASE m \in L
      BY <2>1, <2>2, <2>3, <2>4, <2>6, <3>1
    <3>2. CASE m \notin L
      BY <2>1, <2>2, <2>3, <2>4, <2>6, <3>2
    <3> QED BY <3>1, <3>2
  <2> QED BY <2>5, <2>6
<1>12. N \in T
  <2> HIDE DEF T
  <2> QED BY <1>1, <1>10, <1>11, NatSet
<1>13. Upto(N) = L
  BY <1>1
<1>14. k(N) = Cardinality(L)
  BY <1>13 DEF k
<1>15. g[N] = f[N] + by * k(N)
  <2> HIDE DEF N
  <2> QED BY <1>1, <1>12
<1> QED BY <1>2, <1>3, <1>14, <1>15

LEMMA IndentIn ==
  ASSUME NEW line \in Line
  PROVE  IndentLength(line) \in 0..Len(line) /\ Len(line) \in Nat
<1> DEFINE S == {Len(line)} \cup {i \in 0..Len(line) - 1 : ~BlankAt(line, i)}
<1>1. Len(line) \in Nat
  BY LenNat DEF Line
<1>2. S \subseteq 0..Len(line) /\ S # {}
  BY <1>1
<1>3. IndentLength(line) = Lowest(S)
  BY DEF IndentLength
<1> HIDE DEF S
<1> QED BY <1>1, <1>2, <1>3, LowestIn

\* The lines to indent are lines of the text, none of them empty.
LEMMA IndentedIn ==
  ASSUME NEW s \in States, CursorIn(s) /\ Marks(s)
  PROVE  IndentedLines(s) \subseteq 1..Len(s.lines) /\ \A l \in IndentedLines(s) : s.lines[l] # <<>>
<1> DEFINE ends == {s.cur} \cup (IF s.mark = NoMark THEN {} ELSE {s.mark[1]})
           n == Len(s.lines)
<1>1. n \in Nat /\ s.lines \in Texts
  BY TextLen DEF States
<1>2. s.mark # NoMark => s.mark[1] \in 1..n
  BY <1>1, PlaceIn DEF Marks
<1>3. ends \subseteq 1..n /\ ends # {}
  BY <1>2 DEF CursorIn
<1>4. IndentedLines(s) = {l \in Lowest(ends)..Highest(ends) : s.lines[l] # <<>>}
  BY DEF IndentedLines
<1> HIDE DEF ends, n
<1>5. ends \subseteq 0..n
  BY <1>1, <1>3
<1>6. Lowest(ends) \in ends /\ Highest(ends) \in ends
  BY <1>1, <1>3, <1>5, LowestIn, HighestIn
<1>7. Lowest(ends) \in 1..n /\ Highest(ends) \in 1..n
  BY <1>3, <1>6
<1> QED BY <1>1, <1>4, <1>7 DEF n

\* What a line becomes by indenting: its length, and that no column is lost.
Indentable(s, indented, by) ==
    /\ DOMAIN indented \subseteq 1..Len(s.lines)
    /\ \A l \in DOMAIN indented :
         /\ indented[l] \in Line /\ Len(indented[l]) = Len(s.lines[l]) + by
         /\ s.lines[l] # <<>>
         /\ by = -1 => IndentLength(s.lines[l]) > 0
IndentedText(s, indented) ==
    [l \in DOMAIN s.lines |-> IF l \in DOMAIN indented THEN indented[l] ELSE s.lines[l]]

LEMMA IndentedTextIs ==
  ASSUME NEW s \in States, NEW indented, NEW by \in {-1, 1}, Indentable(s, indented, by)
  PROVE  LET new == IndentedText(s, indented)
         IN  /\ new \in Texts /\ Grown(s.lines, new, DOMAIN indented, by)
             /\ EmptyEnd(s.lines) => EmptyEnd(new)
<1> DEFINE new == IndentedText(s, indented)
           n == Len(s.lines)
           L == DOMAIN indented
<1>1. s.lines \in Texts /\ s.lines \in Lines /\ n \in Nat \ {0} /\ DOMAIN s.lines = 1..n
  BY TextLen DEF States, Lines
<1>2. \A l \in 1..n : s.lines[l] \in Line /\ Len(s.lines[l]) \in Nat
  BY <1>1, LineIn
<1> HIDE DEF n
<1>3. /\ DOMAIN new = 1..n
      /\ \A l \in 1..n : new[l] = IF l \in L THEN indented[l] ELSE s.lines[l]
  BY <1>1 DEF IndentedText
<1>4. \A l \in 1..n : new[l] \in Line /\ Len(new[l]) = Len(s.lines[l]) + IF l \in L THEN by ELSE 0
  <2> TAKE l \in 1..n
  <2>1. CASE l \in L
    BY <1>3, <2>1 DEF Indentable
  <2>2. CASE l \notin L
    BY <1>2, <1>3, <2>2
  <2> QED BY <2>1, <2>2
<1>5. new = [l \in 1..n |-> new[l]]
  BY <1>1 DEF IndentedText
<1> HIDE DEF new
<1>6. new \in [1..n -> Line]
  BY <1>3, <1>4, <1>5
<1>7. new \in Seq(Line) /\ Len(new) = n
  <2>1. new \in Seq(Line)
    BY <1>1, <1>6, SeqDef
  <2> QED BY <1>1, <1>3, <2>1
<1>8. new \in Texts
  BY <1>1, <1>7, EmptySeq DEF Texts
<1>9. Grown(s.lines, new, L, by)
  BY <1>4, <1>7 DEF Grown, Indentable, n
<1>10. EmptyEnd(s.lines) => EmptyEnd(new)
  BY <1>1, <1>3, <1>7 DEF EmptyEnd, Indentable, n
<1> QED BY <1>8, <1>9, <1>10 DEF new

LEMMA ShiftedIn ==
  ASSUME NEW s \in States, NEW indented, NEW by \in {-1, 1}, Indentable(s, indented, by)
  PROVE  \A p \in PositionsOf(s.lines) :
            LET q == Shifted(s, p, DOMAIN indented, by)
            IN  q \in PositionsOf(IndentedText(s, indented)) /\ q[1] = p[1] /\ q[2] \in Int
<1> TAKE p \in PositionsOf(s.lines)
<1> DEFINE new == IndentedText(s, indented)
           L == DOMAIN indented
           q == Shifted(s, p, L, by)
           l == p[1]
           x == p[2]
           i == IndentLength(s.lines[l])
<1>1. new \in Texts /\ Grown(s.lines, new, L, by)
  BY IndentedTextIs
<1>2. s.lines \in Texts
  BY DEF States
<1>3. p = <<l, x>> /\ l \in 1..Len(s.lines) /\ x \in 0..Len(s.lines[l]) /\ s.lines[l] \in Line
  BY <1>2, PlaceIn, TextLen, LineIn
<1>4. i \in 0..Len(s.lines[l]) /\ Len(s.lines[l]) \in Nat
  BY <1>3, IndentIn
<1>5. l \in 1..Len(new) /\ Len(new[l]) = Len(s.lines[l]) + IF l \in L THEN by ELSE 0
  BY <1>1, <1>3 DEF Grown
<1>6. q = IF p # NoMark /\ l \in L /\ x >= i THEN <<l, x + by>> ELSE p
  BY DEF Shifted
<1>7. l \in L /\ by = -1 => i > 0
  BY DEF Indentable
<1> HIDE DEF new, i, l, x, q
<1>8. CASE p # NoMark /\ l \in L /\ x >= i
  <2>1. x + by \in 0..Len(new[l])
    BY <1>3, <1>4, <1>5, <1>7, <1>8
  <2>2. q = <<l, x + by>> /\ x + by \in Int
    BY <1>6, <1>8, <2>1
  <2> QED BY <1>1, <1>5, <2>1, <2>2, Place DEF new, q, l
<1>9. CASE ~(p # NoMark /\ l \in L /\ x >= i)
  <2>1. p # NoMark
    BY <1>3, EmptySeq DEF NoMark
  <2>2. x \in 0..Len(new[l])
    <3>1. CASE l \notin L
      BY <1>3, <1>5, <3>1
    <3>2. CASE l \in L
      BY <1>3, <1>4, <1>9, <2>1, <3>2, <1>5
    <3> QED BY <3>1, <3>2
  <2>3. q = p /\ x \in Int
    BY <1>6, <1>9, <2>2
  <2> QED BY <1>1, <1>3, <1>5, <2>2, <2>3, Place DEF new, q, l, x
<1> QED BY <1>8, <1>9

\* Indenting leaves cursor and mark in the text, and the size and the magicline what they are to be.
LEMMA IndentGood ==
  ASSUME NEW s \in States, NEW indented, NEW by \in {-1, 1},
         Good(s) /\ Indentable(s, indented, by)
  PROVE  Good(Indent(s, indented, by))
<1> DEFINE new == IndentedText(s, indented)
           L == DOMAIN indented
           q == Shifted(s, Cursor(s), L, by)
           x == q[2]
           mark == Shifted(s, s.mark, L, by)
           size == Counted(s.size + by * Cardinality(L))
           t == Indent(s, indented, by)
<1>1. t = [s EXCEPT !.lines = new, !.x = x, !.mark = mark, !.size = size]
  BY DEF Indent, IndentedText
<1>2. new \in Texts /\ Grown(s.lines, new, L, by) /\ (EmptyEnd(s.lines) => EmptyEnd(new))
  BY IndentedTextIs
<1>3. s.lines \in Texts /\ s.size \in Int /\ CursorIn(s) /\ Marks(s)
  BY DEF Good, Sound, States
<1>4. q \in PositionsOf(new) /\ q[1] = s.cur /\ x \in Int
  BY <1>3, CursorPlace, ShiftedIn DEF InText, Cursor
<1>5. (s.mark = NoMark => mark = NoMark) /\ (s.mark # NoMark => mark \in PositionsOf(new))
  <2>1. CASE s.mark = NoMark
    BY <2>1 DEF Shifted
  <2>2. CASE s.mark # NoMark
    BY <1>3, <2>2, ShiftedIn DEF Marks
  <2> QED BY <2>1, <2>2
<1>6. mark \in {NoMark} \cup (Int \X Int)
  <2> HIDE DEF mark
  <2> QED BY <1>2, <1>5, PlaceInts
<1>7. size \in Int /\ (CountSize => size = TotSize(new))
  <2>1. TotSize(new) = TotSize(s.lines) + by * Cardinality(L)
    BY <1>2, <1>3, SizeGrown
  <2>2. Cardinality(L) \in Int
    <3>1. IsFiniteSet(1..Len(s.lines)) /\ L \subseteq 1..Len(s.lines)
      <4>1. Len(s.lines) \in Nat
        BY <1>3, TextLen
      <4> QED BY <4>1, FS_Interval DEF Indentable
    <3>2. IsFiniteSet(L)
      BY <3>1, FS_Subset
    <3>3. Cardinality(L) \in Nat
      BY <3>2, FS_CardinalityType
    <3> QED BY <3>3
  <2>3. by * Cardinality(L) \in Int
    BY <2>2
  <2> QED BY <1>3, <2>1, <2>3 DEF Counted, Good, Sound, Sizes
<1>8. Len(new) = Len(s.lines)
  BY <1>2 DEF Grown
<1> HIDE DEF t, new, x, mark, size
<1>9. /\ t \in States /\ t.lines = new /\ t.x = x /\ t.mark = mark /\ t.size = size
      /\ t.cur = s.cur /\ t.ub = s.ub /\ t.items = s.items /\ t.cu = s.cu /\ t.last = s.last
  BY <1>1, <1>2, <1>4, <1>6, <1>7 DEF States
<1>10. CursorIn(t)
  BY <1>2, <1>4, PlaceIn, <1>9 DEF CursorIn, x
<1>11. Sound(t) /\ Magic(t)
  BY <1>2, <1>5, <1>7, <1>9, <1>10 DEF Good, Sound, Marks, Sizes, Magic
<1>12. TopOK(t) /\ TopLine(t)
  BY <1>8, <1>9 DEF Good, TopOK, TopLine
<1> QED BY <1>9, <1>11, <1>12 DEF Good, t

\* Setting the flag that the file was modified changes nothing that matters here.
LEMMA ModGood ==
  ASSUME NEW s \in States, NEW b \in BOOLEAN, Good(s)
  PROVE  Good([s EXCEPT !.mod = b])
<1> DEFINE t == [s EXCEPT !.mod = b]
<1>1. Alike(s, t) /\ t \in States
  BY DEF Alike, States
<1> QED BY <1>1, GoodAlike

\* do_indent, by one tab.
LEMMA IndentMoreGood ==
  ASSUME NEW s \in States, Good(s) /\ Blanks # {}
  PROVE  Good(IndentMore(s))
<1> DEFINE blank == CHOOSE b \in Blanks : TRUE
           more(line) == Prefix(line, IndentLength(line)) \o <<blank>> \o Suffix(line, IndentLength(line))
           indented == [l \in IndentedLines(s) |-> more(s.lines[l])]
           t == Indent(s, indented, 1)
<1>1. IndentMore(s) = [t EXCEPT !.mod = TRUE]
  BY DEF IndentMore
<1>2. IndentedLines(s) \subseteq 1..Len(s.lines) /\ \A l \in IndentedLines(s) : s.lines[l] # <<>>
  BY IndentedIn DEF Good, Sound
<1>3. blank \in Blanks
  OBVIOUS
<1> HIDE DEF blank
<1>4. \A line \in Line : more(line) \in Line /\ Len(more(line)) = Len(line) + 1
  <2> TAKE line \in Line
  <2> DEFINE i == IndentLength(line)
             a == Prefix(line, i)
             c == Suffix(line, i)
             w == <<blank>>
  <2>1. i \in 0..Len(line) /\ Len(line) \in Nat
    BY IndentIn
  <2>2. a \in Line /\ c \in Line /\ Len(a) = i /\ Len(c) = Len(line) - i
    <3> HIDE DEF i
    <3> QED BY <2>1, Sides
  <2>3. w \in Line /\ Len(w) = 1
    BY <1>3 DEF Line
  <2> HIDE DEF i, a, c, w
  <2>4. a \o w \in Line /\ Len(a \o w) = i + 1
    BY <2>2, <2>3, LineConcat
  <2>5. (a \o w) \o c \in Line /\ Len((a \o w) \o c) = Len(line) + 1
    <3> DEFINE aw == a \o w
    <3> HIDE DEF aw
    <3>1. aw \in Line /\ Len(aw) = i + 1
      BY <2>4 DEF aw
    <3>2. aw \o c \in Line /\ Len(aw \o c) = Len(aw) + Len(c)
      BY <2>2, <3>1, LineConcat
    <3> QED BY <2>1, <2>2, <3>1, <3>2 DEF aw
  <2> QED BY <2>5 DEF a, w, c, i
<1>5. \A l \in IndentedLines(s) : s.lines[l] \in Line
  <2>1. s.lines \in Texts
    BY DEF States
  <2> QED BY <1>2, <2>1, TextLen, LineIn
<1> HIDE DEF more
<1>6. DOMAIN indented = IndentedLines(s) /\ \A l \in IndentedLines(s) : indented[l] = more(s.lines[l])
  OBVIOUS
<1> HIDE DEF indented
<1>7. Indentable(s, indented, 1)
  BY <1>2, <1>4, <1>5, <1>6 DEF Indentable
<1>8. Good(t) /\ t \in States
  BY <1>7, IndentGood DEF Good
<1> HIDE DEF t
<1> QED BY <1>1, <1>8, ModGood

\* do_indent, by one tab to the left.
LEMMA IndentLessGood ==
  ASSUME NEW s \in States, Good(s)
  PROVE  Good(IndentLess(s))
<1> DEFINE lines == {l \in IndentedLines(s) : IndentLength(s.lines[l]) > 0}
           less(line) == Prefix(line, IndentLength(line) - 1) \o Suffix(line, IndentLength(line))
           indented == [l \in lines |-> less(s.lines[l])]
           t == Indent(s, indented, -1)
<1>1. IndentLess(s) = [t EXCEPT !.mod = @ \/ lines # {}]
  BY DEF IndentLess
<1>2. lines \subseteq 1..Len(s.lines) /\ \A l \in lines : s.lines[l] # <<>> /\ IndentLength(s.lines[l]) > 0
  BY IndentedIn DEF Good, Sound
<1>3. \A line \in Line : IndentLength(line) > 0 => less(line) \in Line /\ Len(less(line)) = Len(line) - 1
  <2> TAKE line \in Line
  <2> HAVE IndentLength(line) > 0
  <2> DEFINE i == IndentLength(line)
             j == i - 1
             a == Prefix(line, j)
             c == Suffix(line, i)
  <2>1. i \in 0..Len(line) /\ Len(line) \in Nat /\ j \in 0..Len(line)
    BY IndentIn
  <2> HIDE DEF j
  <2>2. a \in Line /\ Len(a) = j
    <3> HIDE DEF i
    <3> QED BY <2>1, Sides
  <2>3. c \in Line /\ Len(c) = Len(line) - i
    <3> HIDE DEF i
    <3> QED BY <2>1, Sides
  <2> HIDE DEF i, a, c
  <2>4. a \o c \in Line /\ Len(a \o c) = Len(line) - 1
    <3>1. a \o c \in Line /\ Len(a \o c) = Len(a) + Len(c)
      BY <2>2, <2>3, LineConcat
    <3>2. j = i - 1
      BY DEF j
    <3> QED BY <2>1, <2>2, <2>3, <3>1, <3>2
  <2> QED BY <2>4 DEF a, c, i, j
<1>4. \A l \in lines : s.lines[l] \in Line
  <2>1. s.lines \in Texts
    BY DEF States
  <2> QED BY <1>2, <2>1, TextLen, LineIn
<1> HIDE DEF less, lines
<1>5. DOMAIN indented = lines /\ \A l \in lines : indented[l] = less(s.lines[l])
  OBVIOUS
<1> HIDE DEF indented
<1>6. Indentable(s, indented, -1)
  BY <1>2, <1>3, <1>4, <1>5 DEF Indentable
<1>7. Good(t) /\ t \in States
  BY <1>6, IndentGood DEF Good
<1> HIDE DEF t
<1> DEFINE b == t.mod \/ lines # {}
<1>8. IndentLess(s) = [t EXCEPT !.mod = b] /\ b \in BOOLEAN
  BY <1>1
<1> HIDE DEF b
<1> QED BY <1>7, <1>8, ModGood

-----------------------------------------------------------------------------
(* The commands.                                                           *)

\* What every command begins and ends with changes nothing that matters here.
LEMMA OtherGood ==
  ASSUME NEW s \in States, Good(s)
  PROVE  Good(OtherCommand(s)) /\ ~OtherCommand(s).keep
<1> DEFINE t == OtherCommand(s)
<1>1. t = [s EXCEPT !.keep = FALSE, !.sameline = FALSE]
  BY DEF OtherCommand
<1>2. t \in States /\ Alike(s, t) /\ ~t.keep
  BY <1>1 DEF Alike, States
<1> QED BY <1>2, GoodAlike

LEMMA PrepGood ==
  ASSUME NEW s \in States, NEW b \in BOOLEAN
  PROVE  LET t == [s EXCEPT !.prep = b] IN
/\ Good(s) => Good(t)
/\ Collects(s) => Collects(t)
<1> DEFINE t == [s EXCEPT !.prep = b]
<1>1. t \in States /\ Alike(s, t) /\ t.keep = s.keep
  BY DEF Alike, States
<1> HIDE DEF t
<1>2. Collects(s) => Collects(t)
  BY <1>1 DEF Collects, Alike
<1> QED BY <1>1, <1>2, GoodAlike DEF t

\* What holds as long as nothing is undone: the state is good, and a run of cuts is not in a
\* marked text.
Kept(s) == Good(s) /\ Collects(s)

LEMMA CommandKeeps ==
  ASSUME NEW name, NEW s, Kept(s), Command(name, s)
  PROVE  Kept(ed')
<1> DEFINE b == s.prep /\ name \in {"type", "tab"}
<1>1. s \in States /\ b \in BOOLEAN
  BY DEF Kept, Good, States
<1>2. ed' = [s EXCEPT !.prep = b]
  BY DEF Command
<1> HIDE DEF b
<1> QED BY <1>1, <1>2, PrepGood DEF Kept

LEMMA OtherKeeps ==
  ASSUME NEW name, NEW s, Good(s), Command(name, OtherCommand(s))
  PROVE  Kept(ed')
<1>1. Good(OtherCommand(s)) /\ ~OtherCommand(s).keep
  BY OtherGood DEF Good
<1>2. Kept(OtherCommand(s))
  BY <1>1 DEF Kept, Collects
<1> QED BY <1>2, CommandKeeps

\* Typing, with the wrapping it leads to.
LEMMA TypedGood ==
  ASSUME NEW s \in States, NEW c \in Char, Good(s)
  PROVE  Good(Wrap(TypeChar(s, c)))
<1> DEFINE t == TypeChar(s, c)
<1>1. TypedIs(s, t)
  BY TypeCharGood
<1> HIDE DEF t
<1>2. t \in States /\ Good(t) /\ t.items # <<>>
  BY <1>1 DEF TypedIs, Good
<1> QED BY <1>2, WrapGood DEF t

\* do_mark: the mark is set where the cursor is.
LEMMA MarkGood ==
  ASSUME NEW s \in States, Good(s)
  PROVE  Good([s EXCEPT !.mark = IF @ = NoMark THEN Cursor(s) ELSE NoMark])
<1> DEFINE m == IF s.mark = NoMark THEN Cursor(s) ELSE NoMark
           t == [s EXCEPT !.mark = m]
<1>1. s.lines \in Texts /\ Cursor(s) \in PositionsOf(s.lines)
  BY CursorPlace DEF Good, Sound, States, InText
<1>2. m # NoMark => m \in PositionsOf(s.lines)
  BY <1>1
<1>3. m \in {NoMark} \cup (Int \X Int)
  BY <1>1, PlaceInts
<1> HIDE DEF m
<1>4. /\ t \in States /\ t.lines = s.lines /\ t.cur = s.cur /\ t.x = s.x /\ t.mark = m /\ t.size = s.size
      /\ t.ub = s.ub /\ t.items = s.items /\ t.cu = s.cu /\ t.last = s.last
  BY <1>3 DEF States
<1> HIDE DEF t
<1>5. Good(t)
  BY <1>2, <1>4 DEF Good, Sound, CursorIn, Marks, Sizes, Magic, TopOK, TopLine
<1> QED BY <1>5 DEF t, m

\* When nothing is undone current_undo is the item on top of the stack, if there is one.
LEMMA StackIn ==
  ASSUME NEW s \in States, TopOK(s)
  PROVE  s.cu \in 1..(Len(s.items) + 1) /\ (HasUndo(s) => s.items # <<>>)
<1>1. s.items \in Seq(Items) /\ s.cu = 1
  BY DEF States, TopOK
<1> DEFINE n == Len(s.items)
<1>2. n \in Nat /\ (s.items = <<>> => n = 0)
  BY <1>1, EmptySeq
<1>3. HasUndo(s) <=> s.cu <= n
  BY DEF HasUndo
<1> HIDE DEF n
<1>4. s.cu \in 1..(n + 1)
  BY <1>1, <1>2
<1>5. HasUndo(s) => n # 0
  BY <1>1, <1>2, <1>3
<1> QED BY <1>2, <1>4, <1>5 DEF n

\* The sessions in which the user neither undoes nor redoes.
NothingUndone == \A session \in Sessions : session \cap {"undo", "redo"} = {}

LEMMA KeptInit == Init => Kept(ed)
<1> SUFFICES ASSUME NEW session \in Sessions, NEW lines \in InitialTexts, NEW p \in PositionsOf(lines),
               ed = [session |-> session, lines |-> lines, cur |-> p[1], x |-> p[2], mark |-> NoMark,
                     size |-> Counted(TotSize(lines)), mod |-> FALSE,
                     items |-> <<>>, cu |-> 1, last |-> "OTHER",
                     cutbuf |-> NULL, keep |-> FALSE, sameline |-> FALSE, prep |-> FALSE, ub |-> FALSE]
             PROVE  Kept(ed)
  BY DEF Init
<1>1. lines \in Texts /\ (~NoNewlines => EmptyEnd(lines))
  BY EditorAssumption DEF EmptyEnd
<1>2. p[1] \in 1..Len(lines) /\ p[2] \in 0..Len(lines[p[1]]) /\ p[1] \in Int /\ p[2] \in Int
  BY <1>1, PlaceIn, PlaceInts
<1> DEFINE c == p[1]
           y == p[2]
           size == Counted(TotSize(lines))
<1>3. size \in Int /\ (CountSize => size = TotSize(lines))
  <2>1. TotSize(lines) \in Int
    BY <1>1, SizeNat
  <2> QED BY <2>1 DEF Counted
<1>4. <<>> \in Seq(Items) /\ NULL \in Seq(Line) /\ 1 \in Nat
  BY EmptySeq DEF NULL
<1> HIDE DEF c, y, size
<1>5. /\ ed.lines = lines /\ ed.cur = c /\ ed.x = y /\ ed.mark = NoMark /\ ed.size = size /\ ed.items = <<>>
      /\ ed.cu = 1 /\ ed.last = "OTHER" /\ ~ed.keep /\ ~ed.ub
  BY DEF c, y, size
<1>6. ed \in States
  BY <1>1, <1>2, <1>3, <1>4 DEF States, c, y, size
<1>7. Sound(ed) /\ Magic(ed) /\ TopOK(ed) /\ TopLine(ed)
  BY <1>1, <1>2, <1>3, <1>5 DEF Sound, Magic, TopOK, TopLine, CursorIn, Marks, Sizes, c, y
<1> QED BY <1>5, <1>6, <1>7 DEF Kept, Good, Collects

LEMMA KeptNext ==
  ASSUME NothingUndone, "paste with mark" \in Avoided, Kept(ed), [Next]_ed
  PROVE  Kept(ed')
<1>1. Good(ed) /\ ed \in States /\ Collects(ed) /\ ed.session \in Sessions
  BY DEF Kept, Good, States
<1>2. CASE UNCHANGED ed
  BY <1>2 DEF Kept, Good, Collects, Sound, CursorIn, Marks, Sizes, Magic, TopOK, TopLine
<1>3. CASE Type
  <2>1. PICK c \in Chars : Command("type", OtherCommand(Wrap(TypeChar(ed, c))))
    BY <1>3 DEF Type
  <2>2. Good(Wrap(TypeChar(ed, c)))
    BY <1>1, TypedGood DEF Char
  <2> QED BY <2>1, <2>2, OtherKeeps
<1>4. CASE DoTab
  <2> DEFINE s == [ed EXCEPT !.prep = FALSE]
  <2>1. PICK b \in Blanks : Command("tab", OtherCommand(Wrap(TypeChar(s, b))))
    BY <1>4 DEF DoTab
  <2>2. Good(s) /\ s \in States
    BY <1>1, PrepGood DEF Good
  <2> HIDE DEF s
  <2>3. Good(Wrap(TypeChar(s, b)))
    BY <2>2, TypedGood DEF Char
  <2> QED BY <2>1, <2>3, OtherKeeps
<1>5. CASE DoEnter
  <2>1. Good(Enter(ed, FALSE))
    BY <1>1, EnterGood DEF EnterIs
  <2> QED BY <1>5, <2>1, OtherKeeps DEF DoEnter
<1>6. CASE DoDelete
  <2>1. Good(Deletion(ed, "DEL"))
    BY <1>1, DeletionGood DEF DeletionIs
  <2> QED BY <1>6, <2>1, OtherKeeps DEF DoDelete
<1>7. CASE DoBackspace
  BY <1>1, <1>7, BackspaceGood, OtherKeeps DEF DoBackspace
<1>8. CASE DoCutText
  BY <1>1, CutGood, <1>8, CommandKeeps DEF Kept, DoCutText
<1>9. CASE DoCutTillEof
  BY <1>1, CutGood, <1>9, CommandKeeps DEF Kept, DoCutTillEof
<1>10. CASE DoCopyText
  <2>1. Kept(CopyText(ed))
    BY <1>1, CopyGood DEF Kept, Collects
  <2> QED BY <1>10, <2>1, CommandKeeps DEF DoCopyText
<1>11. CASE DoUncutText
  BY <1>11, <1>1, PasteGood, OtherKeeps DEF DoUncutText, Marked
<1>12. CASE DoMark
  BY <1>1, <1>12, MarkGood, OtherKeeps DEF DoMark
<1>13. CASE DoLeft
  BY <1>1, <1>13, LeftGood, OtherKeeps DEF DoLeft
<1>14. CASE DoRight
  BY <1>1, <1>14, RightGood, OtherKeeps DEF DoRight
<1>15. CASE DoGotoLineColumn
  <2>1. PICK p \in PositionsOf(ed.lines) : Command("goto", OtherCommand([ed EXCEPT !.cur = p[1], !.x = p[2]]))
    BY <1>15 DEF DoGotoLineColumn
  <2>2. Good([ed EXCEPT !.cur = p[1], !.x = p[2]])
    BY <1>1, Moved
  <2> QED BY <2>1, <2>2, OtherKeeps
<1>16. CASE DoIndent
  BY <1>1, <1>16, IndentMoreGood, OtherKeeps DEF DoIndent
<1>17. CASE DoUnindent
  BY <1>1, <1>17, IndentLessGood, OtherKeeps DEF DoUnindent
<1>18. ~DoUndo /\ ~DoRedo
  BY <1>1 DEF NothingUndone, DoUndo, DoRedo, Command
<1> QED BY <1>2, <1>3, <1>4, <1>5, <1>6, <1>7, <1>8, <1>9, <1>10, <1>11, <1>12, <1>13, <1>14, <1>15, <1>16,
           <1>17, <1>18 DEF Next

\* The inductive invariant as long as nothing is undone: the item on top of the stack can be gone
\* on with, and the cursor, the mark, the size and the magicline agree with the text.
EditingInv == Kept(ed)

\* As long as nothing is undone and nothing is pasted into marked text, every state of the
\* editor is good.
THEOREM EditingKept ==
  ASSUME NothingUndone, "paste with mark" \in Avoided
  PROVE  Spec => []EditingInv
<1>1. Init => EditingInv
  BY KeptInit DEF EditingInv
<1>2. EditingInv /\ [Next]_ed => EditingInv'
  BY KeptNext DEF EditingInv
<1> QED BY <1>1, <1>2, PTL DEF Spec

\* Whatever is typed, broken, deleted, cut, copied, pasted, indented or wrapped, the state has
\* its type, current_undo is on the stack and the text ends in its magicline.
THEOREM EditingTypeOK ==
  ASSUME NothingUndone, "paste with mark" \in Avoided
  PROVE  Spec => []TypeOK
<1>1. EditingInv => TypeOK
  <2> HAVE EditingInv
  <2>1. ed \in States /\ TopOK(ed)
    BY DEF EditingInv, Kept, Good
  <2>2. ed.cu \in 1..(Len(ed.items) + 1)
    BY <2>1, StackIn
  <2> QED BY <2>2 DEF EditingInv, Kept, Good, TypeOK, Sound, CursorIn, TopOK, Magic, EmptyEnd
<1> QED BY <1>1, EditingKept, PTL

\* The editor never stops on an assertion (do_output, do_deletion: current_x <= strlen(data)),
\* never reads past the end of a line, and the line that undo would work on exists.
THEOREM EditingKeepsRunning ==
  ASSUME NothingUndone, "paste with mark" \in Avoided
  PROVE  Spec => []KeepsRunning
<1>1. EditingInv => KeepsRunning
  <2> HAVE EditingInv
  <2>1. ed \in States /\ CursorIn(ed) /\ ~ed.ub /\ TopOK(ed) /\ TopLine(ed)
    BY DEF EditingInv, Kept, Good, Sound
  <2>2. InText(ed, Cursor(ed))
    BY <2>1, CursorPlace
  <2>3. UndoReachable
    BY <2>1, StackIn DEF TopOK, UndoReachable, TopLine, CurUndo
  <2> QED BY <2>1, <2>2, <2>3 DEF KeepsRunning, NoUndefined, CursorInText
<1> QED BY <1>1, EditingKept, PTL

\* The mark stays a position of the text through every edit before, at and behind it.
THEOREM EditingMarkInText ==
  ASSUME NothingUndone, "paste with mark" \in Avoided
  PROVE  Spec => []MarkInText
<1>1. EditingInv => MarkInText
  BY DEF EditingInv, Kept, Good, Sound, Marks, MarkInText, InText
<1> QED BY <1>1, EditingKept, PTL

\* totsize is the number of characters of the text, after any sequence of edits.
THEOREM EditingTotSize ==
  ASSUME NothingUndone, "paste with mark" \in Avoided
  PROVE  Spec => []TotSizeIsSize
<1>1. EditingInv => TotSizeIsSize
  BY DEF EditingInv, Kept, Good, Sound, Sizes, TotSizeIsSize
<1> QED BY <1>1, EditingKept, PTL

-----------------------------------------------------------------------------
(* What the undo items say of the texts before and after them.             *)

Added(u, t0, t1) ==
    \E B, F \in Texts : \E w \in Line :
      /\ u.type = "ADD" /\ u.str = <<w>>
      /\ t0 = B \oplus F /\ t1 = B \oplus (<<w>> \oplus F)
      /\ <<u.lineno, u.begin>> = End(B) /\ <<u.mlineno, u.mx>> = End(B \oplus <<w>>)
Deleted(u, t0, t1) ==
    \E B, F \in Texts : \E w \in Line :
      /\ u.type \in {"BACK", "DEL"} /\ u.str = <<w>>
      /\ t0 = B \oplus (<<w>> \oplus F) /\ t1 = B \oplus F
      /\ <<u.mlineno, u.begin>> = End(B) /\ u.lineno = u.mlineno
      /\ u.mx \in u.begin..u.begin + Len(w)
Joined(u, t0, t1) ==
    \E B, F \in Texts :
      /\ u.type = "JOIN" /\ u.str = <<F[1]>>
      /\ t0 = B \oplus (Newline \oplus F) /\ t1 = B \oplus F
      /\ <<u.mlineno, u.mx>> = End(B)
      /\ <<u.lineno, u.begin>> = End(B) \/ <<u.lineno, u.begin>> = End(B \oplus Newline)
Broken(u, t0, t1) ==
    \E B, F \in Texts :
      /\ u.type = "ENTER" /\ t0 = B \oplus F /\ t1 = B \oplus (Newline \oplus F)
      /\ <<u.lineno, u.begin>> = End(B) /\ u.mlineno = u.lineno /\ u.mx = 0
CutAway(u, t0, t1) ==
    \E B, R, F \in Texts :
      /\ u.type \in {"CUT", "CUT_EOF"} /\ u.buf = R /\ u.xflags # "WAS_WHOLE_LINE"
      /\ t0 = B \oplus (R \oplus F) /\ t1 = B \oplus F
      /\ <<u.mlineno, u.mx>> = End(B) /\ <<u.lineno, u.begin>> = End(B \oplus R)
Pasted(u, t0, t1) ==
    \E B, R, F \in Texts :
      /\ u.type = "PASTE" /\ u.buf = R /\ u.xflags # "WAS_WHOLE_LINE"
      /\ t0 = B \oplus F /\ t1 = B \oplus (R \oplus F)
      /\ <<u.mlineno, u.mx>> = End(B) /\ <<u.lineno, u.begin>> = End(B \oplus R)

Records(u, t0, t1) ==
    \/ Added(u, t0, t1) \/ Deleted(u, t0, t1) \/ Joined(u, t0, t1) \/ Broken(u, t0, t1)
    \/ CutAway(u, t0, t1) \/ Pasted(u, t0, t1)

\* Where undoing or redoing an item leads to.
Leads(s, t, lines) ==
    /\ t \in States /\ t.lines = lines /\ ~t.ub /\ t.items = s.items /\ t.cu = s.cu
    /\ s.mark = NoMark => t.mark = NoMark

MarkSet == {NoMark} \cup (Int \X Int)

LEMMA EndPair ==
  ASSUME NEW B \in Texts, NEW l, NEW x, <<l, x>> = End(B)
  PROVE  l = End(B)[1] /\ x = End(B)[2] /\ l \in Nat \ {0} /\ x \in Nat
<1>1. End(B)[1] \in Nat \ {0} /\ End(B)[2] \in Nat
  BY EndIn
<1>2. <<l, x>>[1] = l /\ <<l, x>>[2] = x
  OBVIOUS
<1> QED BY <1>1, <1>2

LandsIn(s, t, lines, l, x) ==
    /\ Leads(s, t, lines)
    /\ <<l, x>> \in PositionsOf(lines) \/ x = 0 => CursorIn(t)
    /\ <<l, x>> \in PositionsOf(lines) => t.cur = l /\ t.x = x

LEMMA Landing ==
  ASSUME NEW s \in States, NEW lines \in Texts, NEW m \in MarkSet, NEW l \in Int, NEW x \in Int,
         ~s.ub /\ (s.mark = NoMark => m = NoMark)
  PROVE  LandsIn(s, Goto([s EXCEPT !.lines = lines, !.mark = m], l, x), lines, l, x)
<1> DEFINE a == [s EXCEPT !.lines = lines, !.mark = m]
           n == Len(lines)
           d == IF l < 1 THEN 1 ELSE IF l > n THEN n ELSE l
           t == Goto(a, l, x)
<1>1. a \in States /\ a.lines = lines /\ a.mark = m /\ a.ub = s.ub /\ a.items = s.items /\ a.cu = s.cu
  BY DEF States, MarkSet
<1>2. t = [a EXCEPT !.cur = d, !.x = x]
  BY <1>1 DEF Goto
<1>3. n \in Nat \ {0} /\ lines \in Lines
  BY TextLen
<1>4. d \in 1..n /\ d \in Int
  <2> HIDE DEF n
  <2> QED BY <1>3
<1> HIDE DEF a, d, t
<1>5. /\ t \in States /\ t.cur = d /\ t.x = x /\ t.lines = lines /\ t.mark = m /\ t.ub = s.ub
      /\ t.items = s.items /\ t.cu = s.cu
  BY <1>1, <1>2, <1>4 DEF States
<1>6. Leads(s, t, lines)
  BY <1>5 DEF Leads
<1>7. Len(lines[d]) \in Nat
  BY <1>3, <1>4, LineIn
<1>8. ASSUME <<l, x>> \in PositionsOf(lines) PROVE l = d /\ x \in 0..Len(lines[l])
  <2>1. l \in 1..n /\ x \in 0..Len(lines[l])
    BY <1>8, PlaceIn
  <2> HIDE DEF n
  <2> QED BY <1>3, <2>1 DEF d
<1>9. CursorIn(t) <=> (d \in 1..n /\ x \in 0..Len(lines[d]))
  BY <1>5 DEF CursorIn
<1>10. <<l, x>> \in PositionsOf(lines) => CursorIn(t) /\ t.cur = l /\ t.x = x
  BY <1>4, <1>5, <1>8, <1>9
<1>11. x = 0 => CursorIn(t)
  BY <1>4, <1>7, <1>9
<1> QED BY <1>6, <1>10, <1>11 DEF t, a, LandsIn

\* The same where the mark is left alone.
LEMMA LandingThere ==
  ASSUME NEW s \in States, NEW lines \in Texts, NEW l \in Int, NEW x \in Int, ~s.ub
  PROVE  LandsIn(s, Goto([s EXCEPT !.lines = lines], l, x), lines, l, x)
<1> DEFINE m == s.mark
           a == [s EXCEPT !.lines = lines]
           b == [s EXCEPT !.lines = lines, !.mark = m]
<1>1. m \in MarkSet /\ a = b
  BY DEF States, MarkSet
<1>2. s.mark = NoMark => m = NoMark
  OBVIOUS
<1> HIDE DEF m
<1>3. LandsIn(s, Goto(b, l, x), lines, l, x)
  BY <1>1, <1>2, Landing
<1> HIDE DEF a, b
<1>4. LandsIn(s, Goto(a, l, x), lines, l, x)
  BY <1>1, <1>3
<1> QED BY <1>4 DEF a

\* Undoing and redoing put a word into a line, or take it out.
PutsIn(s, B, w, F) ==
    InsertText(s, End(B)[1], End(B)[2], w) = [s EXCEPT !.lines = B \oplus (<<w>> \oplus F)]
TakesOut(s, B, w, F) ==
    RemoveText(s, End(B)[1], End(B)[2], w) = [s EXCEPT !.lines = B \oplus F]

LEMMA TextInserted ==
  ASSUME NEW s \in States, NEW B \in Texts, NEW F \in Texts, NEW w \in Line, s.lines = B \oplus F
  PROVE  PutsIn(s, B, w, F)
<1> DEFINE t == s.lines
           l == End(B)[1]
           x == End(B)[2]
           v == Prefix(t[l], x) \o w \o Suffix(t[l], x)
           new == B \oplus (<<w>> \oplus F)
<1>1. t \in Texts /\ <<l, x>> \in PositionsOf(t) /\ l \in 1..Len(t) /\ x \in 0..Len(t[l])
  <2>1. t \in Texts /\ End(B) \in PositionsOf(t)
    BY EndPosition DEF States
  <2> QED BY <2>1, PlaceIn
<1>2. t[l] \in Line /\ Len(t[l]) \in Nat
  BY <1>1, TextLen, LineIn
<1>3. ReplaceLine(t, l, <<v>>) = new
  BY Putting DEF PutIs
<1>4. v \in Line
  <2> DEFINE a == Prefix(t[l], x)
             c == Suffix(t[l], x)
  <2>1. a \in Line /\ c \in Line
    <3> HIDE DEF l, x, t
    <3> QED BY <1>1, <1>2, Sides
  <2> HIDE DEF a, c
  <2>2. a \o w \in Line
    BY <2>1, LineConcat
  <2>3. (a \o w) \o c \in Line
    <3> DEFINE aw == a \o w
    <3> HIDE DEF aw
    <3>1. aw \in Line
      BY <2>2 DEF aw
    <3>2. aw \o c \in Line
      BY <2>1, <3>1, LineConcat
    <3> QED BY <3>2 DEF aw
  <2> QED BY <2>3 DEF a, c
<1> HIDE DEF l, x, v, new
<1>5. [t EXCEPT ![l] = v] = new
  BY <1>1, <1>3, <1>4, ExceptLine
<1>6. ~(x > Len(t[l]))
  BY <1>1, <1>2
<1>7. InsertText(s, l, x, w) = [s EXCEPT !.lines[l] = v]
  BY <1>6 DEF InsertText, v
<1>8. [s EXCEPT !.lines[l] = v] = [s EXCEPT !.lines = new]
  BY <1>5 DEF States
<1> QED BY <1>7, <1>8 DEF l, x, new, PutsIn

LEMMA TextRemoved ==
  ASSUME NEW s \in States, NEW B \in Texts, NEW F \in Texts, NEW w \in Line,
         s.lines = B \oplus (<<w>> \oplus F)
  PROVE  TakesOut(s, B, w, F)
<1> DEFINE t == s.lines
           l == End(B)[1]
           x == End(B)[2]
           k == x + Len(w)
           v == Prefix(t[l], x) \o Suffix(t[l], k)
           new == B \oplus F
           G == <<w>> \oplus F
<1>1. t \in Texts /\ l \in 1..Len(t) /\ x \in 0..Len(t[l])
  <2>1. t \in Texts
    BY DEF States
  <2>2. <<w>> \in Texts /\ G \in Texts
    BY OneIn, AttachIn
  <2>3. End(B) \in PositionsOf(t)
    <3> HIDE DEF G
    <3>1. t = B \oplus G
      BY DEF G
    <3> QED BY <2>2, <3>1, EndPosition
  <2> QED BY <2>1, <2>3, PlaceIn
<1>2. t[l] \in Line /\ Len(t[l]) \in Nat /\ Len(w) \in Nat
  BY <1>1, TextLen, LineIn, LenNat DEF Line
<1>3. ReplaceLine(t, l, <<v>>) = new /\ k <= Len(t[l])
  BY Taking DEF TakeIs
<1>4. v \in Line
  <2> DEFINE a == Prefix(t[l], x)
             c == Suffix(t[l], k)
  <2>1. a \in Line
    <3> HIDE DEF l, x, t
    <3> QED BY <1>1, <1>2, Sides
  <2>2. c \in Line
    <3>1. k \in 0..Len(t[l])
      BY <1>1, <1>2, <1>3
    <3> HIDE DEF l, k, t
    <3> QED BY <1>2, <3>1, Sides
  <2> HIDE DEF a, c
  <2>3. a \o c \in Line
    BY <2>1, <2>2, LineConcat
  <2> QED BY <2>3 DEF a, c
<1>5. ~(x + Len(w) > Len(t[l]))
  <2> HIDE DEF l
  <2> QED BY <1>1, <1>2, <1>3
<1>6. RemoveText(s, l, x, w) = [s EXCEPT !.lines[l] = v]
  BY <1>5 DEF RemoveText
<1> HIDE DEF l, x, v, new
<1>7. [t EXCEPT ![l] = v] = new
  BY <1>1, <1>3, <1>4, ExceptLine
<1>8. [s EXCEPT !.lines[l] = v] = [s EXCEPT !.lines = new]
  BY <1>7 DEF States
<1> QED BY <1>6, <1>8 DEF l, x, new, TakesOut

-----------------------------------------------------------------------------
(* Undoing an item leads from the text after it to the one before, and redoing back. *)

UndoneIs(s, u, t0) == Leads(s, UndoItem(s, u), t0) /\ CursorIn(UndoItem(s, u))
RedoneIs(s, u, t1) ==
    Leads(s, RedoItem(s, u), t1) /\ (u.type \notin {"BACK", "DEL"} => CursorIn(RedoItem(s, u)))

LEMMA WordEnd ==
  ASSUME NEW B \in Texts, NEW F \in Texts, NEW w \in Line
  PROVE  /\ <<w>> \oplus F \in Texts /\ B \oplus F \in Texts /\ B \oplus (<<w>> \oplus F) \in Texts
         /\ End(B \oplus <<w>>) = <<End(B)[1], End(B)[2] + Len(w)>>
         /\ End(B \oplus <<w>>) \in PositionsOf(B \oplus (<<w>> \oplus F))
         /\ End(B) \in PositionsOf(B \oplus F) /\ End(B) \in PositionsOf(B \oplus (<<w>> \oplus F))
         /\ Len(w) \in Nat /\ <<w>>[1] = w
<1> DEFINE W == <<w>>
<1>1. W \in Texts /\ W[1] = w /\ Len(w) \in Nat
  BY OneIn, LenNat DEF Line
<1>2. End(B \oplus W) = EndOf(End(B), W) /\ EndOf(End(B), W) = <<End(B)[1], End(B)[2] + Len(w)>>
  BY <1>1, EndPlus, EndOfLine
<1> HIDE DEF W
<1>3. W \oplus F \in Texts /\ B \oplus F \in Texts /\ B \oplus (W \oplus F) \in Texts /\ B \oplus W \in Texts
  BY <1>1, AttachIn
<1>4. (B \oplus W) \oplus F = B \oplus (W \oplus F)
  BY <1>1, AttachAssoc
<1>5. End(B \oplus W) \in PositionsOf((B \oplus W) \oplus F)
  BY <1>3, EndPosition
<1>6. End(B) \in PositionsOf(B \oplus F) /\ End(B) \in PositionsOf(B \oplus (W \oplus F))
  BY <1>3, EndPosition
<1> QED BY <1>1, <1>2, <1>3, <1>4, <1>5, <1>6 DEF W

LEMMA LandedIs ==
  \A s \in States : \A lines \in Texts : \A l, x \in Int :
     ~s.ub /\ <<l, x>> \in PositionsOf(lines) =>
       LET t == Goto([s EXCEPT !.lines = lines], l, x) IN Leads(s, t, lines) /\ CursorIn(t)
BY LandingThere DEF LandsIn

LEMMA UndoAdded ==
  ASSUME NEW s \in States, NEW u \in Items, NEW t0 \in Texts, ~s.ub /\ Added(u, t0, s.lines)
  PROVE  UndoneIs(s, u, t0)
<1>1. PICK B, F \in Texts, w \in Line :
        /\ u.type = "ADD" /\ u.str = <<w>>
        /\ t0 = B \oplus F /\ s.lines = B \oplus (<<w>> \oplus F)
        /\ <<u.lineno, u.begin>> = End(B) /\ <<u.mlineno, u.mx>> = End(B \oplus <<w>>)
  BY DEF Added
<1>2. u.lineno \in Int /\ u.begin \in Int /\ u.mlineno \in Int
  BY DEF Items
<1>3. /\ End(B \oplus <<w>>) = <<End(B)[1], End(B)[2] + Len(w)>>
      /\ End(B) \in PositionsOf(B \oplus F) /\ <<w>>[1] = w
  BY WordEnd
<1>4. u.lineno = End(B)[1] /\ u.begin = End(B)[2] /\ u.mlineno = End(B)[1]
  BY <1>1, <1>3
<1>5. TakesOut(s, B, w, F)
  BY <1>1, TextRemoved
<1>6. u.str # NULL
  BY <1>1 DEF NULL
<1>7. UndoItem(s, u) = Goto(RemoveText(s, u.mlineno, u.begin, u.str[1]), u.lineno, u.begin)
  BY <1>1, <1>6 DEF UndoItem
<1>8. UndoItem(s, u) = Goto([s EXCEPT !.lines = t0], u.lineno, u.begin)
  BY <1>1, <1>3, <1>4, <1>5, <1>7 DEF PutsIn, TakesOut
<1>9. <<u.lineno, u.begin>> \in PositionsOf(t0)
  BY <1>1, <1>3
<1> QED BY <1>2, <1>8, <1>9, LandedIs DEF UndoneIs

LEMMA RedoAdded ==
  ASSUME NEW s \in States, NEW u \in Items, NEW t1 \in Texts, ~s.ub /\ Added(u, s.lines, t1)
  PROVE  RedoneIs(s, u, t1)
<1>1. PICK B, F \in Texts, w \in Line :
        /\ u.type = "ADD" /\ u.str = <<w>>
        /\ s.lines = B \oplus F /\ t1 = B \oplus (<<w>> \oplus F)
        /\ <<u.lineno, u.begin>> = End(B) /\ <<u.mlineno, u.mx>> = End(B \oplus <<w>>)
  BY DEF Added
<1>2. u.mx \in Int /\ u.mlineno \in Int
  BY DEF Items
<1>3. /\ End(B \oplus <<w>>) = <<End(B)[1], End(B)[2] + Len(w)>>
      /\ End(B \oplus <<w>>) \in PositionsOf(B \oplus (<<w>> \oplus F)) /\ <<w>>[1] = w
  BY WordEnd
<1>4. u.begin = End(B)[2] /\ u.mlineno = End(B)[1]
  BY <1>1, <1>3
<1>5. PutsIn(s, B, w, F)
  BY <1>1, TextInserted
<1>6. u.str # NULL
  BY <1>1 DEF NULL
<1>7. RedoItem(s, u) = Goto(InsertText(s, u.mlineno, u.begin, u.str[1]), u.mlineno, u.mx)
  BY <1>1, <1>6 DEF RedoItem
<1>8. RedoItem(s, u) = Goto([s EXCEPT !.lines = t1], u.mlineno, u.mx)
  BY <1>1, <1>3, <1>4, <1>5, <1>7 DEF PutsIn, TakesOut
<1>9. <<u.mlineno, u.mx>> \in PositionsOf(t1)
  BY <1>1, <1>3
<1> QED BY <1>2, <1>8, <1>9, LandedIs DEF RedoneIs

\* Within the word that was taken out.
LEMMA WordWithin ==
  \A B, F \in Texts : \A w \in Line : \A x \in End(B)[2]..End(B)[2] + Len(w) :
     <<End(B)[1], x>> \in PositionsOf(B \oplus (<<w>> \oplus F))
<1> TAKE B, F \in Texts
<1> TAKE w \in Line
<1> DEFINE t == B \oplus (<<w>> \oplus F)
           l == End(B)[1]
           k == End(B)[2] + Len(w)
<1>1. t \in Texts /\ End(B \oplus <<w>>) = <<l, k>> /\ End(B \oplus <<w>>) \in PositionsOf(t) /\ Len(w) \in Nat
  BY WordEnd
<1>2. l \in Nat /\ End(B)[2] \in Nat
  BY EndIn
<1> HIDE DEF t, l
<1> TAKE x \in End(B)[2]..k
<1>3. l \in 1..Len(t) /\ k \in 0..Len(t[l])
  BY <1>1, PlaceIn
<1>4. x \in 0..Len(t[l])
  <2>1. Len(t[l]) \in Nat
    BY <1>1, <1>3, TextLen, LineIn
  <2> QED BY <1>1, <1>2, <1>3, <2>1
<1>5. <<l, x>> \in PositionsOf(t)
  BY <1>1, <1>3, <1>4, Place
<1> QED BY <1>5 DEF t, l

LEMMA UndoDeleted ==
  ASSUME NEW s \in States, NEW u \in Items, NEW t0 \in Texts, ~s.ub /\ Deleted(u, t0, s.lines)
  PROVE  UndoneIs(s, u, t0)
<1>1. PICK B, F \in Texts, w \in Line :
        /\ u.type \in {"BACK", "DEL"} /\ u.str = <<w>>
        /\ t0 = B \oplus (<<w>> \oplus F) /\ s.lines = B \oplus F
        /\ <<u.mlineno, u.begin>> = End(B) /\ u.mx \in u.begin..u.begin + Len(w)
  BY DEF Deleted
<1>2. u.mx \in Int /\ u.mlineno \in Int /\ <<w>>[1] = w
  BY DEF Items
<1>3. u.begin = End(B)[2] /\ u.mlineno = End(B)[1]
  BY <1>1, EndPair
<1>4. PutsIn(s, B, w, F)
  BY <1>1, TextInserted
<1>5. UndoItem(s, u) = Goto(InsertText(s, u.mlineno, u.begin, u.str[1]), u.mlineno, u.mx)
  BY <1>1 DEF UndoItem
<1>6. UndoItem(s, u) = Goto([s EXCEPT !.lines = t0], u.mlineno, u.mx)
  BY <1>1, <1>2, <1>3, <1>4, <1>5 DEF PutsIn, TakesOut
<1>7. <<u.mlineno, u.mx>> \in PositionsOf(t0)
  BY <1>1, <1>3, WordWithin
<1> QED BY <1>2, <1>6, <1>7, LandedIs DEF UndoneIs

\* Redoing may leave the cursor behind the end of the line.
LEMMA RedoDeleted ==
  ASSUME NEW s \in States, NEW u \in Items, NEW t1 \in Texts, ~s.ub /\ Deleted(u, s.lines, t1)
  PROVE  RedoneIs(s, u, t1)
<1>1. PICK B, F \in Texts, w \in Line :
        /\ u.type \in {"BACK", "DEL"} /\ u.str = <<w>>
        /\ s.lines = B \oplus (<<w>> \oplus F) /\ t1 = B \oplus F
        /\ <<u.mlineno, u.begin>> = End(B)
  BY DEF Deleted
<1>2. u.mx \in Int /\ u.mlineno \in Int /\ <<w>>[1] = w
  BY DEF Items
<1>3. u.begin = End(B)[2] /\ u.mlineno = End(B)[1]
  BY <1>1, EndPair
<1>4. TakesOut(s, B, w, F)
  BY <1>1, TextRemoved
<1>5. RedoItem(s, u) = Goto(RemoveText(s, u.mlineno, u.begin, u.str[1]), u.mlineno, u.mx)
  BY <1>1 DEF RedoItem
<1>6. RedoItem(s, u) = Goto([s EXCEPT !.lines = t1], u.mlineno, u.mx)
  BY <1>1, <1>2, <1>3, <1>4, <1>5 DEF PutsIn, TakesOut
<1>7. Leads(s, Goto([s EXCEPT !.lines = t1], u.mlineno, u.mx), t1)
  BY <1>2, LandingThere DEF LandsIn
<1> QED BY <1>1, <1>6, <1>7 DEF RedoneIs

\* A line end is put in, or taken out.
LEMMA RestOfLine ==
  ASSUME NEW B \in Texts, NEW F \in Texts
  PROVE  Suffix((B \oplus F)[End(B)[1]], End(B)[2]) = F[1]
<1> DEFINE t == B \oplus F
           l == End(B)[1]
           x == End(B)[2]
           a == Suffix(t[l], x)
           C == SubSeq(t, l + 1, Len(t))
<1>1. t \in Texts /\ TextFrom(t, End(B)) = F /\ End(B) \in PositionsOf(t)
  BY AttachIn, Parted
<1>2. F = <<a>> \o C
  BY <1>1 DEF TextFrom
<1> HIDE DEF t
<1>3. t \in Lines /\ l \in 1..Len(t) /\ x \in 0..Len(t[l])
  BY <1>1, TextLen, PlaceIn
<1> HIDE DEF l, x
<1>4. t[l] \in Line /\ C \in Lines
  BY <1>3, LineIn, Around
<1> HIDE DEF C
<1>5. a \in Line
  BY <1>3, <1>4, Sides
<1> HIDE DEF a
<1>6. F[1] = a
  BY <1>2, <1>4, <1>5, StartIs
<1> QED BY <1>6 DEF a, t, l, x

LEMMA NewlineEnd ==
  \A B, F \in Texts :
     /\ Newline \oplus F \in Texts /\ B \oplus F \in Texts /\ B \oplus (Newline \oplus F) \in Texts
     /\ End(B \oplus Newline) = <<End(B)[1] + 1, 0>>
     /\ End(B \oplus Newline) \in PositionsOf(B \oplus (Newline \oplus F))
     /\ End(B) \in PositionsOf(B \oplus F) /\ End(B) \in PositionsOf(B \oplus (Newline \oplus F))
<1> TAKE B, F \in Texts
<1>1. Newline \in Texts /\ End(B)[1] \in Int
  BY UnitIn, EndIn
<1>2. End(B \oplus Newline) = EndOf(End(B), Newline) /\ EndOf(End(B), Newline) = <<End(B)[1] + 1, 0>>
  BY <1>1, EndPlus, EndOfNewline
<1>3. Newline \oplus F \in Texts /\ B \oplus F \in Texts /\ B \oplus (Newline \oplus F) \in Texts /\ B \oplus Newline \in Texts
  BY <1>1, AttachIn
<1>4. (B \oplus Newline) \oplus F = B \oplus (Newline \oplus F)
  BY <1>1, AttachAssoc
<1>5. End(B \oplus Newline) \in PositionsOf((B \oplus Newline) \oplus F)
  BY <1>3, EndPosition
<1>6. End(B) \in PositionsOf(B \oplus F) /\ End(B) \in PositionsOf(B \oplus (Newline \oplus F))
  BY <1>3, EndPosition
<1> QED BY <1>2, <1>3, <1>4, <1>5, <1>6

\* Where marks go.
LEMMA MarkTypes ==
  \A m \in MarkSet : \A l, x \in Int :
     /\ MarkAfterJoin(m, l, 0, FALSE) \in MarkSet
     /\ (IF m # NoMark /\ m[1] > l THEN <<m[1] + 1, m[2]>> ELSE m) \in MarkSet
     /\ (CASE m = NoMark -> NoMark
           [] m # NoMark /\ m[1] = l /\ x < m[2] -> <<m[1] + 1, m[2] - x>>
           [] m # NoMark /\ m[1] > l -> <<m[1] + 1, m[2]>>
           [] OTHER -> m) \in MarkSet
     /\ MarkAfterJoin(NoMark, l, 0, FALSE) = NoMark
BY DEF MarkSet, MarkAfterJoin

LEMMA LandedMarked ==
  \A s \in States : \A lines \in Texts : \A m \in MarkSet : \A l, x \in Int :
     ~s.ub /\ (s.mark = NoMark => m = NoMark) /\ (<<l, x>> \in PositionsOf(lines) \/ x = 0) =>
       LET t == Goto([s EXCEPT !.lines = lines, !.mark = m], l, x) IN Leads(s, t, lines) /\ CursorIn(t)
BY Landing DEF LandsIn

LEMMA UndoJoined ==
  ASSUME NoNewlines, NEW s \in States, NEW u \in Items, NEW t0 \in Texts,
         ~s.ub /\ Joined(u, t0, s.lines)
  PROVE  UndoneIs(s, u, t0)
<1>1. PICK B, F \in Texts :
        /\ u.type = "JOIN" /\ u.str = <<F[1]>>
        /\ t0 = B \oplus (Newline \oplus F) /\ s.lines = B \oplus F
        /\ <<u.mlineno, u.mx>> = End(B)
        /\ <<u.lineno, u.begin>> = End(B) \/ <<u.lineno, u.begin>> = End(B \oplus Newline)
  BY DEF Joined
<1>2. u.lineno \in Int /\ u.begin \in Int /\ u.mlineno \in Int /\ s.mark \in MarkSet
  BY DEF Items, States, MarkSet
<1>3. u.mlineno = End(B)[1] /\ u.mx = End(B)[2] /\ <<F[1]>>[1] = F[1]
  BY <1>1, EndPair
<1> DEFINE l == u.mlineno
           x == u.mx
           b == s.lines[l]
           new == ReplaceLine(s.lines, l, <<Prefix(b, x), u.str[1]>>)
           m == IF s.mark # NoMark /\ s.mark[1] > l THEN <<s.mark[1] + 1, s.mark[2]>> ELSE s.mark
           t == Goto([s EXCEPT !.lines = new, !.mark = m], u.lineno, u.begin)
<1>4. u.str[1] = Suffix(b, x)
  BY <1>1, <1>3, RestOfLine
<1>5. new = t0
  BY <1>1, <1>3, <1>4, Breaking DEF BreakIs
<1>6. m \in MarkSet /\ (s.mark = NoMark => m = NoMark)
  BY <1>2, MarkTypes
<1>7. UndoItem(s, u) = t
  <2>1. UndoItem(s, u) = UndoJoin(s, u)
    BY <1>1 DEF UndoItem
  <2> QED BY <2>1 DEF UndoJoin
<1>8. <<u.lineno, u.begin>> \in PositionsOf(t0)
  BY <1>1, NewlineEnd
<1> HIDE DEF m, new
<1>9. Leads(s, t, t0) /\ CursorIn(t)
  BY <1>2, <1>5, <1>6, <1>8, LandedMarked
<1> QED BY <1>7, <1>9 DEF UndoneIs

LEMMA RedoJoined ==
  ASSUME NEW s \in States, NEW u \in Items, NEW t1 \in Texts, ~s.ub /\ Joined(u, s.lines, t1)
  PROVE  RedoneIs(s, u, t1)
<1>1. PICK B, F \in Texts :
        /\ u.type = "JOIN" /\ u.str = <<F[1]>>
        /\ s.lines = B \oplus (Newline \oplus F) /\ t1 = B \oplus F
        /\ <<u.mlineno, u.mx>> = End(B)
        /\ <<u.lineno, u.begin>> = End(B) \/ <<u.lineno, u.begin>> = End(B \oplus Newline)
  BY DEF Joined
<1>2. u.lineno \in Int /\ u.begin \in Int /\ u.mlineno \in Int /\ s.mark \in MarkSet
  BY DEF Items, States, MarkSet
<1>3. u.mlineno = End(B)[1] /\ u.mx = End(B)[2] /\ <<F[1]>>[1] = F[1]
  BY <1>1, EndPair
<1> DEFINE l == u.mlineno
           new == JoinLines(s.lines, l, s.lines[l] \o u.str[1])
           m == MarkAfterJoin(s.mark, l, 0, FALSE)
           t == Goto([s EXCEPT !.lines = new, !.mark = m], u.lineno, u.begin)
<1>4. new = t1
  BY <1>1, <1>3, Joining DEF JoinIs
<1>5. m \in MarkSet /\ (s.mark = NoMark => m = NoMark)
  BY <1>2, MarkTypes
<1>6. RedoItem(s, u) = t
  BY <1>1 DEF RedoItem
<1>7. <<u.lineno, u.begin>> \in PositionsOf(t1) \/ u.begin = 0
  BY <1>1, <1>2, NewlineEnd, EndPair
<1> HIDE DEF m, new
<1>8. Leads(s, t, t1) /\ CursorIn(t)
  BY <1>2, <1>4, <1>5, <1>7, LandedMarked
<1> QED BY <1>6, <1>8 DEF RedoneIs

LEMMA UndoBroken ==
  ASSUME NEW s \in States, NEW u \in Items, NEW t0 \in Texts, ~s.ub /\ Broken(u, t0, s.lines)
  PROVE  UndoneIs(s, u, t0)
<1>1. PICK B, F \in Texts :
        /\ u.type = "ENTER" /\ t0 = B \oplus F /\ s.lines = B \oplus (Newline \oplus F)
        /\ <<u.lineno, u.begin>> = End(B) /\ u.mlineno = u.lineno /\ u.mx = 0
  BY DEF Broken
<1>2. u.lineno \in Int /\ u.begin \in Int /\ u.mlineno \in Int /\ s.mark \in MarkSet
  BY DEF Items, States, MarkSet
<1> DEFINE l == u.mlineno
           rest == Suffix(s.lines[l + 1], u.mx)
           new == JoinLines(s.lines, l, s.lines[l] \o rest)
           m == MarkAfterJoin(s.mark, l, 0, FALSE)
           t == Goto([s EXCEPT !.lines = new, !.mark = m], u.lineno, u.begin)
<1>3. l = End(B)[1] /\ JoinIs(B, F)
  BY <1>1, EndPair, Joining
<1>4. l < Len(s.lines) /\ s.lines[l + 1] = F[1] /\ F[1] \in Line
  BY <1>1, <1>3 DEF JoinIs
<1>5. rest = F[1] /\ Len(s.lines[l + 1]) \in Nat
  BY <1>1, <1>4, LineEnds, LenNat DEF Line
<1>6. new = t0
  BY <1>1, <1>3, <1>5 DEF JoinIs
<1>7. m \in MarkSet /\ (s.mark = NoMark => m = NoMark)
  BY <1>2, MarkTypes
<1>8. UndoItem(s, u) = t
  BY <1>1, TextLen, <1>2, <1>4, <1>5 DEF UndoItem, States, UndoEnter
<1>9. <<u.lineno, u.begin>> \in PositionsOf(t0)
  BY <1>1, NewlineEnd
<1> HIDE DEF m, new
<1>10. Leads(s, t, t0) /\ CursorIn(t)
  BY <1>2, <1>6, <1>7, <1>9, LandedMarked
<1> QED BY <1>8, <1>10 DEF UndoneIs

LEMMA RedoBroken ==
  ASSUME NEW s \in States, NEW u \in Items, NEW t1 \in Texts, ~s.ub /\ Broken(u, s.lines, t1)
  PROVE  RedoneIs(s, u, t1)
<1>1. PICK B, F \in Texts :
        /\ u.type = "ENTER" /\ s.lines = B \oplus F /\ t1 = B \oplus (Newline \oplus F)
        /\ <<u.lineno, u.begin>> = End(B)
  BY DEF Broken
<1>2. u.lineno \in Int /\ u.begin \in Int /\ s.lines \in Texts
  BY DEF Items, States
<1> DEFINE g == Goto(s, u.lineno, u.begin)
<1>3. <<u.lineno, u.begin>> \in PositionsOf(s.lines)
  BY <1>1, NewlineEnd
<1>4. LandsIn(s, g, s.lines, u.lineno, u.begin)
  <2>1. s = [s EXCEPT !.lines = s.lines]
    BY DEF States
  <2> DEFINE a == [s EXCEPT !.lines = s.lines]
  <2>2. LandsIn(s, Goto(a, u.lineno, u.begin), s.lines, u.lineno, u.begin)
    BY <1>2, LandingThere
  <2> HIDE DEF a
  <2>3. a = s
    BY <2>1 DEF a
  <2> QED BY <2>2, <2>3
<1> HIDE DEF g
<1>5. /\ g \in States /\ g.lines = s.lines /\ ~g.ub /\ g.items = s.items /\ g.cu = s.cu
      /\ s.mark = NoMark => g.mark = NoMark
      /\ g.cur = u.lineno /\ g.x = u.begin
  BY <1>3, <1>4 DEF LandsIn, Leads
<1>6. g.cur = End(B)[1] /\ g.x = End(B)[2] /\ g.cur \in Int /\ g.x \in Int
  BY <1>1, <1>2, <1>5, EndPair
<1> DEFINE new == ReplaceLine(g.lines, g.cur, <<Prefix(CurLine(g), g.x), Suffix(CurLine(g), g.x)>>)
           k == g.mark
           m == CASE k = NoMark -> NoMark
                  [] k # NoMark /\ k[1] = g.cur /\ g.x < k[2] -> <<k[1] + 1, k[2] - g.x>>
                  [] k # NoMark /\ k[1] > g.cur -> <<k[1] + 1, k[2]>>
                  [] OTHER -> k
           z == Counted(g.size + 1)
           c == g.cur + 1
           t == Edits(g, new, m, c, 0, z)
<1>7. new = t1
  BY <1>1, <1>5, <1>6, Breaking DEF BreakIs, CurLine
<1>8. m \in MarkSet /\ (k = NoMark => m = NoMark)
  <2>1. k \in MarkSet
    BY <1>5 DEF States, MarkSet
  <2> HIDE DEF k
  <2> QED BY <1>6, <2>1, MarkTypes
<1>9. z \in Int
  BY <1>5, CountedInt DEF States
<1>10. ~(g.x > Len(CurLine(g)))
  <2>1. CursorIn(g)
    BY <1>3, <1>4 DEF LandsIn
  <2> QED BY <1>5, <2>1, CursorLine
<1>11. RedoItem(s, u) = t
  <2>1. RedoItem(s, u) = Enter(g, TRUE)
    BY <1>1 DEF RedoItem, g
  <2> QED BY <1>10, <2>1 DEF Enter, Edits, new, m, z, t
<1> HIDE DEF m, new, z
<1>12. c \in Int /\ 0 \in Int
  BY <1>6
<1> HIDE DEF c
<1>13. EditedIs(g, t, t1, m, c, 0, z)
  BY <1>5, <1>7, <1>8, <1>9, <1>12, Edited DEF MarkSet
<1>14. Leads(s, t, t1)
  BY <1>5, <1>8, <1>13 DEF Leads, EditedIs, k
<1>15. <<c, 0>> \in PositionsOf(t1)
  BY <1>1, <1>6, NewlineEnd DEF c
<1>16. CursorIn(t)
  <2>1. c \in 1..Len(t1) /\ 0 \in 0..Len(t1[c])
    BY <1>15, PlaceIn
  <2> QED BY <1>13, <2>1 DEF EditedIs, CursorIn
<1> QED BY <1>11, <1>14, <1>16 DEF RedoneIs

-----------------------------------------------------------------------------
(* What was cut is copied back, and what was pasted is cut out again.      *)

LEMMA InsertedMark ==
  ASSUME NEW m \in MarkSet, NEW p \in Int \X Int, NEW piece \in Texts
  PROVE  /\ MarkAfterInsertion(m, p, piece) \in MarkSet
         /\ m = NoMark => MarkAfterInsertion(m, p, piece) = NoMark
<1> DEFINE n == Len(piece)
           x == Len(piece[n])
<1>1. n \in Nat \ {0} /\ x \in Nat
  BY EndIn
<1>2. p[1] \in Int /\ p[2] \in Int
  OBVIOUS
<1> DEFINE b == Before(m, p)
           e == m[1] = p[1]
<1>3. MarkAfterInsertion(m, p, piece) =
        CASE m = NoMark -> NoMark
          [] m # NoMark /\ n = 1 -> <<p[1], IF b THEN m[2] ELSE m[2] + x>>
          [] m # NoMark /\ n > 1 /\ b -> m
          [] m # NoMark /\ n > 1 /\ ~b /\ e -> <<p[1] + n - 1, m[2] - p[2]>>
          [] OTHER -> <<m[1] + n - 1, m[2] - x>>
  BY DEF MarkAfterInsertion
<1> HIDE DEF n, x, b, e
<1>4. CASE m = NoMark
  BY <1>3, <1>4 DEF MarkSet
<1>5. CASE m # NoMark
  <2>1. m[1] \in Int /\ m[2] \in Int
    BY <1>5 DEF MarkSet
  <2>2. CASE n = 1
    BY <1>3, <1>5, <2>2, <1>1, <1>2, <2>1 DEF MarkSet
  <2>3. CASE n > 1 /\ b
    BY <1>1, <1>3, <1>5, <2>3
  <2>4. CASE n > 1 /\ ~b /\ e
    BY <1>1, <1>3, <1>5, <2>4, <1>2, <2>1 DEF MarkSet
  <2>5. CASE n > 1 /\ ~b /\ ~e
    BY <1>1, <1>3, <1>5, <2>5, <1>2, <2>1 DEF MarkSet
  <2> QED BY <1>1, <2>2, <2>3, <2>4, <2>5
<1> QED BY <1>4, <1>5

\* copy_from_filestruct, exactly.
CopiesIn(s, t, B, R, F) ==
    /\ Leads(s, t, B \oplus (R \oplus F)) /\ <<t.cur, t.x>> = End(B \oplus R) /\ CursorIn(t)
    /\ t.last = s.last /\ t.keep = s.keep /\ t.cutbuf = s.cutbuf /\ t.session = s.session

LEMMA CopyingIn ==
  ASSUME NEW s \in States, NEW B \in Texts, NEW R \in Texts, NEW F \in Texts,
         ~s.ub /\ s.lines = B \oplus F /\ <<s.cur, s.x>> = End(B)
  PROVE  CopiesIn(s, CopyFrom(s, R, TRUE), B, R, F)
<1> DEFINE p == Cursor(s)
           new == With(s.lines, p, R)
           text == B \oplus (R \oplus F)
           z == Counted(s.size + TotSize(R))
           end == EndOf(p, R)
           c == end[1]
           x == end[2]
           m == MarkAfterInsertion(s.mark, p, R)
           a == [s EXCEPT !.lines = new, !.size = z, !.mark = m]
           t == [a EXCEPT !.cur = c, !.x = x]
<1>1. p = End(B) /\ p \in Int \X Int
  BY EndInts DEF Cursor
<1>2. new = text /\ text \in Texts /\ B \oplus R \in Texts
  <2>1. With(B \oplus F, End(B), R) = (B \oplus R) \oplus F
    BY Pasting
  <2>2. (B \oplus R) \oplus F = text
    BY AttachAssoc
  <2>3. R \oplus F \in Texts /\ B \oplus R \in Texts
    BY AttachIn
  <2>4. text \in Texts
    BY <2>3, AttachIn
  <2> QED BY <1>1, <2>1, <2>2, <2>3, <2>4
<1>3. InText(s, p)
  BY <1>1, EndPosition DEF InText
<1>4. CopyFrom(s, R, TRUE) = t
  <2> DEFINE v == [s EXCEPT !.lines = new, !.size = z, !.cur = c, !.x = x, !.mark = m]
  <2>1. CopyFrom(s, R, TRUE) = v
    BY <1>3 DEF CopyFrom, Magicline
  <2>2. v = t
    BY DEF States
  <2> QED BY <2>1, <2>2
<1>5. end = End(B \oplus R)
  BY <1>1, EndPlus
<1>6. c \in Int /\ x \in Int /\ <<c, x>> = End(B \oplus R)
  BY <1>2, <1>5, EndIn
<1>7. m \in MarkSet /\ (s.mark = NoMark => m = NoMark)
  <2>1. s.mark \in MarkSet
    BY DEF States, MarkSet
  <2> QED BY <1>1, <2>1, InsertedMark
<1>8. z \in Int
  BY SizeNat, CountedInt DEF States
<1> HIDE DEF new, text, z, c, x, m
<1>9. /\ a \in States /\ a.lines = text /\ a.ub = s.ub /\ a.items = s.items /\ a.cu = s.cu /\ a.mark = m
      /\ a.last = s.last /\ a.keep = s.keep /\ a.cutbuf = s.cutbuf /\ a.session = s.session
  BY <1>2, <1>7, <1>8 DEF States, MarkSet
<1> HIDE DEF a
<1>10. /\ t \in States /\ t.lines = text /\ t.ub = s.ub /\ t.items = s.items /\ t.cu = s.cu /\ t.mark = m
       /\ t.cur = c /\ t.x = x
       /\ t.last = s.last /\ t.keep = s.keep /\ t.cutbuf = s.cutbuf /\ t.session = s.session
  BY <1>6, <1>9 DEF States
<1> HIDE DEF t
<1>11. CursorIn(t)
  <2>1. (B \oplus R) \oplus F = text
    BY AttachAssoc DEF text
  <2> QED BY <1>2, <1>6, <1>10, <2>1, CursorAtEnd
<1>12. Leads(s, t, text)
  BY <1>7, <1>10 DEF Leads
<1> QED BY <1>4, <1>6, <1>10, <1>11, <1>12 DEF CopiesIn, text

LEMMA LeadsOn ==
  \A s, a, t, k, lines : Leads(s, a, k) /\ Leads(a, t, lines) => Leads(s, t, lines)
BY DEF Leads

\* redo_paste.
LEMMA PastedAgain ==
  ASSUME NoNewlines, NEW s \in States, NEW u \in Items, NEW B \in Texts, NEW R \in Texts,
         NEW F \in Texts,
         /\ ~s.ub /\ s.lines = B \oplus F /\ u.buf = R /\ u.xflags # "WAS_WHOLE_LINE"
         /\ <<u.mlineno, u.mx>> = End(B)
  PROVE  Leads(s, RedoPaste(s, u), B \oplus (R \oplus F)) /\ CursorIn(RedoPaste(s, u))
<1> DEFINE text == B \oplus (R \oplus F)
           l == u.mlineno
           x == u.mx
           g == Goto(s, l, x)
           t == CopyFrom(g, u.buf, NoNewlines)
           v == Goto(t, l, x)
<1>1. l \in Int /\ x \in Int /\ s.lines \in Texts
  BY DEF Items, States
<1>2. text \in Texts /\ R \oplus F \in Texts
  BY AttachIn
<1>3. <<l, x>> \in PositionsOf(s.lines) /\ <<l, x>> \in PositionsOf(text)
  BY <1>2, EndPosition
<1> HIDE DEF text, l, x
<1>4. LandsIn(s, g, s.lines, l, x)
  <2> DEFINE a == [s EXCEPT !.lines = s.lines]
  <2>1. a = s
    BY DEF States
  <2>2. LandsIn(s, Goto(a, l, x), s.lines, l, x)
    BY <1>1, LandingThere
  <2> HIDE DEF a
  <2> QED BY <2>1, <2>2
<1> HIDE DEF g
<1>5. g \in States /\ ~g.ub /\ g.lines = s.lines /\ g.cur = l /\ g.x = x /\ Leads(s, g, s.lines)
  BY <1>3, <1>4 DEF LandsIn, Leads
<1>6. CopiesIn(g, t, B, R, F)
  BY <1>5, CopyingIn DEF l, x
<1> HIDE DEF t
<1>7. Leads(g, t, text) /\ CursorIn(t)
  BY <1>6 DEF CopiesIn, text
<1>8. t \in States /\ ~t.ub /\ t.lines = text
  BY <1>7 DEF Leads
<1>9. LandsIn(t, v, t.lines, l, x)
  <2> DEFINE a == [t EXCEPT !.lines = t.lines]
  <2>1. a = t
    BY <1>8 DEF States
  <2>2. LandsIn(t, Goto(a, l, x), t.lines, l, x)
    BY <1>1, <1>2, <1>8, LandingThere
  <2> HIDE DEF a
  <2> QED BY <2>1, <2>2
<1> HIDE DEF v
<1>10. Leads(t, v, text) /\ CursorIn(v)
  BY <1>3, <1>8, <1>9 DEF LandsIn
<1>11. Leads(s, t, text) /\ Leads(s, v, text)
  BY <1>5, <1>7, <1>10, LeadsOn
<1>12. RedoPaste(s, u) = t \/ RedoPaste(s, u) = v
  <2>1. u.buf # NULL
    BY DEF Texts, NULL
  <2> QED BY <1>8, <2>1 DEF RedoPaste, t, v, g, l, x
<1> QED BY <1>7, <1>10, <1>11, <1>12 DEF text

\* undo_paste.
LEMMA CutAgain ==
  ASSUME NoNewlines, ~CountSize, NEW s \in States, NEW u \in Items, NEW B \in Texts,
         NEW R \in Texts, NEW F \in Texts,
         /\ ~s.ub /\ s.lines = B \oplus (R \oplus F) /\ u.buf = R /\ u.xflags # "WAS_WHOLE_LINE"
         /\ <<u.mlineno, u.mx>> = End(B) /\ <<u.lineno, u.begin>> = End(B \oplus R)
  PROVE  Leads(s, UndoPaste(s, u), B \oplus F) /\ CursorIn(UndoPaste(s, u))
<1> DEFINE text == B \oplus (R \oplus F)
           l == u.lineno
           x == u.begin
           m == <<u.mlineno, u.mx>>
           q == <<l, x>>
           g == Goto(s, l, x)
           h == [g EXCEPT !.mark = m, !.cutbuf = NULL]
           t == CutOut(h, FALSE, NoNewlines)
           v == [t EXCEPT !.cutbuf = s.cutbuf]
<1>1. l \in Int /\ x \in Int /\ s.lines \in Texts /\ s.cutbuf \in Seq(Line)
  BY DEF Items, States
<1>2. m \in Int \X Int /\ q \in Int \X Int /\ m \in MarkSet /\ m # NoMark
  BY DEF Items, MarkSet, NoMark
<1>3. text \in Texts /\ R \oplus F \in Texts /\ B \oplus R \in Texts /\ text = (B \oplus R) \oplus F
  BY AttachIn, AttachAssoc
<1>4. q \in PositionsOf(text) /\ m \in PositionsOf(text)
  BY <1>3, EndPosition
<1>5. m = End(B) /\ q = End(B \oplus R) /\ s.lines = text
  OBVIOUS
<1> HIDE DEF text, m, q
<1>6. LandsIn(s, g, text, l, x)
  <2> DEFINE a == [s EXCEPT !.lines = text]
  <2>1. a = s
    BY <1>5 DEF States
  <2> HIDE DEF l, x
  <2>2. LandsIn(s, Goto(a, l, x), text, l, x)
    BY <1>1, <1>3, LandingThere
  <2> HIDE DEF a
  <2> QED BY <2>1, <2>2
<1> HIDE DEF g, l, x
<1>7. g \in States /\ ~g.ub /\ g.lines = text /\ g.cur = l /\ g.x = x /\ g.items = s.items /\ g.cu = s.cu /\ CursorIn(g)
  BY <1>4, <1>6 DEF LandsIn, Leads, q
<1>8. /\ h \in States /\ ~h.ub /\ h.lines = text /\ h.cur = l /\ h.x = x /\ h.items = s.items /\ h.cu = s.cu /\ h.mark = m
  <2>1. NULL \in Seq(Line)
    BY UnitIn DEF NULL, Lines
  <2> HIDE DEF m
  <2> QED BY <1>2, <1>7, <2>1 DEF States, MarkSet
<1> HIDE DEF h
<1>9. Sound(h) /\ CursorIn(h) /\ Marks(h)
  BY <1>4, <1>7, <1>8 DEF Sound, CursorIn, Marks, Sizes
<1>10. Cursor(h) = q
  BY <1>8 DEF Cursor, q
<1> DEFINE r == CutRegion(h, FALSE)
<1>11. CutOutIs(h, FALSE, NoNewlines) /\ RegionIs(h, FALSE)
  BY <1>8, <1>9, CutOutDone, RegionOrder
<1>12. r = IF Before(m, q) THEN <<m, q>> ELSE <<q, m>>
  BY <1>2, <1>8, <1>10, <1>11 DEF RegionIs
<1>13. t \in States /\ Sound(t) /\ t.items = s.items /\ t.cu = s.cu /\ t.mark = NoMark
  BY <1>8, <1>11 DEF CutOutIs
<1>14. t.lines = B \oplus F
  <2>1. CASE Before(m, q)
    <3>1. r = <<m, q>>
      BY <1>12, <2>1
    <3>2. m # q
      BY <1>2, <2>1, BeforeOrder
    <3> HIDE DEF r
    <3>3. r[1] = m /\ r[2] = q
      BY <3>1
    <3>4. t.lines = Without(h.lines, m, q)
      BY <1>11, <3>2, <3>3 DEF CutOutIs, r
    <3>5. Without(text, m, q) = B \oplus F
      BY <1>5, Cutting DEF CutIs, text
    <3> QED BY <1>8, <3>4, <3>5
  <2>2. CASE ~Before(m, q)
    <3>1. ~Before(q, m)
      BY <1>5, NotBefore
    <3>2. m = q
      BY <1>2, <2>2, <3>1, BeforeOrder
    <3>3. R = Unit
      BY <1>5, <3>2, NotBefore
    <3>4. text = B \oplus F
      BY <3>3, UnitLeft DEF text
    <3>5. r = <<q, m>>
      BY <1>12, <2>2
    <3> HIDE DEF r
    <3>6. r[1] = r[2]
      BY <3>2, <3>5
    <3> QED BY <1>8, <1>11, <3>4, <3>6 DEF CutOutIs, r
  <2> QED BY <2>1, <2>2
<1>15. ~t.ub /\ CursorIn(t)
  BY <1>13 DEF Sound
<1> HIDE DEF t
<1>16. /\ v \in States /\ v.lines = t.lines /\ v.ub = t.ub /\ v.items = t.items /\ v.cu = t.cu
       /\ v.mark = t.mark /\ v.cur = t.cur /\ v.x = t.x
  BY <1>1, <1>13 DEF States
<1>17. UndoPaste(s, u) = v
  <2> DEFINE k == IF NoNewlines /\ g.cur # u.lineno THEN [g EXCEPT !.x = Len(CurLine(g))] ELSE g
  <2>1. u.buf # NULL
    BY DEF Texts, NULL
  <2>2. k = g
    BY <1>7 DEF l
  <2>3. UndoPaste(s, u) =
          [CutOut([k EXCEPT !.mark = <<u.mlineno, u.mx>>, !.cutbuf = NULL], FALSE, NoNewlines) EXCEPT !.cutbuf = s.cutbuf]
    BY <2>1 DEF UndoPaste, g, l, x
  <2> HIDE DEF k
  <2> QED BY <2>2, <2>3 DEF v, t, h, m
<1> HIDE DEF v
<1>18. Leads(s, v, B \oplus F)
  BY <1>13, <1>14, <1>15, <1>16 DEF Leads
<1>19. CursorIn(v)
  BY <1>15, <1>16 DEF CursorIn
<1> QED BY <1>17, <1>18, <1>19

LEMMA UndoCutAway ==
  ASSUME NoNewlines, NEW s \in States, NEW u \in Items, NEW t0 \in Texts,
         ~s.ub /\ CutAway(u, t0, s.lines)
  PROVE  UndoneIs(s, u, t0)
<1>1. PICK B, R, F \in Texts :
        /\ u.type \in {"CUT", "CUT_EOF"} /\ u.buf = R /\ u.xflags # "WAS_WHOLE_LINE"
        /\ t0 = B \oplus (R \oplus F) /\ s.lines = B \oplus F
        /\ <<u.mlineno, u.mx>> = End(B)
  BY DEF CutAway
<1> DEFINE a == [s EXCEPT !.x = u.begin]
<1>2. a \in States /\ a.lines = s.lines /\ a.ub = s.ub /\ a.items = s.items /\ a.cu = s.cu /\ a.mark = s.mark
  <2>1. u.begin \in Int
    BY DEF Items
  <2> QED BY <2>1 DEF States
<1>3. UndoItem(s, u) = RedoPaste(a, u)
  BY <1>1 DEF UndoItem
<1> HIDE DEF a
<1>4. Leads(a, RedoPaste(a, u), t0) /\ CursorIn(RedoPaste(a, u))
  BY <1>1, <1>2, PastedAgain
<1>5. Leads(s, RedoPaste(a, u), t0)
  BY <1>2, <1>4 DEF Leads
<1> QED BY <1>3, <1>4, <1>5 DEF UndoneIs

LEMMA RedoCutAway ==
  ASSUME NoNewlines, ~CountSize, NEW s \in States, NEW u \in Items, NEW t1 \in Texts,
         ~s.ub /\ CutAway(u, s.lines, t1)
  PROVE  RedoneIs(s, u, t1)
<1>1. PICK B, R, F \in Texts :
        /\ u.type \in {"CUT", "CUT_EOF"} /\ u.buf = R /\ u.xflags # "WAS_WHOLE_LINE"
        /\ s.lines = B \oplus (R \oplus F) /\ t1 = B \oplus F
        /\ <<u.mlineno, u.mx>> = End(B) /\ <<u.lineno, u.begin>> = End(B \oplus R)
  BY DEF CutAway
<1>2. RedoItem(s, u) = UndoPaste(s, u)
  BY <1>1 DEF RedoItem
<1>3. Leads(s, UndoPaste(s, u), t1) /\ CursorIn(UndoPaste(s, u))
  BY <1>1, CutAgain
<1> QED BY <1>2, <1>3 DEF RedoneIs

LEMMA UndoPasted ==
  ASSUME NoNewlines, ~CountSize, NEW s \in States, NEW u \in Items, NEW t0 \in Texts,
         ~s.ub /\ Pasted(u, t0, s.lines)
  PROVE  UndoneIs(s, u, t0)
<1>1. PICK B, R, F \in Texts :
        /\ u.type = "PASTE" /\ u.buf = R /\ u.xflags # "WAS_WHOLE_LINE"
        /\ t0 = B \oplus F /\ s.lines = B \oplus (R \oplus F)
        /\ <<u.mlineno, u.mx>> = End(B) /\ <<u.lineno, u.begin>> = End(B \oplus R)
  BY DEF Pasted
<1> DEFINE a == [s EXCEPT !.x = u.begin]
<1>2. a \in States /\ a.lines = s.lines /\ a.ub = s.ub /\ a.items = s.items /\ a.cu = s.cu /\ a.mark = s.mark
  <2>1. u.begin \in Int
    BY DEF Items
  <2> QED BY <2>1 DEF States
<1>3. UndoItem(s, u) = UndoPaste(a, u)
  BY <1>1 DEF UndoItem
<1> HIDE DEF a
<1>4. Leads(a, UndoPaste(a, u), t0) /\ CursorIn(UndoPaste(a, u))
  BY <1>1, <1>2, CutAgain
<1>5. Leads(s, UndoPaste(a, u), t0)
  BY <1>2, <1>4 DEF Leads
<1> QED BY <1>3, <1>4, <1>5 DEF UndoneIs

LEMMA RedoPasted ==
  ASSUME NoNewlines, NEW s \in States, NEW u \in Items, NEW t1 \in Texts,
         ~s.ub /\ Pasted(u, s.lines, t1)
  PROVE  RedoneIs(s, u, t1)
<1>1. PICK B, R, F \in Texts :
        /\ u.type = "PASTE" /\ u.buf = R /\ u.xflags # "WAS_WHOLE_LINE"
        /\ s.lines = B \oplus F /\ t1 = B \oplus (R \oplus F)
        /\ <<u.mlineno, u.mx>> = End(B)
  BY DEF Pasted
<1>2. RedoItem(s, u) = RedoPaste(s, u)
  BY <1>1 DEF RedoItem
<1>3. Leads(s, RedoPaste(s, u), t1) /\ CursorIn(RedoPaste(s, u))
  BY <1>1, PastedAgain
<1> QED BY <1>2, <1>3 DEF RedoneIs

LEMMA UndoneItem ==
  ASSUME NoNewlines, ~CountSize
  PROVE  \A s \in States : \A u \in Items : \A t0 \in Texts :
           ~s.ub /\ Records(u, t0, s.lines) => UndoneIs(s, u, t0)
BY UndoAdded, UndoDeleted, UndoJoined, UndoBroken, UndoCutAway, UndoPasted DEF Records

LEMMA RedoneItem ==
  ASSUME NoNewlines, ~CountSize
  PROVE  \A s \in States : \A u \in Items : \A t1 \in Texts :
           ~s.ub /\ Records(u, s.lines, t1) => RedoneIs(s, u, t1)
BY RedoAdded, RedoDeleted, RedoJoined, RedoBroken, RedoCutAway, RedoPasted DEF Records

-----------------------------------------------------------------------------
(* do_undo and do_redo.                                                    *)

\* The line that an item is about is in the text before and after.
RecordsAt(u, t0, t1) ==
    /\ u.mlineno \in 1..Len(t0) /\ u.mlineno \in 1..Len(t1)
    /\ u.type \in {"ADD", "BACK", "DEL", "JOIN", "ENTER", "CUT", "CUT_EOF", "PASTE"}

LEMMA StartsAt ==
  \A B, X, Y \in Texts : \A l : l = End(B)[1] =>
     l \in 1..Len(B \oplus X) /\ l \in 1..Len(B \oplus Y)
<1> TAKE B, X, Y \in Texts
<1>1. End(B) \in PositionsOf(B \oplus X) /\ End(B) \in PositionsOf(B \oplus Y)
  BY EndPosition
<1>2. B \oplus X \in Texts /\ B \oplus Y \in Texts
  BY AttachIn
<1> QED BY <1>1, <1>2, PlaceIn

LEMMA RecordsPlace ==
  ASSUME NEW u \in Items, NEW t0 \in Texts, NEW t1 \in Texts, Records(u, t0, t1)
  PROVE  RecordsAt(u, t0, t1)
<1>1. CASE Added(u, t0, t1)
  <2>1. PICK B, F \in Texts, w \in Line :
          /\ u.type = "ADD" /\ t0 = B \oplus F /\ t1 = B \oplus (<<w>> \oplus F)
          /\ <<u.mlineno, u.mx>> = End(B \oplus <<w>>)
    BY <1>1 DEF Added
  <2>2. <<w>> \oplus F \in Texts /\ End(B \oplus <<w>>) = <<End(B)[1], End(B)[2] + Len(w)>>
    BY WordEnd
  <2>3. u.mlineno = End(B)[1]
    BY <2>1, <2>2
  <2> QED BY <2>1, <2>2, <2>3, StartsAt DEF RecordsAt
<1>2. CASE Deleted(u, t0, t1)
  <2>1. PICK B, F \in Texts, w \in Line :
          /\ u.type \in {"BACK", "DEL"} /\ t0 = B \oplus (<<w>> \oplus F) /\ t1 = B \oplus F
          /\ <<u.mlineno, u.begin>> = End(B)
    BY <1>2 DEF Deleted
  <2>2. <<w>> \oplus F \in Texts
    BY WordEnd
  <2>3. u.mlineno = End(B)[1]
    BY <2>1, EndPair
  <2> QED BY <2>1, <2>2, <2>3, StartsAt DEF RecordsAt
<1>3. CASE Joined(u, t0, t1)
  <2>1. PICK B, F \in Texts :
          /\ u.type = "JOIN" /\ t0 = B \oplus (Newline \oplus F) /\ t1 = B \oplus F
          /\ <<u.mlineno, u.mx>> = End(B)
    BY <1>3 DEF Joined
  <2>2. Newline \oplus F \in Texts
    BY NewlineEnd
  <2>3. u.mlineno = End(B)[1]
    BY <2>1, EndPair
  <2> QED BY <2>1, <2>2, <2>3, StartsAt DEF RecordsAt
<1>4. CASE Broken(u, t0, t1)
  <2>1. PICK B, F \in Texts :
          /\ u.type = "ENTER" /\ t0 = B \oplus F /\ t1 = B \oplus (Newline \oplus F)
          /\ <<u.lineno, u.begin>> = End(B) /\ u.mlineno = u.lineno
    BY <1>4 DEF Broken
  <2>2. Newline \oplus F \in Texts
    BY NewlineEnd
  <2>3. u.mlineno = End(B)[1]
    BY <2>1, EndPair
  <2> QED BY <2>1, <2>2, <2>3, StartsAt DEF RecordsAt
<1>5. CASE CutAway(u, t0, t1)
  <2>1. PICK B, R, F \in Texts :
          /\ u.type \in {"CUT", "CUT_EOF"} /\ t0 = B \oplus (R \oplus F) /\ t1 = B \oplus F
          /\ <<u.mlineno, u.mx>> = End(B)
    BY <1>5 DEF CutAway
  <2>2. R \oplus F \in Texts
    BY AttachIn
  <2>3. u.mlineno = End(B)[1]
    BY <2>1, EndPair
  <2> QED BY <2>1, <2>2, <2>3, StartsAt DEF RecordsAt
<1>6. CASE Pasted(u, t0, t1)
  <2>1. PICK B, R, F \in Texts :
          /\ u.type = "PASTE" /\ t0 = B \oplus F /\ t1 = B \oplus (R \oplus F)
          /\ <<u.mlineno, u.mx>> = End(B)
    BY <1>6 DEF Pasted
  <2>2. R \oplus F \in Texts
    BY AttachIn
  <2>3. u.mlineno = End(B)[1]
    BY <2>1, EndPair
  <2> QED BY <2>1, <2>2, <2>3, StartsAt DEF RecordsAt
<1> QED BY <1>1, <1>2, <1>3, <1>4, <1>5, <1>6 DEF Records

UndoIs(s, t, t0) ==
    /\ t \in States /\ t.lines = t0 /\ ~t.ub /\ t.items = s.items /\ t.cu = s.cu + 1 /\ t.last = "OTHER"
    /\ CursorIn(t) /\ (s.mark = NoMark => t.mark = NoMark)
RedoIs(s, t, t1) ==
    /\ t \in States /\ t.lines = t1 /\ ~t.ub /\ t.items = s.items /\ t.cu = s.cu - 1 /\ t.last = "OTHER"
    /\ s.items[s.cu - 1].type \notin {"BACK", "DEL"} => CursorIn(t)
    /\ s.mark = NoMark => t.mark = NoMark

LEMMA ItemIn ==
  ASSUME NEW s \in States, NEW k \in 1..Len(s.items)
  PROVE  s.items[k] \in Items /\ k \in Nat
<1>1. s.items \in Seq(Items)
  BY DEF States
<1> QED BY <1>1

\* What do_undo and do_redo do to the stack.
LEMMA Stepped ==
  ASSUME NEW s \in States, NEW a \in States, NEW k \in Nat, NEW lines, Leads(s, a, lines)
  PROVE  LET t == [a EXCEPT !.cu = k, !.last = "OTHER", !.mod = TRUE] IN
         /\ t \in States /\ t.lines = lines /\ ~t.ub /\ t.items = s.items /\ t.cu = k /\ t.last = "OTHER"
         /\ s.mark = NoMark => t.mark = NoMark
         /\ CursorIn(a) => CursorIn(t)
<1> DEFINE t == [a EXCEPT !.cu = k, !.last = "OTHER", !.mod = TRUE]
<1>1. /\ t \in States /\ t.lines = a.lines /\ t.ub = a.ub /\ t.items = a.items /\ t.cu = k /\ t.last = "OTHER"
      /\ t.mark = a.mark /\ t.cur = a.cur /\ t.x = a.x
  BY DEF States
<1> HIDE DEF t
<1>2. CursorIn(a) => CursorIn(t)
  BY <1>1 DEF CursorIn
<1>3. /\ t \in States /\ t.lines = lines /\ ~t.ub /\ t.items = s.items /\ t.cu = k /\ t.last = "OTHER"
      /\ s.mark = NoMark => t.mark = NoMark
  BY <1>1 DEF Leads
<1> QED BY <1>2, <1>3 DEF t

LEMMA UndoLeads ==
  ASSUME NoNewlines, ~CountSize, NEW s \in States, NEW t0 \in Texts,
         ~s.ub /\ s.cu \in 1..Len(s.items) /\ Records(s.items[s.cu], t0, s.lines)
  PROVE  UndoIs(s, Undo(s), t0)
<1> DEFINE u == s.items[s.cu]
           a == UndoItem(s, u)
           k == s.cu + 1
           t == [a EXCEPT !.cu = k, !.last = "OTHER", !.mod = TRUE]
<1>1. u \in Items /\ s.lines \in Texts /\ s.cu \in Nat
  BY ItemIn DEF States
<1>2. RecordsAt(u, t0, s.lines) /\ UndoneIs(s, u, t0)
  BY <1>1, RecordsPlace, UndoneItem
<1>3. CurUndo(s) = u /\ HasUndo(s)
  <2>1. Len(s.items) \in Nat
    BY LenNat DEF States
  <2> QED BY <2>1 DEF CurUndo, HasUndo
<1> HIDE DEF u
<1>4. Leads(s, a, t0) /\ CursorIn(a)
  BY <1>2 DEF UndoneIs
<1>5. a \in States /\ a.cu = s.cu /\ k \in Nat
  BY <1>1, <1>4 DEF Leads
<1>6. Undo(s) = t
  <2>1. u.type # "SPLIT_END"
    BY <1>2 DEF RecordsAt
  <2>2. Undo(s) = UndoOne(s)
    BY <1>3, <2>1 DEF Undo
  <2>3. u.mlineno \in 1..Len(s.lines)
    BY <1>2 DEF RecordsAt
  <2>4. UndoOne(s) = [a EXCEPT !.cu = @ + 1, !.last = "OTHER", !.mod = TRUE]
    BY <1>3, <2>3 DEF UndoOne
  <2> HIDE DEF a
  <2>5. [a EXCEPT !.cu = @ + 1, !.last = "OTHER", !.mod = TRUE] = t
    BY <1>5 DEF States
  <2> QED BY <2>2, <2>4, <2>5
<1> HIDE DEF a, k
<1>7. /\ t \in States /\ t.lines = t0 /\ ~t.ub /\ t.items = s.items /\ t.cu = k /\ t.last = "OTHER"
      /\ s.mark = NoMark => t.mark = NoMark
      /\ CursorIn(a) => CursorIn(t)
  BY <1>4, <1>5, Stepped
<1> HIDE DEF t
<1> QED BY <1>4, <1>6, <1>7 DEF UndoIs, k

LEMMA RedoLeads ==
  ASSUME NoNewlines, ~CountSize
  PROVE  \A s \in States : \A t1 \in Texts :
           /\ ~s.ub /\ s.cu \in 2..Len(s.items) + 1 /\ Records(s.items[s.cu - 1], s.lines, t1)
           => RedoIs(s, Redo(s), t1)
<1> TAKE s \in States
<1> TAKE t1 \in Texts
<1> HAVE ~s.ub /\ s.cu \in 2..Len(s.items) + 1 /\ Records(s.items[s.cu - 1], s.lines, t1)
<1> DEFINE k == s.cu - 1
           u == s.items[k]
           a == RedoItem(s, u)
           t == [a EXCEPT !.cu = k, !.last = "OTHER", !.mod = TRUE]
<1>1. k \in 1..Len(s.items) /\ k \in Nat /\ s.lines \in Texts /\ s.cu \in Nat
  BY LenNat DEF States
<1>2. u \in Items
  BY <1>1, ItemIn
<1>3. RecordsAt(u, s.lines, t1) /\ RedoneIs(s, u, t1)
  BY <1>1, <1>2, RecordsPlace, RedoneItem
<1>4. HasRedo(s)
  BY <1>1 DEF HasRedo
<1> HIDE DEF u
<1>5. Leads(s, a, t1) /\ (u.type \notin {"BACK", "DEL"} => CursorIn(a))
  BY <1>3 DEF RedoneIs
<1>6. a \in States /\ a.cu = s.cu
  BY <1>5 DEF Leads
<1>7. Redo(s) = t
  <2>1. u.type # "SPLIT_BEGIN" /\ u = s.items[s.cu - 1]
    BY <1>3 DEF RecordsAt, u
  <2>2. Redo(s) = RedoOne(s)
    BY <2>1 DEF Redo
  <2>3. u.mlineno \in 1..Len(s.lines)
    BY <1>3 DEF RecordsAt
  <2>4. RedoOne(s) = [a EXCEPT !.cu = @ - 1, !.last = "OTHER", !.mod = TRUE]
    BY <1>4, <2>1, <2>3 DEF RedoOne
  <2> HIDE DEF a
  <2>5. [a EXCEPT !.cu = @ - 1, !.last = "OTHER", !.mod = TRUE] = t
    BY <1>6 DEF States
  <2> QED BY <2>2, <2>4, <2>5
<1> HIDE DEF a, k
<1>8. /\ t \in States /\ t.lines = t1 /\ ~t.ub /\ t.items = s.items /\ t.cu = k /\ t.last = "OTHER"
      /\ s.mark = NoMark => t.mark = NoMark
      /\ CursorIn(a) => CursorIn(t)
  BY <1>1, <1>5, <1>6, Stepped
<1> HIDE DEF t
<1>9. u = s.items[s.cu - 1]
  BY DEF u, k
<1> QED BY <1>5, <1>7, <1>8, <1>9 DEF RedoIs, k

-----------------------------------------------------------------------------
(* Recording, with items that were undone on the stack.                    *)

StackOK(s) ==
    /\ s.cu \in 1..Len(s.items) + 1
    /\ s.last # "OTHER" => s.cu = 1 /\ s.items # <<>> /\ s.last = s.items[1].type
Fine(s) == s \in States /\ CursorIn(s) /\ Marks(s) /\ ~s.ub /\ StackOK(s)

\* What is left of the stack under an item of its own, and under the item on top.
Below(s) == SubSeq(s.items, s.cu, Len(s.items))
Rest(s)  == SubSeq(s.items, 2, Len(s.items))

LEMMA BelowIn ==
  ASSUME NEW s \in States, s.cu \in 1..Len(s.items) + 1
  PROVE  Below(s) \in Seq(Items) /\ Len(Below(s)) = Len(s.items) - s.cu + 1 /\ Len(s.items) \in Nat
         /\ \A i \in 1..Len(s.items) - s.cu + 1 : Below(s)[i] = s.items[s.cu + i - 1]
<1>1. s.items \in Seq(Items) /\ Len(s.items) \in Nat
  BY LenNat DEF States
<1> DEFINE n == Len(s.items)
           k == s.cu
<1>2. \A i \in k..n : s.items[i] \in Items
  BY <1>1, ElementOfSeq
<1> HIDE DEF k
<1>3. k \in Nat /\ k >= 1 /\ k <= n + 1
  BY <1>1 DEF k
<1>5. /\ SubSeq(s.items, k, n) \in Seq(Items)
      /\ Len(SubSeq(s.items, k, n)) = IF k <= n THEN n - k + 1 ELSE 0
      /\ \A i \in 1..n - k + 1 : SubSeq(s.items, k, n)[i] = s.items[k + i - 1]
  BY <1>1, <1>2, <1>3, SubSeqProperties
<1>6. (IF k <= n THEN n - k + 1 ELSE 0) = n - k + 1
  <2> HIDE DEF n
  <2> QED BY <1>1, <1>3 DEF n
<1> QED BY <1>1, <1>5, <1>6 DEF Below, k

LEMMA RestIn ==
  ASSUME NEW s \in States, s.items # <<>>
  PROVE  /\ Rest(s) \in Seq(Items) /\ s.items[1] \in Items /\ Len(s.items) \in Nat \ {0}
         /\ Len(Rest(s)) = Len(s.items) - 1 /\ s.items = <<s.items[1]>> \o Rest(s)
         /\ \A i \in 1..Len(s.items) - 1 : Rest(s)[i] = s.items[1 + i]
<1> DEFINE its == s.items
           n == Len(its)
           r == Rest(s)
<1>1. its \in Seq(Items) /\ n \in Nat \ {0}
  BY LenNat DEF States
<1>2. \A i \in 1..n : its[i] \in Items
  BY <1>1, ElementOfSeq
<1> HIDE DEF its
<1>3. n >= 1 /\ n \in Nat
  BY <1>1
<1>4. r \in Seq(Items) /\ Len(r) = (IF 2 <= n THEN n - 2 + 1 ELSE 0) /\ \A i \in 1..n - 2 + 1 : r[i] = its[2 + i - 1]
  BY <1>1, <1>2, <1>3, SubSeqProperties DEF Rest, its
<1>5. Len(r) = n - 1 /\ \A i \in 1..n - 1 : r[i] = its[1 + i]
  <2>1. Len(r) = n - 1
    <3>1. Len(r) = IF 2 <= n THEN n - 2 + 1 ELSE 0
      BY <1>4
    <3> HIDE DEF n, r
    <3> QED BY <1>3, <3>1
  <2>2. ASSUME NEW i \in 1..n - 1 PROVE r[i] = its[1 + i]
    BY <1>3, <1>4
  <2> QED BY <2>1, <2>2
<1> HIDE DEF r
<1> DEFINE u == its[1]
           c == <<u>> \o r
<1>6. u \in Items
  BY <1>2, <1>3
<1> HIDE DEF u
<1>7. /\ c \in Seq(Items) /\ Len(c) = 1 + Len(r)
      /\ \A i \in 1..1 + Len(r) : c[i] = IF i <= 1 THEN <<u>>[i] ELSE r[i - 1]
  BY <1>6, <1>4, ConcatProperties
<1> HIDE DEF c
<1>8. its = c
  <2>1. Len(c) = n
    BY <1>3, <1>5, <1>7
  <2>2. ASSUME NEW i \in 1..n PROVE its[i] = c[i]
    <3>1. CASE i = 1
      BY <1>3, <1>5, <1>7, <3>1 DEF u
    <3>2. CASE i > 1
      BY <1>3, <3>2, <1>5, <1>7
    <3> QED BY <3>1, <3>2
  <2> QED BY <1>1, <1>7, <2>1, <2>2, SeqEqual
<1> QED BY <1>1, <1>2, <1>3, <1>4, <1>5, <1>8 DEF r, its, u, c

\* An item on a stack.
LEMMA OnTop ==
  ASSUME NEW u \in Items, NEW r \in Seq(Items)
  PROVE  /\ <<u>> \o r \in Seq(Items) /\ <<u>> \o r # <<>> /\ (<<u>> \o r)[1] = u
         /\ Len(<<u>> \o r) = Len(r) + 1 /\ Len(r) \in Nat
         /\ \A i \in 1..Len(r) : (<<u>> \o r)[1 + i] = r[i]
<1> DEFINE c == <<u>> \o r
<1>1. Len(r) \in Nat
  BY LenNat
<1>2. /\ c \in Seq(Items) /\ Len(c) = 1 + Len(r)
      /\ \A i \in 1..1 + Len(r) : c[i] = IF i <= 1 THEN <<u>>[i] ELSE r[i - 1]
  BY ConcatProperties
<1> HIDE DEF c
<1>3. c # <<>> /\ c[1] = u
  BY <1>1, <1>2, EmptySeq
<1>4. ASSUME NEW i \in 1..Len(r) PROVE c[1 + i] = r[i]
  BY <1>1, <1>2
<1> QED BY <1>1, <1>2, <1>3, <1>4 DEF c

LEMMA TopReplaced ==
  ASSUME NEW u \in Items, NEW v \in Items, NEW r \in Seq(Items)
  PROVE  [(<<u>> \o r) EXCEPT ![1] = v] = <<v>> \o r
<1> DEFINE c == <<u>> \o r
           d == <<v>> \o r
           e == [c EXCEPT ![1] = v]
<1>1. c \in Seq(Items) /\ Len(c) = Len(r) + 1 /\ Len(r) \in Nat /\ (\A i \in 1..Len(r) : c[1 + i] = r[i])
  BY OnTop
<1>2. d \in Seq(Items) /\ Len(d) = Len(r) + 1 /\ (\A i \in 1..Len(r) : d[1 + i] = r[i]) /\ d[1] = v
  BY OnTop
<1> HIDE DEF c, d
<1>3. e \in Seq(Items) /\ Len(e) = Len(c) /\ \A i \in 1..Len(c) : e[i] = IF i = 1 THEN v ELSE c[i]
  BY <1>1, ExceptSeq
<1> HIDE DEF e
<1>4. ASSUME NEW i \in 1..Len(d) PROVE e[i] = d[i]
  <2>1. CASE i = 1
    BY <1>1, <1>2, <1>3, <2>1
  <2>2. CASE i > 1
    <3>1. i - 1 \in 1..Len(r) /\ 1 + (i - 1) = i
      BY <1>1, <1>2, <2>2
    <3>2. c[1 + (i - 1)] = r[i - 1] /\ d[1 + (i - 1)] = r[i - 1]
      BY <1>1, <1>2, <3>1
    <3> QED BY <1>1, <1>2, <1>3, <2>2, <3>1, <3>2
  <2> QED BY <1>2, <2>1, <2>2
<1>5. e = d
  BY <1>1, <1>2, <1>3, <1>4, SeqEqual
<1> QED BY <1>5 DEF e, c, d

\* add_undo, where it records an item of its own.
FreshIs(s, action, t) ==
    /\ t \in States /\ SameText(s, t) /\ Fields(s, t)
    /\ t.items = <<NewItem(s, action)>> \o Below(s) /\ t.cu = 1 /\ t.last = NewItem(s, action).type
    /\ t.keep = (s.keep /\ action \notin {"CUT", "CUT_EOF"})

LEMMA FreshAdded ==
  ASSUME NoNewlines
  PROVE  \A s \in States : \A action \in Actions :
           /\ s.cu \in 1..Len(s.items) + 1 /\ ~Contiguous(s, action) /\ NewItem(s, action) \in Items
           => FreshIs(s, action, AddUndo(s, action))
<1> TAKE s \in States
<1> TAKE action \in Actions
<1> HAVE s.cu \in 1..Len(s.items) + 1 /\ ~Contiguous(s, action) /\ NewItem(s, action) \in Items
<1> DEFINE t == AddUndo(s, action)
           u == NewItem(s, action)
           its == <<u>> \o Below(s)
           k == s.keep /\ action \notin {"CUT", "CUT_EOF"}
<1>1. t = [s EXCEPT !.items = its, !.cu = 1, !.last = u.type, !.keep = k]
  BY DEF AddUndo, DeletesFinalNewline, Below
<1>2. u \in Items /\ u.type \in ItemTypes
  BY DEF Items
<1>3. its \in Seq(Items)
  BY BelowIn, OnTop
<1>4. k \in BOOLEAN
  BY DEF States
<1> HIDE DEF u, its, k, t
<1>5. t \in States /\ t.items = its /\ t.cu = 1 /\ t.last = u.type /\ t.keep = k
  BY <1>1, <1>2, <1>3, <1>4 DEF States
<1>6. SameText(s, t)
  BY <1>1, <1>5 DEF SameText
<1> QED BY <1>5, <1>6, SameFields DEF FreshIs, t, u, its, k

\* update_undo puts another item on top.
PutTop(s, t, v, r) ==
    /\ t \in States /\ SameText(s, t) /\ Fields(s, t)
    /\ t.items = <<v>> \o r /\ t.cu = s.cu /\ t.last = s.last /\ t.keep = s.keep

LEMMA TopPut ==
  ASSUME NEW s \in States, NEW u \in Items, NEW v \in Items, NEW r \in Seq(Items),
         s.items = <<u>> \o r
  PROVE  PutTop(s, [s EXCEPT !.items[1] = v], v, r)
<1> DEFINE its == <<v>> \o r
           t == [s EXCEPT !.items[1] = v]
<1>1. its \in Seq(Items) /\ [s.items EXCEPT ![1] = v] = its
  BY OnTop, TopReplaced
<1> HIDE DEF its
<1>2. t = [s EXCEPT !.items = its]
  BY <1>1 DEF States
<1> HIDE DEF t
<1>3. t \in States /\ t.items = its /\ t.cu = s.cu /\ t.last = s.last /\ t.keep = s.keep
  BY <1>1, <1>2 DEF States
<1>4. SameText(s, t)
  BY <1>2, <1>3 DEF SameText, States
<1> QED BY <1>3, <1>4, SameFields DEF PutTop, t, its

\* What a command does to the text and the stack: it begins an operation over the text there was,
\* or goes on with the one that began with the text t0, or neither.
Begins(s, t) ==
    \E v \in Items : t.items = <<v>> \o Below(s) /\ t.cu = 1 /\ Records(v, s.lines, t.lines)
GoesOn(s, t, t0) ==
    /\ s.cu = 1 /\ s.items # <<>>
    /\ \E v \in Items : t.items = <<v>> \o Rest(s) /\ t.cu = 1 /\ Records(v, t0, t.lines)
Stays(s, t) == t.lines = s.lines /\ t.items = s.items /\ t.cu = s.cu
Does(s, t, t0) == Fine(t) /\ (Begins(s, t) \/ GoesOn(s, t, t0) \/ Stays(s, t))

\* The text t0 is the one that the item to be undone was recorded over.
Since(s, t0) == s.cu \in 1..Len(s.items) => Records(s.items[s.cu], t0, s.lines)

\* The settings under which everything but the indenting can be retraced.
Retraceable ==
    /\ NoNewlines /\ CutToEnd /\ Fill = 0 /\ ~CountSize /\ Avoided = AllHabits
    /\ \A session \in Sessions : session \cap {"indent", "unindent"} = {}

LEMMA StackTop ==
  ASSUME NEW t \in States, NEW v \in Items, NEW r \in Seq(Items),
         t.items = <<v>> \o r /\ t.cu = 1 /\ t.last = v.type
  PROVE  StackOK(t)
<1>1. t.items # <<>> /\ t.items[1] = v /\ Len(t.items) \in Nat
  BY OnTop, LenNat DEF States
<1> QED BY <1>1 DEF StackOK

\* The state without its stack.
Bare(s) == [s EXCEPT !.items = <<>>, !.cu = 1, !.last = "OTHER"]

LEMMA BareGood ==
  ASSUME NoNewlines, ~CountSize, NEW s \in States, CursorIn(s) /\ Marks(s) /\ ~s.ub
  PROVE  /\ Bare(s) \in States /\ Good(Bare(s)) /\ Bare(s).lines = s.lines /\ Cursor(Bare(s)) = Cursor(s)
         /\ Bef(Bare(s)) = Bef(s) /\ Aft(Bare(s)) = Aft(s) /\ CurLine(Bare(s)) = CurLine(s)
         /\ Bare(s).mark = s.mark /\ Bare(s).cur = s.cur /\ Bare(s).x = s.x
<1> DEFINE a == Bare(s)
<1>1. <<>> \in Seq(Items)
  OBVIOUS
<1>2. /\ a \in States /\ a.lines = s.lines /\ a.cur = s.cur /\ a.x = s.x /\ a.mark = s.mark /\ a.ub = s.ub
      /\ a.items = <<>> /\ a.cu = 1 /\ a.last = "OTHER"
  BY <1>1 DEF Bare, States
<1> HIDE DEF a
<1>3. Good(a)
  BY <1>2 DEF Good, Sound, CursorIn, Marks, Sizes, Magic, TopOK, TopLine
<1>4. Cursor(a) = Cursor(s) /\ Bef(a) = Bef(s) /\ Aft(a) = Aft(s) /\ CurLine(a) = CurLine(s)
  BY <1>2 DEF Cursor, Bef, Aft, CurLine
<1> QED BY <1>2, <1>3, <1>4 DEF a

LEMMA CursorApart ==
  \A s \in States : \A B, F \in Texts :
     s.lines = B \oplus F /\ <<s.cur, s.x>> = End(B) => Bef(s) = B /\ Aft(s) = F
BY Parted DEF Bef, Aft, Cursor

LEMMA WordJoin ==
  ASSUME NEW v \in Line, NEW w \in Line, NEW F \in Texts
  PROVE  /\ v \o w \in Line /\ Len(v \o w) = Len(v) + Len(w) /\ Len(v) \in Nat /\ Len(w) \in Nat
         /\ <<v>> \oplus (<<w>> \oplus F) = <<v \o w>> \oplus F /\ <<v>> \oplus <<w>> = <<v \o w>>
<1>1. v \o w \in Line /\ Len(v \o w) = Len(v) + Len(w) /\ Len(v) \in Nat /\ Len(w) \in Nat
  BY LineConcat
<1> DEFINE V == <<v>>
           W == <<w>>
           X == <<v \o w>>
<1>2. V \in Texts /\ W \in Texts /\ X \in Texts /\ W \in Lines /\ X \in Lines /\ <<>> \in Lines
  BY <1>1, OneIn, UnitIn
<1>3. V \oplus (W \o <<>>) = X \o <<>>
  BY <1>2, WordBefore
<1>4. W \o <<>> = W /\ X \o <<>> = X
  BY <1>2, ConcatEmptySeq DEF Lines
<1> HIDE DEF V, W, X
<1>5. V \oplus W = X
  BY <1>3, <1>4
<1>6. V \oplus (W \oplus F) = X \oplus F
  BY <1>2, <1>5, AttachAssoc
<1> QED BY <1>1, <1>5, <1>6 DEF V, W, X

\* The character behind the text B.
LEMMA CharThere ==
  ASSUME NEW B \in Texts, NEW F \in Texts, NEW c \in Char
  PROVE  LET line == (B \oplus (<< <<c>> >> \oplus F))[End(B)[1]]
         IN  SubSeq(line, End(B)[2] + 1, End(B)[2] + 1) = <<c>>
<1> DEFINE w == <<c>>
           G == <<w>> \oplus F
           t == B \oplus G
           l == End(B)[1]
           x == End(B)[2]
           line == t[l]
<1>1. w \in Line /\ Len(w) = 1 /\ w[1] = c
  BY DEF Line, Char
<1> HIDE DEF w
<1>2. G \in Texts /\ t \in Texts /\ End(B) \in PositionsOf(t)
  BY <1>1, WordEnd
<1>3. Suffix(line, x) = G[1]
  BY <1>2, RestOfLine
<1>4. PICK b \in Line, C \in Lines : F = <<b>> \o C
  BY FirstLine
<1>5. G = <<w \o b>> \o C /\ w \o b \in Line /\ Len(w \o b) = 1 + Len(b) /\ Len(b) \in Nat
  BY <1>1, <1>4, WordBefore, LineConcat
<1>6. G[1] = w \o b
  BY <1>5, StartIs
<1> HIDE DEF G, t
<1>7. l \in 1..Len(t) /\ x \in 0..Len(t[l]) /\ t \in Lines
  BY <1>2, TextLen, PlaceIn
<1> HIDE DEF l, x
<1>8. line \in Line /\ Len(line) \in Nat /\ x \in 0..Len(line)
  BY <1>7, LineIn
<1> HIDE DEF line
<1>9. Len(Suffix(line, x)) = Len(line) - x
  BY <1>8, Sides
<1>10. x + 1 \in 1..Len(line) /\ x \in Nat
  BY <1>3, <1>5, <1>6, <1>8, <1>9
<1>11. line[x + 1] = c
  <2> DEFINE f == Suffix(line, x)
  <2>1. f[1] = c
    <3>1. (w \o b)[1] = w[1]
      BY <1>1, <1>5, ConcatProperties DEF Line
    <3> QED BY <1>1, <1>3, <1>6, <3>1
  <2>2. f[1] = line[x + 1]
    <3>1. \A i \in x + 1..Len(line) : line[i] \in Char
      BY <1>8, <1>10, ElementOfSeq DEF Line, Char
    <3> DEFINE k == x + 1
               n == Len(line)
    <3>2. k \in Nat /\ n \in Nat /\ k >= 1 /\ k <= n
      BY <1>8, <1>10
    <3>3. f = SubSeq(line, k, n)
      BY DEF Suffix
    <3> HIDE DEF k, n
    <3>4. \A i \in 1..n - k + 1 : SubSeq(line, k, n)[i] = line[k + i - 1]
      BY <1>8, <3>1, <3>2, SubSeqProperties DEF Line, Char, k, n
    <3>5. 1 \in 1..n - k + 1 /\ k + 1 - 1 = k
      BY <3>2
    <3>6. f[1] = line[k]
      BY <3>3, <3>4, <3>5
    <3> QED BY <3>6 DEF k
  <2> QED BY <2>1, <2>2
<1>12. SubSeq(line, x + 1, x + 1) = <<c>>
  <2> DEFINE k == x + 1
             d == SubSeq(line, k, k)
  <2>1. k \in Nat /\ k >= 1 /\ k \in 1..Len(line)
    BY <1>10
  <2>2. line[k] = c
    BY <1>11
  <2> HIDE DEF k
  <2>3. \A i \in k..k : line[i] \in Char
    BY <1>8, <2>1, ElementOfSeq DEF Line, Char
  <2>4. d \in Seq(Char) /\ Len(d) = (IF k <= k THEN k - k + 1 ELSE 0) /\ \A i \in 1..k - k + 1 : d[i] = line[k + i - 1]
    BY <1>8, <2>1, <2>3, SubSeqProperties DEF Line, Char
  <2>5. Len(d) = 1 /\ d[1] = line[k]
    BY <2>1, <2>4
  <2>6. <<c>> \in Seq(Char) /\ Len(<<c>>) = 1 /\ <<c>>[1] = c
    OBVIOUS
  <2> HIDE DEF d
  <2>7. \A i \in 1..Len(d) : d[i] = <<c>>[i]
    BY <2>2, <2>5, <2>6
  <2>8. d = <<c>>
    BY <2>4, <2>5, <2>6, <2>7, SeqEqual
  <2> QED BY <2>8 DEF d, k
<1> QED BY <1>12 DEF line, t, G, w, l, x

\* Typing: the item on top, recorded over the text of s or over t0.
TypedTop(s, u, r, t0) ==
    \/ r = Below(s) /\ u = BlankItem(s, "ADD")
    \/ s.cu = 1 /\ s.items # <<>> /\ r = Rest(s) /\ Added(u, t0, s.lines)
         /\ u.mlineno = s.cur /\ u.mx = s.x

LEMMA BlankIn ==
  ASSUME NEW s \in States, NEW action \in {"ADD", "ENTER", "CUT", "CUT_EOF"}, CursorIn(s)
  PROVE  /\ BlankItem(s, action) \in Items /\ NewItem(s, "ADD") = BlankItem(s, "ADD")
         /\ NewItem(s, "ENTER") = BlankItem(s, "ENTER") /\ BlankItem(s, action).type = action
<1>1. s.cur \in Int /\ s.x \in Int /\ NULL \in Seq(Line)
  BY UnitIn DEF States, NULL, Lines
<1>2. BlankItem(s, action) \in Items /\ BlankItem(s, action).type = action
  BY <1>1 DEF BlankItem, Items, ItemTypes, XFlags
<1> QED BY <1>2 DEF NewItem

LEMMA NotAfterUndo ==
  ASSUME NEW s \in States, StackOK(s) /\ Contiguous(s, "ADD") /\ ~TypesAfterUndo(s)
  PROVE  /\ s.cu = 1 /\ s.items # <<>> /\ CurUndo(s) = s.items[1] /\ s.last = "ADD" /\ s.items[1].type = "ADD"
         /\ s.items[1].mlineno = s.cur /\ s.items[1].mx = s.x
<1>1. s.last # "OTHER"
  BY DEF TypesAfterUndo
<1>2. s.cu = 1 /\ s.items # <<>> /\ s.last = s.items[1].type
  BY <1>1 DEF StackOK
<1> QED BY <1>2 DEF Contiguous, CurUndo

LEMMA AddedItem ==
  \A s \in States : \A u \in Items : \A t0 \in Texts :
     Records(u, t0, s.lines) /\ u.type = "ADD" => Added(u, t0, s.lines)
BY DEF Records, Deleted, Joined, Broken, CutAway, Pasted

\* The word that is typed on.
LEMMA AddedWord ==
  ASSUME NEW u \in Items, NEW t0 \in Texts, NEW t1 \in Texts, Added(u, t0, t1)
  PROVE  \E B, F \in Texts, w \in Line :
           /\ u.str = <<w>> /\ u.str # NULL /\ u.str[1] = w /\ u.type = "ADD"
           /\ t0 = B \oplus F /\ t1 = (B \oplus <<w>>) \oplus F /\ B \oplus <<w>> \in Texts /\ <<w>> \in Texts
           /\ <<u.lineno, u.begin>> = End(B) /\ <<u.mlineno, u.mx>> = End(B \oplus <<w>>)
           /\ u.lineno = u.mlineno
<1>1. PICK B, F \in Texts, w \in Line :
        /\ u.type = "ADD" /\ u.str = <<w>>
        /\ t0 = B \oplus F /\ t1 = B \oplus (<<w>> \oplus F)
        /\ <<u.lineno, u.begin>> = End(B) /\ <<u.mlineno, u.mx>> = End(B \oplus <<w>>)
  BY DEF Added
<1>2. /\ End(B \oplus <<w>>) = <<End(B)[1], End(B)[2] + Len(w)>>
  BY WordEnd
<1>3. u.mlineno = u.lineno
  BY <1>1, <1>2
<1>4. <<w>> \in Texts /\ <<w>>[1] = w /\ <<w>> # NULL
  BY OneIn DEF NULL
<1> DEFINE W == <<w>>
<1> HIDE DEF W
<1>5. W \in Texts
  BY <1>4 DEF W
<1>6. B \oplus W \in Texts /\ (B \oplus W) \oplus F = B \oplus (W \oplus F)
  BY <1>5, AttachIn, AttachAssoc
<1> QED BY <1>1, <1>3, <1>4, <1>6 DEF W

\* The item that a character is added to.
LEMMA TypedItem ==
  ASSUME NEW s \in States, NEW c \in Char, NEW u \in Items, NEW r \in Seq(Items),
         NEW t0 \in Texts, NEW a \in States,
         /\ CursorIn(s) /\ TypedTop(s, u, r, t0) /\ a.cur = s.cur /\ a.x = s.x + 1
         /\ a.lines = Bef(s) \oplus (<< <<c>> >> \oplus Aft(s))
  PROVE  LET v == GrownAdd(a, u)
         IN  /\ v \in Items /\ v.type = u.type /\ u.type = "ADD" /\ u.lineno = s.cur
             /\ \/ r = Below(s) /\ Added(v, s.lines, a.lines)
                \/ s.cu = 1 /\ s.items # <<>> /\ r = Rest(s) /\ Added(v, t0, a.lines)
<1> DEFINE B == Bef(s)
           F == Aft(s)
           w == <<c>>
           d == SubSeq(CurLine(a), u.mx + 1, u.mx + 1)
           old == IF u.str = NULL THEN <<>> ELSE u.str[1]
           v == GrownAdd(a, u)
<1>1. AtCursor(s) /\ s.x \in Nat /\ s.cur \in Nat
  BY CursorParts DEF AtCursor
<1>2. w \in Line /\ Len(w) = 1 /\ w # <<>>
  BY DEF Line, Char
<1>3. u.mx = s.x /\ u.mlineno = s.cur
  BY DEF TypedTop, BlankItem
<1>4. d = w
  BY <1>1, <1>3, CharThere DEF CurLine, AtCursor
<1>5. v = [u EXCEPT !.str = <<old \o w>>, !.mlineno = s.cur, !.mx = s.x + 1]
  BY <1>4 DEF GrownAdd
<1> HIDE DEF d, w, v, B, F
<1>6. B \in Texts /\ F \in Texts /\ s.lines = B \oplus F /\ End(B) = <<s.cur, s.x>> /\ a.lines = B \oplus (<<w>> \oplus F)
  BY <1>1 DEF AtCursor, B, F, w
<1>7. CASE r = Below(s) /\ u = BlankItem(s, "ADD")
  <2>1. u.type = "ADD" /\ u.str = NULL /\ u.lineno = s.cur /\ u.begin = s.x
    BY <1>7 DEF BlankItem
  <2>2. old \o w = w
    <3>1. <<>> \o w = w
      BY <1>2, ConcatEmptySeq DEF Line
    <3> QED BY <2>1, <3>1
  <2> HIDE DEF old
  <2>3. v = [u EXCEPT !.str = <<w>>, !.mlineno = s.cur, !.mx = s.x + 1]
    BY <1>5, <2>2
  <2>4. <<w>> \in Seq(Line) /\ s.cur \in Int /\ s.x + 1 \in Int
    BY <1>1, <1>2
  <2>5. /\ v \in Items /\ v.type = "ADD" /\ v.str = <<w>> /\ v.lineno = s.cur /\ v.begin = s.x
        /\ v.mlineno = s.cur /\ v.mx = s.x + 1
    BY <2>1, <2>3, <2>4 DEF Items
  <2>6. End(B \oplus <<w>>) = <<s.cur, s.x + 1>>
    BY <1>2, <1>6, WordEnd
  <2>7. Added(v, s.lines, a.lines)
    BY <1>2, <1>6, <2>5, <2>6 DEF Added
  <2> QED BY <1>7, <2>1, <2>5, <2>7 DEF v
<1>8. CASE s.cu = 1 /\ s.items # <<>> /\ r = Rest(s) /\ Added(u, t0, s.lines)
  <2>1. s.lines \in Texts
    BY DEF States
  <2>2. PICK D, G \in Texts, z \in Line :
          /\ u.str = <<z>> /\ u.str # NULL /\ u.str[1] = z /\ u.type = "ADD"
          /\ t0 = D \oplus G /\ s.lines = (D \oplus <<z>>) \oplus G /\ D \oplus <<z>> \in Texts /\ <<z>> \in Texts
          /\ <<u.lineno, u.begin>> = End(D) /\ <<u.mlineno, u.mx>> = End(D \oplus <<z>>)
          /\ u.lineno = u.mlineno
    BY <1>8, <2>1, AddedWord
  <2> DEFINE y == z \o w
             DZ == D \oplus <<z>>
  <2>3. B = DZ /\ F = G
    <3>1. DZ \in Texts /\ s.lines = DZ \oplus G /\ <<s.cur, s.x>> = End(DZ)
      BY <1>3, <2>2
    <3> HIDE DEF DZ
    <3> QED BY <3>1, CursorApart DEF B, F
  <2>4. old \o w = y
    BY <2>2
  <2>5. /\ y \in Line /\ Len(y) = Len(z) + Len(w) /\ Len(z) \in Nat
        /\ <<z>> \oplus (<<w>> \oplus G) = <<y>> \oplus G /\ <<z>> \oplus <<w>> = <<y>>
    BY <1>2, WordJoin
  <2> HIDE DEF old, y
  <2>6. v = [u EXCEPT !.str = <<y>>, !.mlineno = s.cur, !.mx = s.x + 1]
    BY <1>5, <2>4
  <2>7. <<y>> \in Seq(Line) /\ s.cur \in Int /\ s.x + 1 \in Int
    BY <1>1, <2>5
  <2>8. /\ v \in Items /\ v.type = "ADD" /\ v.str = <<y>> /\ v.lineno = u.lineno /\ v.begin = u.begin
        /\ v.mlineno = s.cur /\ v.mx = s.x + 1
    BY <2>2, <2>6, <2>7 DEF Items
  <2>9. End(D \oplus <<y>>) = <<s.cur, s.x + 1>>
    <3>1. End(D \oplus <<z>>) = <<End(D)[1], End(D)[2] + Len(z)>> /\ End(D)[2] \in Nat
      BY WordEnd, EndIn
    <3>2. End(D \oplus <<y>>) = <<End(D)[1], End(D)[2] + Len(y)>>
      BY <2>5, WordEnd
    <3>3. End(D)[1] = s.cur /\ End(D)[2] + Len(z) = s.x
      BY <1>3, <2>2, <3>1
    <3> DEFINE k == End(D)[2]
               m == Len(z)
               n == Len(w)
    <3>4. k \in Nat /\ m \in Nat /\ n = 1 /\ k + m = s.x /\ Len(y) = m + n
      BY <1>2, <2>5, <3>1, <3>3
    <3> HIDE DEF k, m, n
    <3>5. k + (m + n) = s.x + 1
      BY <3>4
    <3> QED BY <3>2, <3>3, <3>4, <3>5 DEF k
  <2>10. a.lines = D \oplus (<<y>> \oplus G)
    <3> DEFINE Z == <<z>>
               W == <<w>>
    <3>1. Z \in Texts /\ W \in Texts /\ Z \oplus (W \oplus G) = <<y>> \oplus G
      BY <1>2, <2>2, <2>5, OneIn
    <3>2. a.lines = (D \oplus Z) \oplus (W \oplus G)
      BY <1>6, <2>3
    <3> HIDE DEF Z, W
    <3>3. W \oplus G \in Texts
      BY <3>1, AttachIn
    <3>4. (D \oplus Z) \oplus (W \oplus G) = D \oplus (Z \oplus (W \oplus G))
      BY <3>1, <3>3, AttachAssoc
    <3> QED BY <3>1, <3>2, <3>4
  <2>11. Added(v, t0, a.lines)
    BY <2>2, <2>5, <2>8, <2>9, <2>10 DEF Added
  <2> QED BY <1>3, <1>8, <2>2, <2>8, <2>11 DEF v
<1> QED BY <1>7, <1>8 DEF TypedTop

\* do_output.
LEMMA TypingDoes ==
  ASSUME Retraceable, NEW s \in States, NEW c \in Char, NEW t0 \in Texts,
         Fine(s) /\ ~TypesAfterUndo(s) /\ Since(s, t0)
  PROVE  Does(s, TypeChar(s, c), t0)
<1> DEFINE new == TypedLines(s, c)
           p == <<s.cur, s.x + 1>>
           k == IF ~NoNewlines /\ s.cur = Len(s.lines) THEN 2 ELSE 1
           z == Counted(s.size + k)
           m == IF s.mark = NoMark THEN NoMark ELSE TypedMark(s.mark, Cursor(s))
           s1 == Typed1(s, c)
           s2 == AddUndo(s1, "ADD")
           s3 == Typed2(s, c)
           t == UpdateUndo(s3, "ADD")
<1>1. /\ NoNewlines /\ ~CountSize /\ CursorIn(s) /\ Marks(s) /\ ~s.ub /\ StackOK(s)
      /\ s.cu \in 1..Len(s.items) + 1
  BY DEF Retraceable, Fine, StackOK
<1>2. /\ new \in Texts
      /\ Cursor(s) \in PositionsOf(new) /\ p \in PositionsOf(new)
      /\ s.mark # NoMark => TypedMark(s.mark, Cursor(s)) \in PositionsOf(new)
  <2> DEFINE b == Bare(s)
  <2>1. /\ b \in States /\ Good(b) /\ b.lines = s.lines /\ Cursor(b) = Cursor(s) /\ Bef(b) = Bef(s) /\ Aft(b) = Aft(s)
        /\ b.mark = s.mark /\ b.cur = s.cur /\ b.x = s.x
    BY <1>1, BareGood
  <2> HIDE DEF b
  <2>2. TypedLines(b, c) = new
    BY <2>1 DEF TypedLines
  <2>3. /\ TypedLines(b, c) \in Texts
        /\ Cursor(b) \in PositionsOf(TypedLines(b, c)) /\ <<b.cur, b.x + 1>> \in PositionsOf(TypedLines(b, c))
        /\ b.mark # NoMark => TypedMark(b.mark, Cursor(b)) \in PositionsOf(TypedLines(b, c))
    BY <2>1, TypedText
  <2> HIDE DEF new
  <2> QED BY <2>1, <2>2, <2>3
<1>3. TypeChar(s, c) = t
  BY <1>1, TypeCharIs DEF Char
<1>4. new = Bef(s) \oplus (<< <<c>> >> \oplus Aft(s))
  BY <1>1 DEF TypedLines
<1>5. s1 = [s EXCEPT !.lines = new, !.size = z, !.mod = TRUE] /\ z \in Int
  <2>1. s.size + k \in Int
    BY DEF States
  <2> HIDE DEF k
  <2>2. z \in Int
    BY <2>1, CountedInt
  <2> QED BY <2>2 DEF Typed1, k
<1> HIDE DEF new, z
<1>6. /\ s1 \in States /\ s1.lines = new /\ s1.cur = s.cur /\ s1.x = s.x
      /\ s1.mark = s.mark /\ s1.ub = s.ub /\ s1.items = s.items /\ s1.cu = s.cu /\ s1.last = s.last /\ s1.keep = s.keep
  BY <1>2, <1>5 DEF States
<1> HIDE DEF s1
<1>7. CursorIn(s1) /\ BlankItem(s1, "ADD") = BlankItem(s, "ADD") /\ Below(s1) = Below(s)
      /\ (Contiguous(s1, "ADD") <=> Contiguous(s, "ADD"))
  BY <1>6, <1>2, CursorPlace DEF Cursor, InText, BlankItem, Below, Contiguous, HasUndo, CurUndo
<1>8. PICK u \in Items, r \in Seq(Items) :
        /\ s2 \in States /\ s2.items = <<u>> \o r /\ s2.cu = 1 /\ s2.last = "ADD" /\ Fields(s1, s2)
        /\ TypedTop(s, u, r, t0)
  <2>1. CASE ~Contiguous(s, "ADD")
    <3>1. BlankItem(s, "ADD") \in Items /\ NewItem(s1, "ADD") = BlankItem(s1, "ADD") /\ BlankItem(s, "ADD").type = "ADD"
      BY <1>1, <1>6, <1>7, BlankIn
    <3>2. FreshIs(s1, "ADD", s2)
      BY <1>1, <1>6, <1>7, <2>1, <3>1, FreshAdded DEF Actions
    <3>3. /\ s2 \in States /\ s2.items = <<BlankItem(s, "ADD")>> \o Below(s) /\ s2.cu = 1 /\ s2.last = "ADD"
          /\ Fields(s1, s2)
      BY <1>7, <3>1, <3>2 DEF FreshIs
    <3>4. TypedTop(s, BlankItem(s, "ADD"), Below(s), t0)
      BY DEF TypedTop
    <3>5. Below(s) \in Seq(Items)
      BY <1>1, BelowIn
    <3> QED BY <3>1, <3>3, <3>4, <3>5
  <2>2. CASE Contiguous(s, "ADD")
    <3>1. s2 = s1
      BY <1>7, <2>2 DEF AddUndo
    <3>2. /\ s.cu = 1 /\ s.items # <<>> /\ s.last = "ADD" /\ s.items[1].type = "ADD"
          /\ s.items[1].mlineno = s.cur /\ s.items[1].mx = s.x
      BY <1>1, <2>2, NotAfterUndo
    <3>3. Rest(s) \in Seq(Items) /\ s.items[1] \in Items /\ s.items = <<s.items[1]>> \o Rest(s) /\ Len(s.items) \in Nat \ {0}
      BY <3>2, RestIn
    <3>4. Added(s.items[1], t0, s.lines)
      BY <3>2, <3>3, AddedItem DEF Since
    <3>5. TypedTop(s, s.items[1], Rest(s), t0)
      BY <3>2, <3>4 DEF TypedTop
    <3>6. Fields(s1, s1)
      BY DEF Fields
    <3> QED BY <1>6, <3>1, <3>2, <3>3, <3>5, <3>6
  <2> QED BY <2>1, <2>2
<1>9. s3 = [s2 EXCEPT !.x = s.x + 1, !.mark = m]
  BY DEF Typed2, s2, s1
<1>10. m \in {NoMark} \cup (Int \X Int) /\ s.x + 1 \in Int
  BY <1>2, PlaceInts DEF States
<1> HIDE DEF s2, s3, m
<1>11. /\ s3 \in States /\ s3.lines = new /\ s3.cur = s.cur /\ s3.x = s.x + 1
       /\ s3.mark = m /\ s3.ub = s.ub /\ s3.items = <<u>> \o r /\ s3.cu = 1 /\ s3.last = "ADD"
  BY <1>6, <1>8, <1>9, <1>10 DEF States, Fields
<1> DEFINE v == GrownAdd(s3, u)
<1>12. /\ v \in Items /\ v.type = "ADD" /\ u.type = "ADD" /\ u.lineno = s.cur
       /\ \/ r = Below(s) /\ Added(v, s.lines, new)
          \/ s.cu = 1 /\ s.items # <<>> /\ r = Rest(s) /\ Added(v, t0, new)
  BY <1>1, <1>4, <1>8, <1>11, TypedItem
<1> HIDE DEF v
<1>13. t = [s3 EXCEPT !.items[1] = v]
  BY <1>11, OnTop, <1>12 DEF CurUndo, UpdateUndo, v
<1>14. PutTop(s3, t, v, r)
  BY <1>11, <1>12, <1>13, TopPut
<1> HIDE DEF t
<1>15. /\ t \in States /\ t.lines = new /\ t.cur = s.cur /\ t.x = s.x + 1 /\ t.mark = m /\ ~t.ub
       /\ t.items = <<v>> \o r /\ t.cu = 1 /\ t.last = "ADD"
  BY <1>1, <1>11, <1>14 DEF PutTop, Fields
<1>16. Fine(t)
  <2>1. Cursor(t) = p
    BY <1>15 DEF Cursor
  <2>2. CursorIn(t)
    BY <1>2, <1>15, <2>1, CursorPlace DEF InText
  <2>3. Marks(t)
    BY <1>2, <1>15 DEF Marks, m
  <2>4. StackOK(t)
    BY <1>12, <1>15, StackTop
  <2> QED BY <1>15, <2>2, <2>3, <2>4 DEF Fine
<1>17. Begins(s, t) \/ GoesOn(s, t, t0)
  BY <1>12, <1>15 DEF Begins, GoesOn, Records
<1> QED BY <1>3, <1>16, <1>17 DEF Does

\* do_enter.
LEMMA EnterDoes ==
  ASSUME Retraceable, NEW s \in States, NEW t0, Fine(s)
  PROVE  Does(s, Enter(s, FALSE), t0)
<1> DEFINE new == BrokenText(s)
           p == <<s.cur + 1, 0>>
           n == s.cur + 1
           z == Counted(s.size + 1)
           m == IF s.mark = NoMark THEN NoMark ELSE BrokenMark(s.mark, Cursor(s))
           s2 == AddUndo(s, "ENTER")
           repl == <<Prefix(CurLine(s), s.x), Suffix(CurLine(s), s.x)>>
           mk == s.mark
           mark == CASE mk = NoMark -> NoMark
                     [] mk # NoMark /\ mk[1] = s.cur /\ s.x < mk[2] -> <<mk[1] + 1, mk[2] - s.x>>
                     [] mk # NoMark /\ mk[1] > s.cur -> <<mk[1] + 1, mk[2]>>
                     [] OTHER -> mk
           s3 == [s2 EXCEPT !.lines = ReplaceLine(@, s.cur, repl), !.mark = mark, !.cur = s.cur + 1, !.x = 0,
                            !.size = Counted(@ + 1), !.mod = TRUE]
           t == UpdateUndo(s3, "ENTER")
           u == BlankItem(s, "ENTER")
           r == Below(s)
           v == [u EXCEPT !.mx = 0]
<1>1. CursorIn(s) /\ Marks(s) /\ ~s.ub /\ s.cur \in Nat \ {0} /\ s.x \in Nat /\ NoNewlines
      /\ s.x <= Len(CurLine(s)) /\ Len(CurLine(s)) \in Nat /\ s.cu \in 1..Len(s.items) + 1
  BY CursorLine DEF Fine, Retraceable, StackOK
<1>2. BrokenTextIs(s) /\ AtCursor(s)
  BY <1>1, BrokenTextDone, CursorParts
<1>3. u \in Items /\ NewItem(s, "ENTER") = u /\ u.type = "ENTER" /\ r \in Seq(Items)
  BY <1>1, BlankIn, BelowIn
<1>4. u.lineno = s.cur /\ u.begin = s.x /\ u.mlineno = s.cur
  BY DEF BlankItem
<1>5. v \in Items /\ v.type = "ENTER" /\ v.lineno = s.cur /\ v.begin = s.x /\ v.mlineno = s.cur /\ v.mx = 0
  <2> HIDE DEF u
  <2>1. 0 \in Int
    OBVIOUS
  <2>2. v = [u EXCEPT !.mx = 0]
    OBVIOUS
  <2> HIDE DEF v
  <2> QED BY <1>3, <1>4, <2>1, <2>2 DEF Items
<1> HIDE DEF u, r
<1>6. FreshIs(s, "ENTER", s2)
  <2>1. ~Contiguous(s, "ENTER")
    BY DEF Contiguous
  <2> QED BY <1>1, <1>3, <2>1, FreshAdded DEF Actions
<1>7. s2 \in States /\ Fields(s, s2) /\ s2.items = <<u>> \o r /\ s2.cu = 1 /\ s2.last = "ENTER"
  BY <1>3, <1>6 DEF FreshIs, r
<1>8. Enter(s, FALSE) = t
  BY <1>1 DEF Enter
<1>9. mark = m
  <2> DEFINE inLine == mk[1] = s.cur /\ s.x < mk[2]
             below == mk[1] > s.cur
             a == <<mk[1] + 1, mk[2] - s.x>>
             b == <<mk[1] + 1, mk[2]>>
  <2>1. mark = CASE mk = NoMark -> NoMark [] mk # NoMark /\ inLine -> a
                 [] mk # NoMark /\ below -> b [] OTHER -> mk
    OBVIOUS
  <2>2. m = IF mk = NoMark THEN NoMark ELSE IF inLine THEN a ELSE IF below THEN b ELSE mk
    BY DEF BrokenMark, Cursor
  <2>3. inLine => ~below
    BY <1>1 DEF States
  <2> HIDE DEF mark, m, inLine, below, a, b, mk
  <2> QED BY <2>1, <2>2, <2>3
<1> HIDE DEF s2, mark
<1>10. s3 = Edits(s2, new, m, n, 0, z)
  BY <1>2, <1>7, <1>9 DEF BrokenTextIs, Fields, Edits
<1>11. z \in Int /\ n \in Int /\ 0 \in Int
  <2>1. s.size + 1 \in Int
    BY DEF States
  <2>2. z \in Int
    BY <2>1, CountedInt
  <2> QED BY <1>1, <2>2
<1>12. m \in {NoMark} \cup (Int \X Int)
  BY <1>2, PlaceInts DEF BrokenTextIs
<1>13. /\ new \in Texts /\ p \in PositionsOf(new)
       /\ s.mark # NoMark => BrokenMark(s.mark, Cursor(s)) \in PositionsOf(new)
  BY <1>2 DEF BrokenTextIs
<1> HIDE DEF s3, new, z, m, n
<1>14. EditedIs(s2, s3, new, m, n, 0, z)
  BY <1>7, <1>10, <1>11, <1>12, <1>13, Edited
<1>15. /\ s3 \in States /\ s3.lines = new /\ s3.cur = n /\ s3.x = 0 /\ s3.mark = m /\ ~s3.ub
       /\ s3.items = <<u>> \o r /\ s3.cu = 1 /\ s3.last = "ENTER"
  BY <1>1, <1>7, <1>14 DEF EditedIs, Fields
<1>16. t = [s3 EXCEPT !.items[1] = v]
  <2>1. s3.items[1] = u
    BY <1>3, <1>15, OnTop
  <2> QED BY <1>3, <1>15, <2>1 DEF UpdateUndo
<1>17. PutTop(s3, t, v, r)
  <2> HIDE DEF v, t
  <2> QED BY <1>3, <1>5, <1>15, <1>16, TopPut
<1> HIDE DEF t, v
<1>18. /\ t \in States /\ t.lines = new /\ t.cur = n /\ t.x = 0 /\ t.mark = m /\ ~t.ub
       /\ t.items = <<v>> \o r /\ t.cu = 1 /\ t.last = "ENTER"
  BY <1>15, <1>17 DEF PutTop, Fields
<1>19. Fine(t)
  <2>1. Cursor(t) = p
    BY <1>18 DEF Cursor, n
  <2>2. CursorIn(t)
    BY <1>13, <1>18, <2>1, CursorPlace DEF InText
  <2>3. Marks(t)
    BY <1>13, <1>18 DEF Marks, m
  <2>4. StackOK(t)
    BY <1>3, <1>5, <1>18, StackTop
  <2> QED BY <1>18, <2>2, <2>3, <2>4 DEF Fine
<1>20. Records(v, s.lines, new)
  <2>1. Broken(v, s.lines, new)
    BY <1>2, <1>5 DEF AtCursor, new, BrokenText, Broken
  <2> QED BY <2>1 DEF Records
<1>21. Begins(s, t)
  BY <1>5, <1>18, <1>20 DEF Begins, r
<1> QED BY <1>8, <1>19, <1>21 DEF Does

\* The character at the cursor, and the items its deletion leads to.
CharAt(s) == SubSeq(CurLine(s), s.x + 1, s.x + 1)
TakenAt(s, G) ==
    /\ G \in Texts /\ CharAt(s) \in Line /\ Len(CharAt(s)) = 1
    /\ Aft(s) = <<CharAt(s)>> \oplus G /\ DeletedText(s) = Bef(s) \oplus G

LEMMA CharTaken ==
  ASSUME NEW s \in States, CursorIn(s) /\ s.x < Len(CurLine(s))
  PROVE  \E G : TakenAt(s, G)
<1> DEFINE p == Cursor(s)
           q == <<s.cur, s.x + 1>>
           G == TextFrom(s.lines, q)
<1>1. s.lines \in Texts /\ p \in PositionsOf(s.lines) /\ p[2] < Len(s.lines[p[1]])
  BY CursorPlace DEF States, InText, Cursor, CurLine
<1>2. p[1] = s.cur /\ p[2] = s.x
  BY DEF Cursor
<1> HIDE DEF p
<1>3. CharAfter(s.lines, p)
  BY <1>1, NextChar
<1>4. CharAt(s) \in Line /\ Len(CharAt(s)) = 1 /\ Aft(s) = <<CharAt(s)>> \oplus G /\ q \in PositionsOf(s.lines)
  BY <1>2, <1>3 DEF CharAfter, Aft, CurLine, CharAt, p
<1> HIDE DEF q
<1>5. G \in Texts
  BY <1>1, <1>4, TakenApart
<1>6. DeletedText(s) = Bef(s) \oplus G
  BY DEF DeletedText, q
<1> HIDE DEF G
<1> QED BY <1>4, <1>5, <1>6 DEF TakenAt

LEMMA DeletedFirst ==
  ASSUME NEW s \in States, NEW action \in {"BACK", "DEL"}, CursorIn(s) /\ s.x < Len(CurLine(s))
  PROVE  /\ NewItem(s, action) \in Items /\ NewItem(s, action).type = action
         /\ Deleted(NewItem(s, action), s.lines, DeletedText(s))
<1> DEFINE u == NewItem(s, action)
           w == CharAt(s)
<1>1. PICK G : TakenAt(s, G)
  BY CharTaken
<1>2. AtCursor(s) /\ s.x \in Nat
  BY CursorParts DEF AtCursor
<1>3. NewItemIs(s, action) /\ s.x # Len(CurLine(s))
  <2>1. s.x # Len(CurLine(s))
    BY <1>2, CursorLine
  <2> QED BY <2>1, NewItemMade DEF Actions
<1>4. u \in Items /\ u.type = action
  BY <1>3 DEF NewItemIs
<1>5. u.str = <<w>> /\ u.lineno = s.cur /\ u.mlineno = s.cur /\ u.begin = s.x /\ u.mx \in {s.x, s.x + 1}
  BY <1>3 DEF NewItem, DeletionItem, BlankItem, CharAt
<1> HIDE DEF u, w
<1>6. u.mx \in u.begin..u.begin + Len(w)
  BY <1>1, <1>2, <1>5 DEF TakenAt, w
<1>7. /\ Bef(s) \in Texts /\ G \in Texts /\ w \in Line /\ s.lines = Bef(s) \oplus (<<w>> \oplus G)
      /\ DeletedText(s) = Bef(s) \oplus G /\ <<u.mlineno, u.begin>> = End(Bef(s))
  BY <1>1, <1>2, <1>5 DEF TakenAt, AtCursor, w
<1>8. Deleted(u, s.lines, DeletedText(s))
  BY <1>4, <1>5, <1>6, <1>7 DEF Deleted
<1> QED BY <1>4, <1>8 DEF u

LEMMA DeletedNext ==
  ASSUME NEW s \in States, NEW u \in Items, NEW t0 \in Texts,
         /\ CursorIn(s) /\ s.x < Len(CurLine(s)) /\ Deleted(u, t0, s.lines)
         /\ u.lineno = s.cur /\ s.x \in {u.begin, u.begin - 1}
  PROVE  LET v == GrownDeletion(s, u)
         IN  v \in Items /\ v.type = u.type /\ Deleted(v, t0, DeletedText(s))
<1> DEFINE v == GrownDeletion(s, u)
           c == CharAt(s)
           C == <<c>>
           D == Bef(s)
           new == DeletedText(s)
<1>1. PICK G : TakenAt(s, G)
  BY CharTaken
<1>2. PICK B, F \in Texts, w \in Line :
        /\ u.type \in {"BACK", "DEL"} /\ u.str = <<w>>
        /\ t0 = B \oplus (<<w>> \oplus F) /\ s.lines = B \oplus F
        /\ <<u.mlineno, u.begin>> = End(B) /\ u.lineno = u.mlineno
        /\ u.mx \in u.begin..u.begin + Len(w)
  BY DEF Deleted
<1>3. /\ AtCursor(s) /\ s.x \in Nat /\ s.cur \in Nat /\ D \in Texts /\ G \in Texts /\ c \in Line /\ Len(c) = 1
      /\ s.lines = D \oplus (C \oplus G) /\ Aft(s) = C \oplus G /\ new = D \oplus G /\ End(D) = <<s.cur, s.x>>
      /\ C \in Texts
  BY <1>1, CursorParts, OneIn DEF AtCursor, TakenAt
<1>4. u.begin \in Nat /\ Len(w) \in Nat /\ u.mx \in Int /\ u.str[1] = w
  BY <1>2, EndPair, LenNat DEF Items, Line
<1>5. SubSeq(CurLine(s), s.x + 1, s.x + 1) = c
  BY DEF CharAt
<1> HIDE DEF c, D, new
<1>6. CASE s.x = u.begin
  <2> DEFINE y == w \o c
  <2>1. v = [u EXCEPT !.str = <<y>>, !.mx = s.x]
    BY <1>4, <1>5, <1>6 DEF GrownDeletion
  <2>2. /\ y \in Line /\ Len(y) = Len(w) + Len(c) /\ <<w>> \oplus (C \oplus G) = <<y>> \oplus G
    BY <1>3, WordJoin
  <2> HIDE DEF y, v
  <2>3. <<y>> \in Seq(Line) /\ s.x \in Int
    BY <1>3, <2>2
  <2>4. /\ v \in Items /\ v.type = u.type /\ v.str = <<y>> /\ v.mx = s.x /\ v.begin = u.begin
        /\ v.lineno = u.lineno /\ v.mlineno = u.mlineno
    BY <2>1, <2>3 DEF Items
  <2>5. D = B /\ Aft(s) = F
    BY <1>2, <1>6, CursorApart DEF D
  <2>6. t0 = D \oplus (<<y>> \oplus G)
    BY <1>2, <1>3, <2>2, <2>5
  <2>7. v.mx \in v.begin..v.begin + Len(y)
    BY <1>3, <1>4, <1>6, <2>2, <2>4
  <2>8. <<v.mlineno, v.begin>> = End(D)
    BY <1>2, <2>4, <2>5
  <2>9. Deleted(v, t0, new)
    BY <1>2, <1>3, <2>2, <2>4, <2>6, <2>7, <2>8 DEF Deleted
  <2> QED BY <2>4, <2>9 DEF v, new
<1>7. CASE s.x # u.begin /\ s.x = u.begin - 1
  <2> DEFINE y == c \o w
  <2>1. v = [u EXCEPT !.str = <<y>>, !.begin = s.x]
    BY <1>4, <1>5, <1>7 DEF GrownDeletion
  <2>2. /\ y \in Line /\ Len(y) = Len(c) + Len(w) /\ C \oplus (<<w>> \oplus G) = <<y>> \oplus G
    BY <1>2, <1>3, WordJoin
  <2> HIDE DEF y, v
  <2>3. <<y>> \in Seq(Line) /\ s.x \in Int
    BY <1>3, <2>2
  <2>4. /\ v \in Items /\ v.type = u.type /\ v.str = <<y>> /\ v.mx = u.mx /\ v.begin = s.x
        /\ v.lineno = u.lineno /\ v.mlineno = u.mlineno
    BY <2>1, <2>3 DEF Items
  <2>5. B = D \oplus C /\ F = G
    <3> DEFINE DC == D \oplus C
    <3>1. DC \in Texts
      BY <1>3, AttachIn
    <3>2. s.lines = DC \oplus G
      <4> HIDE DEF C
      <4> QED BY <1>3, AttachAssoc
    <3>3. End(DC) = End(B)
      <4>1. End(DC) = <<End(D)[1], End(D)[2] + Len(c)>>
        BY <1>3, WordEnd
      <4>2. End(D)[1] = s.cur /\ End(D)[2] = s.x
        BY <1>3
      <4>3. s.x + Len(c) = u.begin
        BY <1>3, <1>4, <1>7
      <4> QED BY <1>2, <4>1, <4>2, <4>3
    <3> HIDE DEF DC
    <3>4. DC = B /\ G = F
      <4>1. TextBefore(DC \oplus G, End(DC)) = DC /\ TextFrom(DC \oplus G, End(DC)) = G
        BY <1>3, <3>1, Parted
      <4>2. TextBefore(B \oplus F, End(B)) = B /\ TextFrom(B \oplus F, End(B)) = F
        BY Parted
      <4>3. DC \oplus G = B \oplus F
        BY <1>2, <3>2
      <4> QED BY <3>3, <4>1, <4>2, <4>3
    <3> QED BY <3>4 DEF DC
  <2>6. t0 = D \oplus (<<y>> \oplus G)
    <3> DEFINE W == <<w>>
    <3>1. W \in Texts /\ t0 = (D \oplus C) \oplus (W \oplus G) /\ C \oplus (W \oplus G) = <<y>> \oplus G
      BY <1>2, <2>2, <2>5, OneIn
    <3> HIDE DEF W, C
    <3>2. W \oplus G \in Texts
      BY <1>3, <3>1, AttachIn
    <3>3. (D \oplus C) \oplus (W \oplus G) = D \oplus (C \oplus (W \oplus G))
      BY <1>3, <3>2, AttachAssoc
    <3> QED BY <3>1, <3>3
  <2>7. v.mx \in v.begin..v.begin + Len(y)
    BY <1>2, <1>3, <1>4, <1>7, <2>2, <2>4
  <2>8. <<v.mlineno, v.begin>> = End(D)
    BY <1>2, <1>3, <2>4
  <2>9. Deleted(v, t0, new)
    BY <1>2, <1>3, <2>2, <2>4, <2>6, <2>7, <2>8 DEF Deleted
  <2> QED BY <2>4, <2>9 DEF v, new
<1> QED BY <1>6, <1>7

\* A change to the text new is on top of the stack.
Recorded(s, t, t0, new) ==
    \E v \in Items, r \in Seq(Items) :
      /\ t.items = <<v>> \o r /\ t.cu = 1 /\ t.last = v.type
      /\ \/ r = Below(s) /\ Records(v, s.lines, new)
         \/ s.cu = 1 /\ s.items # <<>> /\ r = Rest(s) /\ Records(v, t0, new)

LEMMA RecordedDoes ==
  ASSUME NEW s \in States, NEW t \in States, NEW t0,
         Recorded(s, t, t0, t.lines) /\ CursorIn(t) /\ Marks(t) /\ ~t.ub
  PROVE  Does(s, t, t0)
<1>1. PICK v \in Items, r \in Seq(Items) :
        /\ t.items = <<v>> \o r /\ t.cu = 1 /\ t.last = v.type
        /\ \/ r = Below(s) /\ Records(v, s.lines, t.lines)
           \/ s.cu = 1 /\ s.items # <<>> /\ r = Rest(s) /\ Records(v, t0, t.lines)
  BY DEF Recorded
<1>2. StackOK(t)
  BY <1>1, StackTop
<1>3. Begins(s, t) \/ GoesOn(s, t, t0)
  BY <1>1 DEF Begins, GoesOn
<1> QED BY <1>2, <1>3 DEF Does, Fine

\* A deletion that goes on with the last one is of the kind that it is.
LEMMA TopIs ==
  ASSUME NEW s \in States, StackOK(s) /\ s.last # "OTHER"
  PROVE  /\ s.cu = 1 /\ s.items # <<>> /\ s.items[1] \in Items /\ CurUndo(s) = s.items[1] /\ s.last = s.items[1].type
         /\ Rest(s) \in Seq(Items) /\ s.items = <<s.items[1]>> \o Rest(s) /\ s.cu \in 1..Len(s.items)
<1>1. s.cu = 1 /\ s.items # <<>> /\ s.last = s.items[1].type
  BY DEF StackOK
<1>2. s.items[1] \in Items /\ Len(s.items) \in Nat \ {0} /\ Rest(s) \in Seq(Items) /\ s.items = <<s.items[1]>> \o Rest(s)
  BY <1>1, RestIn
<1> QED BY <1>1, <1>2 DEF CurUndo

LEMMA DeletionRecorded ==
  ASSUME Retraceable, NEW s \in States, NEW action \in {"BACK", "DEL"}, NEW t0 \in Texts,
         Fine(s) /\ s.x < Len(CurLine(s)) /\ Since(s, t0)
  PROVE  LET t == UpdateUndo(s, action)
         IN  t \in States /\ Fields(s, t) /\ Recorded(s, t, t0, DeletedText(s))
<1> DEFINE t == UpdateUndo(s, action)
           a == AddUndo(s, action)
           new == DeletedText(s)
           u == s.items[1]
           v == GrownDeletion(s, u)
<1>1. NoNewlines /\ CursorIn(s) /\ StackOK(s) /\ s.cu \in 1..Len(s.items) + 1
  BY DEF Retraceable, Fine, StackOK
<1>2. CASE t = a
  <2>1. NewItem(s, action) \in Items /\ NewItem(s, action).type = action /\ Deleted(NewItem(s, action), s.lines, new)
    BY <1>1, DeletedFirst
  <2>2. FreshIs(s, action, a)
    <3>1. ~Contiguous(s, action)
      BY DEF Contiguous
    <3> QED BY <1>1, <2>1, <3>1, FreshAdded DEF Actions
  <2>3. Below(s) \in Seq(Items) /\ Records(NewItem(s, action), s.lines, new)
    BY <1>1, <2>1, BelowIn DEF Records
  <2> QED BY <1>2, <2>1, <2>2, <2>3 DEF FreshIs, Recorded
<1>3. CASE t # a
  <2>1. action = s.last /\ s.cur = CurUndo(s).lineno
    BY <1>3 DEF UpdateUndo
  <2>2. /\ s.cu = 1 /\ s.items # <<>> /\ u \in Items /\ CurUndo(s) = u /\ s.last = u.type
        /\ Rest(s) \in Seq(Items) /\ s.items = <<u>> \o Rest(s) /\ s.cu \in 1..Len(s.items)
    BY <1>1, <2>1, TopIs
  <2>3. u.lineno = s.cur /\ u.type = action
    BY <2>1, <2>2
  <2>4. s.x \in {u.begin, u.begin - 1} /\ t = [s EXCEPT !.items[1] = v]
    <3> HIDE DEF v
    <3> QED BY <1>3, <2>1, <2>2, <2>3 DEF UpdateUndo, v
  <2>5. Deleted(u, t0, s.lines)
    BY <2>2, <2>3 DEF Since, Records, Added, Joined, Broken, CutAway, Pasted
  <2>6. v \in Items /\ v.type = u.type /\ Deleted(v, t0, new)
    <3> HIDE DEF u
    <3> QED BY <1>1, <2>2, <2>3, <2>4, <2>5, DeletedNext
  <2> HIDE DEF v, t, u
  <2>7. PutTop(s, t, v, Rest(s))
    BY <2>2, <2>4, <2>6, TopPut
  <2> QED BY <2>2, <2>6, <2>7 DEF PutTop, Recorded, Records, t
<1> QED BY <1>2, <1>3

\* do_deletion.
LEMMA CharDoes ==
  ASSUME Retraceable, NEW s \in States, NEW action \in {"BACK", "DEL"}, NEW t0 \in Texts,
         Fine(s) /\ s.x < Len(CurLine(s)) /\ Since(s, t0)
  PROVE  Does(s, Deletion(s, action), t0)
<1> DEFINE new == DeletedText(s)
           z == Counted(s.size - 1)
           m == IF s.mark = NoMark THEN NoMark ELSE DeletedMark(s.mark, Cursor(s))
           repl == <<Prefix(CurLine(s), s.x) \o Suffix(CurLine(s), s.x + 1)>>
           s2 == UpdateUndo(s, action)
           onMark == s.mark # NoMark /\ s.mark[1] = s.cur /\ s.x < s.mark[2]
           t == [s2 EXCEPT !.lines = ReplaceLine(@, s.cur, repl),
                           !.mark = IF onMark THEN <<@[1], @[2] - 1>> ELSE @,
                           !.size = Counted(@ - 1), !.mod = TRUE]
<1>1. CursorIn(s) /\ Marks(s) /\ ~s.ub /\ NoNewlines /\ ~CountSize /\ s.cur \in Int /\ s.x \in Int
  BY DEF Fine, Retraceable, States
<1>2. DeletedTextIs(s)
  <2> DEFINE b == Bare(s)
  <2>1. /\ b \in States /\ Good(b) /\ b.lines = s.lines /\ Cursor(b) = Cursor(s) /\ Bef(b) = Bef(s)
        /\ CurLine(b) = CurLine(s) /\ b.mark = s.mark /\ b.cur = s.cur /\ b.x = s.x
    BY <1>1, BareGood
  <2> HIDE DEF b
  <2>2. DeletedTextIs(b)
    BY <2>1, DeletedTextDone
  <2>3. DeletedText(b) = DeletedText(s)
    BY <2>1 DEF DeletedText
  <2> QED BY <2>1, <2>2, <2>3 DEF DeletedTextIs
<1>3. s2 \in States /\ Fields(s, s2) /\ Recorded(s, s2, t0, new)
  BY DeletionRecorded
<1>4. Deletion(s, action) = t
  BY DEF Deletion
<1>5. (IF onMark THEN <<s.mark[1], s.mark[2] - 1>> ELSE s.mark) = m
  BY DEF DeletedMark, Cursor
<1> HIDE DEF s2, onMark, repl
<1>6. t = [s2 EXCEPT !.lines = ReplaceLine(s.lines, s.cur, repl),
                     !.mark = IF onMark THEN <<s.mark[1], s.mark[2] - 1>> ELSE s.mark,
                     !.size = z, !.mod = TRUE]
  BY <1>3 DEF Fields
<1>7. z \in Int
  <2>1. s.size - 1 \in Int
    BY DEF States
  <2> QED BY <2>1, CountedInt
<1>8. m \in {NoMark} \cup (Int \X Int)
  BY <1>2, PlaceInts DEF DeletedTextIs
<1>9. new \in Texts /\ ReplaceLine(s.lines, s.cur, repl) = new
  BY <1>2 DEF DeletedTextIs, repl
<1> HIDE DEF t, new, z, m
<1>10. t = Edits(s2, new, m, s.cur, s.x, z)
  BY <1>3, <1>5, <1>6, <1>9 DEF Edits, States, Fields
<1>11. EditedIs(s2, t, new, m, s.cur, s.x, z)
  BY <1>1, <1>3, <1>7, <1>8, <1>9, <1>10, Edited
<1>12. t \in States /\ t.lines = new /\ t.mark = m /\ t.items = s2.items /\ t.cu = s2.cu /\ t.last = s2.last
  BY <1>11 DEF EditedIs
<1>13. CursorIn(t)
  <2>1. Cursor(t) = Cursor(s)
    BY <1>11 DEF Cursor, EditedIs
  <2> QED BY <1>2, <1>12, <2>1, CursorPlace DEF InText, new, DeletedTextIs
<1>14. Marks(t) /\ ~t.ub
  BY <1>1, <1>2, <1>3, <1>11 DEF Marks, m, new, DeletedTextIs, EditedIs, Fields
<1>15. Recorded(s, t, t0, t.lines)
  BY <1>3, <1>12 DEF Recorded
<1>16. Does(s, t, t0)
  BY <1>12, <1>13, <1>14, <1>15, RecordedDoes
<1> QED BY <1>4, <1>16

LEMMA JoinedFirst ==
  ASSUME NEW s \in States, NEW action \in {"BACK", "DEL"},
         CursorIn(s) /\ s.x = Len(CurLine(s)) /\ s.cur < Len(s.lines)
  PROVE  /\ NewItem(s, action) \in Items /\ NewItem(s, action).type = "JOIN"
         /\ Joined(NewItem(s, action), s.lines, JoinedText(s))
<1> DEFINE u == NewItem(s, action)
           B == Bef(s)
           G == SubSeq(s.lines, s.cur + 1, Len(s.lines))
           n == Len(s.lines)
           k == s.cur + 1
<1>1. /\ AtCursor(s) /\ s.lines \in Texts /\ s.lines \in Lines /\ s.cur \in Nat \ {0} /\ s.x \in Nat /\ n \in Nat
      /\ s.cur \in 1..n
  BY CursorParts, CursorLine DEF States, CursorIn
<1>2. Aft(s) = Newline \oplus G /\ G \in Texts
  <2>1. LineEnd(s.lines, s.cur)
    BY <1>1, NextLine
  <2> QED BY <2>1 DEF LineEnd, Aft, Cursor, CurLine
<1>3. B \in Texts /\ s.lines = B \oplus (Newline \oplus G) /\ End(B) = <<s.cur, s.x>> /\ JoinedText(s) = B \oplus G
  BY <1>1, <1>2 DEF AtCursor, JoinedText
<1>4. G[1] = s.lines[k]
  <2>1. k \in Nat /\ k >= 1 /\ k <= n /\ n \in Nat
    BY <1>1
  <2>2. \A i \in k..n : s.lines[i] \in Line
    BY <1>1, <2>1, ElementOfSeq DEF Lines
  <2>3. G = SubSeq(s.lines, k, n)
    OBVIOUS
  <2> HIDE DEF k, n, G
  <2>4. \A i \in 1..n - k + 1 : SubSeq(s.lines, k, n)[i] = s.lines[k + i - 1]
    BY <1>1, <2>1, <2>2, SubSeqProperties DEF Lines, n
  <2>5. 1 \in 1..n - k + 1 /\ k + 1 - 1 = k
    BY <2>1
  <2> QED BY <2>3, <2>4, <2>5
<1>5. NewItemIs(s, action)
  BY NewItemMade DEF Actions
<1>6. u \in Items /\ u.type = "JOIN"
  BY <1>5 DEF NewItemIs
<1>7. /\ u.str = <<s.lines[k]>> /\ u.mlineno = s.cur /\ u.mx = s.x
      /\ <<u.lineno, u.begin>> = <<s.cur, s.x>> \/ <<u.lineno, u.begin>> = <<k, 0>>
  <2>1. u = DeletionItem(s, action)
    BY DEF NewItem
  <2> QED BY <2>1 DEF DeletionItem, BlankItem
<1> HIDE DEF u, B, G
<1>8. End(B \oplus Newline) = <<k, 0>>
  BY <1>3, NewlineEnd
<1> HIDE DEF k
<1>9. <<u.mlineno, u.mx>> = End(B)
      /\ (<<u.lineno, u.begin>> = End(B) \/ <<u.lineno, u.begin>> = End(B \oplus Newline))
  BY <1>3, <1>7, <1>8
<1>10. Joined(u, s.lines, JoinedText(s))
  BY <1>2, <1>3, <1>4, <1>6, <1>7, <1>9 DEF Joined
<1> QED BY <1>6, <1>10 DEF u

LEMMA LineDoes ==
  ASSUME Retraceable, NEW s \in States, NEW action \in {"BACK", "DEL"}, NEW t0,
         Fine(s) /\ s.x = Len(CurLine(s)) /\ s.cur < Len(s.lines)
  PROVE  Does(s, Deletion(s, action), t0)
<1> DEFINE new == JoinedText(s)
           z == Counted(s.size - 1)
           m == IF s.mark = NoMark THEN NoMark ELSE JoinedMark(s.mark, Cursor(s))
           line == CurLine(s)
           u == NewItem(s, action)
           s2 == AddUndo(s, action)
           t == [s2 EXCEPT !.lines = JoinLines(@, s.cur, line \o @[s.cur + 1]),
                           !.mark = MarkAfterJoin(@, s.cur, s.x, TRUE),
                           !.size = Counted(@ - 1), !.mod = TRUE]
<1>1. /\ CursorIn(s) /\ Marks(s) /\ ~s.ub /\ NoNewlines /\ ~CountSize /\ s.cur \in Int /\ s.x \in Int
      /\ s.cu \in 1..Len(s.items) + 1
  BY DEF Fine, Retraceable, States, StackOK
<1>2. JoinedTextIs(s)
  <2> DEFINE b == Bare(s)
  <2>1. /\ b \in States /\ Good(b) /\ b.lines = s.lines /\ Cursor(b) = Cursor(s) /\ Bef(b) = Bef(s)
        /\ CurLine(b) = CurLine(s) /\ b.mark = s.mark /\ b.cur = s.cur /\ b.x = s.x
    BY <1>1, BareGood
  <2> HIDE DEF b
  <2>2. JoinedTextIs(b)
    BY <2>1, JoinedTextDone
  <2>3. JoinedText(b) = JoinedText(s)
    BY <2>1 DEF JoinedText
  <2> QED BY <2>1, <2>2, <2>3 DEF JoinedTextIs
<1>3. u \in Items /\ u.type = "JOIN" /\ Joined(u, s.lines, new)
  BY <1>1, JoinedFirst
<1>4. FreshIs(s, action, s2)
  <2>1. ~Contiguous(s, action)
    BY DEF Contiguous
  <2> QED BY <1>1, <1>3, <2>1, FreshAdded DEF Actions
<1>5. s2 \in States /\ Fields(s, s2) /\ Recorded(s, s2, t0, new)
  <2>1. Below(s) \in Seq(Items)
    BY <1>1, BelowIn
  <2> QED BY <1>3, <1>4, <2>1 DEF FreshIs, Recorded, Records
<1>6. Deletion(s, action) = t
  <2>1. ~(s.x < Len(line))
    BY <1>1
  <2> HIDE DEF line
  <2> QED BY <1>1, <2>1 DEF Deletion, Magicline, line
<1>7. MarkAfterJoin(s.mark, s.cur, s.x, TRUE) = m
  <2>1. CASE s.mark = NoMark
    BY <2>1 DEF MarkAfterJoin
  <2>2. CASE s.mark # NoMark
    <3>1. s.mark[1] \in Int
      BY <2>2 DEF States
    <3> QED BY <1>1, <2>2, <3>1 DEF MarkAfterJoin, JoinedMark, Cursor
  <2> QED BY <2>1, <2>2
<1> HIDE DEF s2, u
<1>8. t = [s2 EXCEPT !.lines = JoinLines(s.lines, s.cur, line \o s.lines[s.cur + 1]),
                     !.mark = MarkAfterJoin(s.mark, s.cur, s.x, TRUE),
                     !.size = z, !.mod = TRUE]
  BY <1>5 DEF Fields
<1>9. z \in Int
  <2>1. s.size - 1 \in Int
    BY DEF States
  <2> QED BY <2>1, CountedInt
<1>10. m \in {NoMark} \cup (Int \X Int)
  BY <1>2, PlaceInts DEF JoinedTextIs
<1>11. new \in Texts /\ JoinLines(s.lines, s.cur, line \o s.lines[s.cur + 1]) = new
  BY <1>2 DEF JoinedTextIs
<1> HIDE DEF t, new, z, m, line
<1>12. t = Edits(s2, new, m, s.cur, s.x, z)
  BY <1>5, <1>7, <1>8, <1>11 DEF Edits, States, Fields
<1>13. EditedIs(s2, t, new, m, s.cur, s.x, z)
  BY <1>1, <1>5, <1>9, <1>10, <1>11, <1>12, Edited
<1>14. t \in States /\ t.lines = new /\ t.mark = m /\ t.items = s2.items /\ t.cu = s2.cu /\ t.last = s2.last
  BY <1>13 DEF EditedIs
<1>15. CursorIn(t)
  <2>1. Cursor(t) = Cursor(s)
    BY <1>13 DEF Cursor, EditedIs
  <2> QED BY <1>2, <1>14, <2>1, CursorPlace DEF InText, new, JoinedTextIs
<1>16. Marks(t) /\ ~t.ub
  BY <1>1, <1>2, <1>5, <1>13 DEF Marks, m, new, JoinedTextIs, EditedIs, Fields
<1>17. Recorded(s, t, t0, t.lines)
  BY <1>5, <1>14 DEF Recorded
<1>18. Does(s, t, t0)
  BY <1>14, <1>15, <1>16, <1>17, RecordedDoes
<1> QED BY <1>6, <1>18

LEMMA DeletionDoes ==
  ASSUME Retraceable, NEW s \in States, NEW action \in {"BACK", "DEL"}, NEW t0 \in Texts,
         Fine(s) /\ Since(s, t0)
  PROVE  Does(s, Deletion(s, action), t0)
<1>1. s.x \in Nat /\ Len(CurLine(s)) \in Nat /\ s.x <= Len(CurLine(s))
  BY CursorLine DEF Fine
<1>2. CASE s.x < Len(CurLine(s))
  BY <1>2, CharDoes
<1>3. CASE s.x = Len(CurLine(s)) /\ s.cur < Len(s.lines)
  BY <1>3, LineDoes
<1>4. CASE s.x = Len(CurLine(s)) /\ ~(s.cur < Len(s.lines))
  <2>1. Deletion(s, action) = s
    BY <1>1, <1>4 DEF Deletion
  <2> QED BY <2>1 DEF Does, Stays
<1> QED BY <1>1, <1>2, <1>3, <1>4

\* The cursor moves, to a position of the text.
LEMMA MovedFine ==
  ASSUME NEW s \in States, NEW p \in PositionsOf(s.lines), NEW t0, Fine(s)
  PROVE  LET t == [s EXCEPT !.cur = p[1], !.x = p[2]]
         IN  t \in States /\ Fine(t) /\ Stays(s, t) /\ (Since(s, t0) => Since(t, t0))
<1> DEFINE t == [s EXCEPT !.cur = p[1], !.x = p[2]]
<1>1. p = <<p[1], p[2]>> /\ p[1] \in 1..Len(s.lines) /\ p[2] \in 0..Len(s.lines[p[1]])
      /\ p[1] \in Int /\ p[2] \in Int
  <2>1. s.lines \in Texts
    BY DEF States
  <2> QED BY <2>1, PlaceIn, PlaceInts
<1>2. /\ t \in States /\ t.lines = s.lines /\ t.cur = p[1] /\ t.x = p[2] /\ t.mark = s.mark /\ t.ub = s.ub
      /\ t.items = s.items /\ t.cu = s.cu /\ t.last = s.last
  BY <1>1 DEF States
<1> HIDE DEF t
<1>3. Fine(t) /\ Stays(s, t)
  BY <1>1, <1>2 DEF Fine, CursorIn, Marks, StackOK, Stays
<1>4. Since(s, t0) => Since(t, t0)
  BY <1>2 DEF Since
<1> QED BY <1>2, <1>3, <1>4 DEF t

\* What is done from where the cursor moved to is done from where it was.
LEMMA FromThere ==
  ASSUME NEW s, NEW a, NEW t, NEW t0, Stays(s, a) /\ Does(a, t, t0)
  PROVE  Does(s, t, t0)
<1>1. a.lines = s.lines /\ a.items = s.items /\ a.cu = s.cu /\ Below(a) = Below(s) /\ Rest(a) = Rest(s)
  BY DEF Stays, Below, Rest
<1>2. Begins(a, t) => Begins(s, t)
  BY <1>1 DEF Begins
<1>3. GoesOn(a, t, t0) => GoesOn(s, t, t0)
  BY <1>1 DEF GoesOn
<1>4. Stays(a, t) => Stays(s, t)
  BY <1>1 DEF Stays
<1> QED BY <1>2, <1>3, <1>4 DEF Does

LEMMA BackspaceDoes ==
  ASSUME Retraceable, NEW s \in States, NEW t0 \in Texts, Fine(s) /\ Since(s, t0)
  PROVE  Does(s, Backspace(s), t0)
<1> DEFINE p == Cursor(Left(s))
           a == [s EXCEPT !.cur = p[1], !.x = p[2]]
<1>1. p \in PositionsOf(s.lines) /\ Left(s) = a
  BY LeftIn DEF Fine
<1> HIDE DEF p
<1>2. a \in States /\ Fine(a) /\ Stays(s, a) /\ (Since(s, t0) => Since(a, t0))
  BY <1>1, MovedFine
<1> HIDE DEF a
<1>3. Does(a, Deletion(a, "BACK"), t0)
  BY <1>2, DeletionDoes
<1>4. Does(s, Deletion(a, "BACK"), t0)
  BY <1>2, <1>3, FromThere
<1>5. CASE s.cur > 1 \/ s.x > 0
  BY <1>1, <1>4, <1>5 DEF Backspace
<1>6. CASE ~(s.cur > 1 \/ s.x > 0)
  <2>1. Backspace(s) = s
    BY <1>6 DEF Backspace
  <2> QED BY <2>1 DEF Does, Stays
<1> QED BY <1>5, <1>6

-----------------------------------------------------------------------------
(* Cutting.                                                                *)

\* do_cut_text, exactly.
CutTakes(a, tillEof, t, B, R, F) ==
    /\ a.lines = B \oplus (R \oplus F) /\ CutRegion(a, tillEof) = <<End(B), End(B \oplus R)>>
    /\ End(B) # End(B \oplus R)
    /\ t \in States /\ t.lines = B \oplus F /\ <<t.cur, t.x>> = End(B) /\ CursorIn(t) /\ Marks(t) /\ ~t.ub
    /\ t.items = a.items /\ t.cu = a.cu /\ t.last = a.last /\ t.session = a.session /\ t.keep
    /\ tillEof \/ t.mark = NoMark
    /\ t.cutbuf = IF a.keep /\ a.cutbuf # NULL THEN a.cutbuf \oplus R ELSE R

LEMMA CutTaken ==
  ASSUME NoNewlines, NEW a \in States, NEW tillEof \in BOOLEAN,
         Sound(a) /\ ~CutsNothing(a, tillEof)
  PROVE  \E B, R, F \in Texts : CutTakes(a, tillEof, CutOut(a, tillEof, NoNewlines), B, R, F)
<1> DEFINE r == CutRegion(a, tillEof)
           p == r[1]
           q == r[2]
           t == CutOut(a, tillEof, NoNewlines)
           buf == IF a.keep THEN a.cutbuf ELSE NULL
           s2 == [a EXCEPT !.cutbuf = buf, !.keep = TRUE]
           cut == Region(a.lines, p, q)
           mv == MoveToCutbuffer(s2, p, q, NoNewlines)
<1>1. a.lines \in Texts /\ a.cutbuf \in Seq(Line) /\ NULL \in Seq(Line) /\ NoNewlines \in BOOLEAN
  BY UnitIn, EditorAssumption DEF States, NULL, Lines
<1>2. RegionIs(a, tillEof)
  BY RegionOrder DEF Sound
<1>3. CutOutIs(a, tillEof, NoNewlines)
  BY <1>1, CutOutDone
<1>4. p # q
  BY DEF CutsNothing
<1>5. r = <<p, q>>
  BY DEF CutRegion
<1>6. p \in PositionsOf(a.lines) /\ q \in PositionsOf(a.lines) /\ ~Before(q, p)
  BY <1>2 DEF RegionIs
<1>7. /\ t \in States /\ Sound(t) /\ t.items = a.items /\ t.cu = a.cu /\ t.last = a.last /\ t.session = a.session
      /\ t.keep = TRUE /\ (tillEof \/ t.mark = NoMark) /\ t.cur = p[1] /\ t.x = p[2]
      /\ t.lines = Without(a.lines, p, q)
  BY <1>3, <1>4 DEF CutOutIs
<1>8. t = IF tillEof THEN mv ELSE [mv EXCEPT !.mark = NoMark]
  <2>1. [a EXCEPT !.cutbuf = IF a.keep THEN @ ELSE NULL, !.keep = TRUE] = s2
    BY DEF States
  <2> HIDE DEF s2
  <2> QED BY <2>1 DEF CutOut
<1> HIDE DEF buf
<1>9. s2.lines = a.lines /\ s2.cutbuf = buf
  BY DEF States
<1>10. /\ s2.size = a.size /\ s2.cur = a.cur /\ s2.x = a.x /\ s2.mark = a.mark
       /\ DOMAIN s2 = DOMAIN a
  BY DEF States
<1> HIDE DEF s2, p, q, r, cut, mv, t
<1>11. t.cutbuf = IF buf = NULL THEN cut ELSE buf \oplus cut
  <2> DEFINE e == [s2 EXCEPT
                 !.lines  = Without(s2.lines, p, q),
                 !.size   = Counted(@ - TotSize(cut)),
                 !.cutbuf = IF @ = NULL THEN cut ELSE Attach(@, cut),
                 !.cur    = p[1],
                 !.x      = p[2],
                 !.sameline = FALSE,
                 !.mark   = MarkAfterRemoval(@, p, q)]
  <2>1. mv = Magicline(e, NoNewlines)
    BY <1>4, <1>6, <1>9 DEF MoveToCutbuffer, mv, InText, cut
  <2>2. mv = e
    <3> HIDE DEF e
    <3> QED BY <2>1 DEF Magicline
  <2>3. "cutbuf" \in DOMAIN s2
    BY <1>10 DEF States
  <2>4. e.cutbuf = IF buf = NULL THEN cut ELSE Attach(buf, cut)
    BY <1>9, <2>3
  <2> HIDE DEF e
  <2>5. t.cutbuf = mv.cutbuf
    <3>1. CASE tillEof
      BY <1>8, <3>1
    <3>2. CASE ~tillEof
      BY <1>8, <3>2, <1>7 DEF States
    <3> QED BY <3>1, <3>2
  <2> QED BY <2>2, <2>4, <2>5 DEF \oplus
<1>12. PICK B, G \in Texts : a.lines = B \oplus G /\ End(B) = p
  BY <1>1, <1>6, Parts
<1>13. PICK R, F \in Texts : G = R \oplus F /\ q = EndOf(End(B), R)
  BY <1>6, <1>12, Beyond
<1>14. q = End(B \oplus R)
  BY <1>13, EndPlus
<1>15. CutIs(B, R, F)
  BY Cutting
<1>16. cut = R /\ Without(a.lines, p, q) = B \oplus F
  BY <1>12, <1>13, <1>14, <1>15 DEF CutIs, cut
<1>17. R \in Texts /\ (buf = NULL <=> ~(a.keep /\ a.cutbuf # NULL)) /\ (a.keep => buf = a.cutbuf)
  BY DEF buf
<1>18. t.cutbuf = IF a.keep /\ a.cutbuf # NULL THEN a.cutbuf \oplus R ELSE R
  BY <1>11, <1>16, <1>17
<1>19. <<t.cur, t.x>> = End(B)
  <2>1. p = <<p[1], p[2]>>
    BY <1>1, <1>6, PlaceInts
  <2> QED BY <1>7, <1>12, <2>1
<1>20. CutRegion(a, tillEof) = <<End(B), End(B \oplus R)>> /\ End(B) # End(B \oplus R)
  BY <1>4, <1>5, <1>12, <1>14 DEF r
<1>21. CutTakes(a, tillEof, t, B, R, F)
  BY <1>7, <1>12, <1>13, <1>16, <1>18, <1>19, <1>20 DEF CutTakes, Sound
<1> QED BY <1>21 DEF t

\* What update_undo makes of the item of a cut.
CutItemGrown(v, u, B, R) ==
    /\ v \in Items /\ v.type = u.type /\ v.buf = R /\ v.xflags # "WAS_WHOLE_LINE"
    /\ <<v.mlineno, v.mx>> = End(B) /\ <<v.lineno, v.begin>> = End(B \oplus R)

LEMMA GrownUnmarked ==
  ASSUME CutToEnd, NEW t \in States, NEW u \in Items, NEW B \in Texts, NEW R \in Texts,
         /\ t.cutbuf = R /\ ~u.mset /\ u.xflags # "WAS_WHOLE_LINE" /\ <<u.mlineno, u.mx>> = End(B)
  PROVE  CutItemGrown(GrownCut(t, u), u, B, R) /\ GrownCut(t, u).mset = u.mset
<1> DEFINE v == GrownCut(t, u)
           n == Len(R)
           bottom == u.mlineno + n - 1
           k == Len(R[n]) + (IF bottom = u.mlineno THEN u.mx ELSE 0)
           w == [u EXCEPT !.buf = R]
<1>1. R # NULL /\ R \in Seq(Line) /\ n \in Nat \ {0} /\ Len(R[n]) \in Nat
  BY EndIn DEF Texts, NULL
<1>2. u.mlineno \in Nat /\ u.mx \in Nat
  BY EndPair
<1>3. /\ w \in Items /\ w.type = u.type /\ w.buf = R /\ w.xflags = u.xflags /\ w.mlineno = u.mlineno /\ w.mx = u.mx
      /\ w.mset = u.mset
  BY <1>1 DEF Items
<1>4. v = [w EXCEPT !.lineno = bottom, !.begin = k]
  BY <1>1 DEF GrownCut
<1>5. bottom \in Int /\ k \in Int
  <2>1. bottom \in Int
    BY <1>1, <1>2
  <2> HIDE DEF bottom, n
  <2> QED BY <1>1, <1>2, <2>1 DEF n
<1>6. <<bottom, k>> = EndOf(End(B), R)
  <2>1. End(B)[1] = u.mlineno /\ End(B)[2] = u.mx
    BY <1>2, EndPair
  <2>2. CASE n = 1
    <3>1. bottom = u.mlineno /\ R[n] = R[1]
      BY <1>2, <2>2
    <3>2. EndOf(End(B), R) = <<u.mlineno, u.mx + Len(R[1])>>
      BY <2>1, <2>2 DEF EndOf
    <3> HIDE DEF bottom, n
    <3>3. k = u.mx + Len(R[1])
      BY <1>1, <1>2, <3>1
    <3> QED BY <3>1, <3>2, <3>3
  <2>3. CASE n > 1
    <3>1. bottom # u.mlineno
      BY <1>1, <1>2, <2>3
    <3>2. EndOf(End(B), R) = <<u.mlineno + n - 1, Len(R[n])>>
      BY <1>1, <2>1, <2>3 DEF EndOf
    <3>3. k = Len(R[n])
      <4> HIDE DEF bottom, n
      <4> QED BY <1>1, <3>1
    <3> QED BY <3>2, <3>3
  <2> HIDE DEF n, bottom, k
  <2>4. n = 1 \/ n > 1
    BY <1>1
  <2> QED BY <2>2, <2>3, <2>4
<1> HIDE DEF v, w, bottom, k, n
<1>7. /\ v \in Items /\ v.type = w.type /\ v.buf = R /\ v.xflags = w.xflags /\ v.mlineno = w.mlineno /\ v.mx = w.mx
      /\ v.mset = w.mset /\ v.lineno = bottom /\ v.begin = k
  BY <1>3, <1>4, <1>5 DEF Items
<1>8. <<v.lineno, v.begin>> = End(B \oplus R)
  BY <1>6, <1>7, EndPlus
<1> QED BY <1>3, <1>7, <1>8 DEF CutItemGrown, v

LEMMA GrownMarked ==
  ASSUME NEW t \in States, NEW u \in Items, NEW B \in Texts, NEW R \in Texts,
         NEW m \in Int \X Int, NEW c \in Int \X Int,
         /\ t.cutbuf = R /\ u.mset /\ u.xflags # "WAS_WHOLE_LINE" /\ <<u.mlineno, u.mx>> = m /\ <<u.lineno, u.begin>> = c
         /\ <<End(B), End(B \oplus R)>> = IF Before(m, c) THEN <<m, c>> ELSE <<c, m>>
         /\ m # c
  PROVE  CutItemGrown(GrownCut(t, u), u, B, R)
<1> DEFINE v == GrownCut(t, u)
           w == [u EXCEPT !.buf = R]
           x == End(B)
           y == End(B \oplus R)
<1>1. R # NULL /\ R \in Seq(Line)
  BY DEF Texts, NULL
<1>2. /\ w \in Items /\ w.type = u.type /\ w.buf = R /\ w.xflags = u.xflags /\ w.mlineno = u.mlineno /\ w.mx = u.mx
      /\ w.lineno = u.lineno /\ w.begin = u.begin
      /\ u.mlineno \in Int /\ u.mx \in Int /\ u.lineno \in Int /\ u.begin \in Int
  BY <1>1 DEF Items
<1>3. <<u.lineno, u.begin>> = c /\ <<u.mlineno, u.mx>> = m
  OBVIOUS
<1>4. v = IF Before(c, m) THEN [w EXCEPT !.lineno = u.mlineno, !.begin = u.mx, !.mlineno = u.lineno, !.mx = u.begin]
                          ELSE [w EXCEPT !.xflags = "WAS_MARKED_FORWARD"]
  BY <1>1, <1>3 DEF GrownCut
<1>5. <<x, y>> = IF Before(m, c) THEN <<m, c>> ELSE <<c, m>>
  OBVIOUS
<1> HIDE DEF v, w, x, y
<1>6. CASE Before(c, m)
  <2>1. ~Before(m, c)
    BY <1>6, BeforeOrder
  <2>2. x = c /\ y = m
    BY <1>5, <2>1
  <2>3. v = [w EXCEPT !.lineno = u.mlineno, !.begin = u.mx, !.mlineno = u.lineno, !.mx = u.begin]
    BY <1>4, <1>6
  <2>4. /\ v \in Items /\ v.type = u.type /\ v.buf = R /\ v.xflags = u.xflags
        /\ v.mlineno = u.lineno /\ v.mx = u.begin /\ v.lineno = u.mlineno /\ v.begin = u.mx
    BY <1>2, <2>3 DEF Items
  <2>5. <<v.mlineno, v.mx>> = x /\ <<v.lineno, v.begin>> = y
    BY <1>3, <2>2, <2>4
  <2> QED BY <2>4, <2>5 DEF CutItemGrown, v, x, y
<1>7. CASE ~Before(c, m)
  <2>1. Before(m, c)
    BY <1>7, BeforeOrder
  <2>2. x = m /\ y = c
    BY <1>5, <2>1
  <2>3. v = [w EXCEPT !.xflags = "WAS_MARKED_FORWARD"]
    BY <1>4, <1>7
  <2>4. /\ v \in Items /\ v.type = u.type /\ v.buf = R /\ v.xflags = "WAS_MARKED_FORWARD"
        /\ v.mlineno = u.mlineno /\ v.mx = u.mx /\ v.lineno = u.lineno /\ v.begin = u.begin
    BY <1>2, <2>3 DEF Items, XFlags
  <2>5. <<v.mlineno, v.mx>> = x /\ <<v.lineno, v.begin>> = y
    BY <1>3, <2>2, <2>4
  <2> QED BY <2>4, <2>5 DEF CutItemGrown, v, x, y
<1> QED BY <1>6, <1>7

CutAction(tillEof) == IF tillEof THEN "CUT_EOF" ELSE "CUT"
CutFirstIs(s, tillEof, u) ==
    /\ u \in Items /\ u.type = CutAction(tillEof) /\ u.xflags = "NONE"
    /\ u.mset \in BOOLEAN /\ (u.mset <=> ~tillEof /\ s.mark # NoMark)
    /\ <<u.lineno, u.begin>> = Cursor(s)
    /\ <<u.mlineno, u.mx>> = IF u.mset THEN s.mark ELSE Cursor(s)

LEMMA CutFirst ==
  ASSUME CutToEnd, NEW s \in States, NEW tillEof \in BOOLEAN, CursorIn(s)
  PROVE  CutFirstIs(s, tillEof, NewItem(s, CutAction(tillEof)))
<1> DEFINE a == CutAction(tillEof)
           b == BlankItem(s, a)
           u == NewItem(s, a)
<1>1. a \in {"CUT", "CUT_EOF"}
  BY DEF CutAction
<1>2. b \in Items /\ b.type = a
  <2> HIDE DEF a
  <2>1. a \in {"ADD", "ENTER", "CUT", "CUT_EOF"}
    BY <1>1
  <2> QED BY <2>1, BlankIn
<1>3. /\ b.lineno = s.cur /\ b.begin = s.x /\ b.mlineno = s.cur /\ b.mx = s.x /\ b.mset = FALSE /\ b.xflags = "NONE"
  BY DEF BlankItem
<1>4. CASE tillEof
  <2>1. u = b
    BY <1>4 DEF CutAction, NewItem
  <2> HIDE DEF u, b, a
  <2> QED BY <1>2, <1>3, <1>4, <2>1 DEF CutFirstIs, Cursor, u, a
<1>5. CASE ~tillEof /\ s.mark = NoMark
  <2>1. u = b
    BY <1>5 DEF CutAction, NewItem, CutItem
  <2> HIDE DEF u, b, a
  <2> QED BY <1>2, <1>3, <1>5, <2>1 DEF CutFirstIs, Cursor, u, a
<1>6. CASE ~tillEof /\ s.mark # NoMark
  <2>1. s.mark[1] \in Int /\ s.mark[2] \in Int /\ s.mark = <<s.mark[1], s.mark[2]>>
    BY <1>6 DEF States
  <2>2. u = [b EXCEPT !.mset = TRUE, !.mlineno = s.mark[1], !.mx = s.mark[2]]
    BY <1>6 DEF CutAction, NewItem, CutItem
  <2> HIDE DEF u, b, a
  <2>3. /\ u \in Items /\ u.type = b.type /\ u.xflags = b.xflags /\ u.mset = TRUE /\ u.lineno = b.lineno
        /\ u.begin = b.begin /\ u.mlineno = s.mark[1] /\ u.mx = s.mark[2]
    BY <1>2, <2>1, <2>2 DEF Items
  <2> QED BY <1>2, <1>3, <1>6, <2>1, <2>3 DEF CutFirstIs, Cursor, u, a
<1> QED BY <1>4, <1>5, <1>6

\* The item a cut is recorded in: one of its own, or that of the cut it goes on with.
CutFresh(s, s1, tillEof, u, r) ==
    /\ r = Below(s) /\ ~s1.keep /\ CutFirstIs(s, tillEof, u)
CutMore(s, s1, tillEof, u, r, t0) ==
    /\ s.cu = 1 /\ s.items # <<>> /\ r = Rest(s) /\ ~tillEof /\ s.mark = NoMark /\ s1.keep
    /\ CutAway(u, t0, s.lines) /\ ~u.mset /\ u.type = "CUT"
    /\ u.mlineno = s.cur /\ u.mx = s.x /\ u.buf = s.cutbuf
CutTop(s, s1, tillEof, u, r, t0) ==
    /\ s1 \in States /\ Fields(s, s1) /\ Sound(s1)
    /\ u \in Items /\ r \in Seq(Items)
    /\ s1.items = <<u>> \o r /\ s1.cu = 1 /\ s1.last = u.type /\ u.type = CutAction(tillEof)
    /\ CutFresh(s, s1, tillEof, u, r) \/ CutMore(s, s1, tillEof, u, r, t0)

LEMMA CutRecorded ==
  ASSUME Retraceable, NEW s \in States, NEW tillEof \in BOOLEAN, NEW t0 \in Texts,
         Fine(s) /\ Collects(s) /\ Since(s, t0) /\ (~tillEof => ~CutsAfterCopy(s))
  PROVE  \E u, r : CutTop(s, AddUndo(s, CutAction(tillEof)), tillEof, u, r, t0)
<1> DEFINE a == CutAction(tillEof)
           s1 == AddUndo(s, a)
<1>1. /\ NoNewlines /\ CutToEnd /\ CursorIn(s) /\ StackOK(s) /\ s.cu \in 1..Len(s.items) + 1 /\ a \in {"CUT", "CUT_EOF"}
      /\ Sound(s)
  BY DEF Retraceable, Fine, StackOK, CutAction, Sound, Sizes
<1>2. CASE ~Contiguous(s, a)
  <2> DEFINE u == NewItem(s, a)
             r == Below(s)
  <2>1. CutFirstIs(s, tillEof, u)
    BY <1>1, CutFirst
  <2>2. FreshIs(s, a, s1)
    <3>1. u \in Items /\ a \in Actions
      BY <1>1, <2>1 DEF CutFirstIs, Actions
    <3> HIDE DEF a
    <3> QED BY <1>1, <1>2, <3>1, FreshAdded
  <2>3. r \in Seq(Items)
    BY <1>1, BelowIn
  <2>4. s1 \in States /\ Fields(s, s1) /\ s1.items = <<u>> \o r /\ s1.cu = 1 /\ s1.last = u.type /\ ~s1.keep
        /\ SameText(s, s1)
    BY <1>1, <2>2 DEF FreshIs
  <2>5. Sound(s1)
    BY <1>1, <2>4, SoundSame
  <2> HIDE DEF u, s1, r
  <2>6. CutFresh(s, s1, tillEof, u, r)
    BY <2>1, <2>4 DEF CutFresh, r
  <2>7. CutTop(s, s1, tillEof, u, r, t0)
    BY <2>1, <2>3, <2>4, <2>5, <2>6 DEF CutTop, CutFirstIs
  <2> QED BY <2>7 DEF s1
<1>3. CASE Contiguous(s, a)
  <2> DEFINE u == s.items[1]
             r == Rest(s)
  <2>1. s1 = s
    BY <1>3 DEF AddUndo
  <2>2. /\ HasUndo(s) /\ CurUndo(s).mlineno = s.cur /\ CurUndo(s).type = "CUT" /\ ~CurUndo(s).mset /\ s.keep
        /\ a = "CUT"
    BY <1>1, <1>3 DEF Contiguous
  <2>3. ~tillEof /\ ~CutsAfterCopy(s) /\ Contiguous(s, "CUT")
    BY <1>3, <2>2 DEF CutAction
  <2>4. s.last = "CUT" /\ s.cutbuf = CurUndo(s).buf /\ s.x = CurUndo(s).mx
    BY <1>1, <2>3 DEF CutsAfterCopy
  <2>5. /\ s.cu = 1 /\ s.items # <<>> /\ u \in Items /\ CurUndo(s) = u /\ s.last = u.type
        /\ r \in Seq(Items) /\ s.items = <<u>> \o r /\ s.cu \in 1..Len(s.items)
    BY <1>1, <2>4, TopIs
  <2>6. s.mark = NoMark
    BY <2>2, <2>4, <2>5 DEF Collects
  <2>7. CutAway(u, t0, s.lines)
    BY <2>4, <2>5 DEF Since, Records, Added, Deleted, Joined, Broken, Pasted
  <2>8. Fields(s, s)
    BY DEF Fields
  <2> HIDE DEF u, s1, r
  <2>9. CutMore(s, s1, tillEof, u, r, t0)
    BY <2>1, <2>2, <2>3, <2>4, <2>5, <2>6, <2>7 DEF CutMore, r
  <2>10. CutTop(s, s1, tillEof, u, r, t0)
    BY <1>1, <2>1, <2>2, <2>4, <2>5, <2>8, <2>9 DEF CutTop
  <2> QED BY <2>10 DEF s1
<1> QED BY <1>2, <1>3

\* The item of a cut, grown by what was taken.
CutGrownTo(s, v, u, r, t0, new) ==
    /\ v \in Items /\ v.type = u.type
    /\ \/ r = Below(s) /\ CutAway(v, s.lines, new)
       \/ s.cu = 1 /\ s.items # <<>> /\ r = Rest(s) /\ CutAway(v, t0, new)

LEMMA CutStart ==
  ASSUME CutToEnd
  PROVE  \A s \in States : \A tillEof \in BOOLEAN :
           /\ tillEof \/ s.mark = NoMark => CutRegion(s, tillEof)[1] = Cursor(s)
           /\ ~tillEof /\ s.mark # NoMark =>
                CutRegion(s, tillEof) = IF Before(s.mark, Cursor(s)) THEN <<s.mark, Cursor(s)>> ELSE <<Cursor(s), s.mark>>
BY DEF CutRegion

LEMMA CutGrows ==
  ASSUME Retraceable, NEW s \in States, NEW s1 \in States, NEW t \in States, NEW t2 \in States,
         NEW tillEof \in BOOLEAN, NEW u, NEW r, NEW t0 \in Texts, NEW B \in Texts,
         NEW R \in Texts, NEW F \in Texts,
         /\ CursorIn(s) /\ CutTop(s, s1, tillEof, u, r, t0) /\ CutTakes(s1, tillEof, t, B, R, F) /\ t2.cutbuf = t.cutbuf
  PROVE  CutGrownTo(s, GrownCut(t2, u), u, r, t0, B \oplus F)
<1> DEFINE v == GrownCut(t2, u)
           new == B \oplus F
           g == CutRegion(s1, tillEof)
           x == End(B)
           y == End(B \oplus R)
<1>1. CutToEnd /\ u \in Items /\ u.type = CutAction(tillEof) /\ r \in Seq(Items)
  BY DEF Retraceable, CutTop
<1>2. s1.lines = s.lines /\ s1.mark = s.mark /\ Cursor(s1) = Cursor(s) /\ s1.cutbuf = s.cutbuf
  BY DEF CutTop, Fields, Cursor
<1>3. s.lines = B \oplus (R \oplus F) /\ g = <<x, y>> /\ x # y /\ g[1] = x
      /\ t2.cutbuf = IF s1.keep /\ s.cutbuf # NULL THEN s.cutbuf \oplus R ELSE R
  BY <1>2 DEF CutTakes
<1>4. R # NULL /\ R \oplus F \in Texts
  BY AttachIn DEF Texts, NULL
<1>5. tillEof \/ s.mark = NoMark => g[1] = Cursor(s)
  BY <1>1, <1>2, CutStart
<1> HIDE DEF v
<1>6. CASE CutFresh(s, s1, tillEof, u, r)
  <2>1. r = Below(s) /\ t2.cutbuf = R /\ CutFirstIs(s, tillEof, u)
    BY <1>3, <1>6 DEF CutFresh
  <2>2. CutItemGrown(v, u, B, R)
    <3>1. CASE ~u.mset
      BY <2>1, <3>1, <1>3, <1>5, <1>1, GrownUnmarked DEF CutFirstIs, v
    <3>2. CASE u.mset
      <4> DEFINE m == s.mark
                 c == Cursor(s)
      <4>1. ~tillEof /\ m # NoMark /\ u.xflags # "WAS_WHOLE_LINE" /\ <<u.lineno, u.begin>> = c /\ <<u.mlineno, u.mx>> = m
        BY <2>1, <3>2 DEF CutFirstIs
      <4>2. g = IF Before(m, c) THEN <<m, c>> ELSE <<c, m>>
        BY <1>1, <1>2, <4>1, CutStart
      <4>3. m \in Int \X Int /\ c \in Int \X Int
        BY <4>1 DEF States, Cursor
      <4> HIDE DEF m, c, g
      <4>4. <<x, y>> = IF Before(m, c) THEN <<m, c>> ELSE <<c, m>>
        BY <1>3, <4>2
      <4>5. m # c
        <5> HIDE DEF x, y
        <5> QED BY <1>3, <4>4
      <4> QED BY <1>1, <2>1, <3>2, <4>1, <4>3, <4>4, <4>5, GrownMarked DEF v
    <3> QED BY <3>1, <3>2
  <2>3. CutAway(v, s.lines, new)
    BY <1>1, <1>3, <2>2 DEF CutItemGrown, CutAway, CutAction
  <2> QED BY <2>1, <2>2, <2>3 DEF CutGrownTo, CutItemGrown, v
<1>7. CASE CutMore(s, s1, tillEof, u, r, t0)
  <2>1. PICK D, Q, G \in Texts :
          /\ u.buf = Q /\ u.xflags # "WAS_WHOLE_LINE"
          /\ t0 = D \oplus (Q \oplus G) /\ s.lines = D \oplus G
          /\ <<u.mlineno, u.mx>> = End(D)
    BY <1>7 DEF CutMore, CutAway
  <2>2. Cursor(s) = x /\ Cursor(s) = End(D)
    BY <1>3, <1>5, <1>7, <2>1 DEF CutMore, Cursor
  <2>3. D = B /\ G = R \oplus F
    <3> DEFINE RF == R \oplus F
    <3>1. RF \in Texts /\ s.lines = B \oplus RF
      BY <1>3, <1>4
    <3> HIDE DEF RF
    <3>2. TextBefore(B \oplus RF, End(B)) = B /\ TextFrom(B \oplus RF, End(B)) = RF
      BY <3>1, Parted
    <3>3. TextBefore(D \oplus G, End(D)) = D /\ TextFrom(D \oplus G, End(D)) = G
      BY Parted
    <3> QED BY <2>1, <2>2, <3>1, <3>2, <3>3 DEF RF
  <2> DEFINE QR == Q \oplus R
  <2>4. QR \in Texts /\ t0 = D \oplus (QR \oplus F)
    BY <2>1, <2>3, AttachIn, AttachAssoc
  <2>5. t2.cutbuf = QR
    <3>1. Q # NULL
      BY DEF Texts, NULL
    <3> QED BY <1>3, <1>7, <2>1, <3>1 DEF CutMore
  <2> HIDE DEF QR
  <2>6. CutItemGrown(v, u, D, QR)
    BY <1>1, <1>7, <2>1, <2>4, <2>5, GrownUnmarked DEF CutMore, v
  <2>7. CutAway(v, t0, new)
    BY <1>1, <2>3, <2>4, <2>6 DEF CutItemGrown, CutAway, CutAction
  <2> QED BY <1>7, <2>6, <2>7 DEF CutGrownTo, CutItemGrown, CutMore, v
<1> QED BY <1>6, <1>7 DEF CutTop

LEMMA TopCut ==
  ASSUME NEW s \in States, NEW action \in {"CUT", "CUT_EOF"},
         s.items[1].type = action /\ s.last = action /\ (action = "CUT_EOF" => s.cur = CurUndo(s).lineno)
  PROVE  UpdateUndo(s, action) = [s EXCEPT !.items[1] = GrownCut(s, s.items[1])]
<1> DEFINE u == s.items[1]
<1>1. u.type = action
  OBVIOUS
<1> HIDE DEF u
<1>2. UpdateUndo(s, action) = [s EXCEPT !.items[1] = GrownCut(s, u)]
  BY <1>1 DEF UpdateUndo, u
<1> QED BY <1>2 DEF u

\* do_cut_text.
LEMMA CutDoes ==
  ASSUME Retraceable, NEW s \in States, NEW tillEof \in BOOLEAN, NEW t0 \in Texts,
         /\ Fine(s) /\ Collects(s) /\ Since(s, t0)
         /\ ~CutsNothing(s, tillEof) /\ (~tillEof => ~CutsAfterCopy(s))
  PROVE  LET t == CutText(AddUndo(s, CutAction(tillEof)), tillEof) IN Does(s, t, t0) /\ Collects(t)
<1> DEFINE a == CutAction(tillEof)
           s1 == AddUndo(s, a)
           c == CutOut(s1, tillEof, NoNewlines)
           c1 == [c EXCEPT !.mod = TRUE]
           t == UpdateUndo(c1, a)
<1>1. NoNewlines /\ a \in {"CUT", "CUT_EOF"} /\ (a = "CUT_EOF" <=> tillEof) /\ CursorIn(s) /\ CutToEnd
  BY DEF Retraceable, CutAction, Fine
<1>2. PICK u, r : CutTop(s, s1, tillEof, u, r, t0)
  BY CutRecorded
<1>3. /\ s1 \in States /\ Fields(s, s1) /\ Sound(s1) /\ u \in Items /\ r \in Seq(Items)
      /\ s1.items = <<u>> \o r /\ s1.cu = 1 /\ s1.last = a /\ u.type = a
  BY <1>2 DEF CutTop
<1> HIDE DEF s1
<1>4. CutsNothing(s1, tillEof) <=> CutsNothing(s, tillEof)
  BY <1>3 DEF Fields, Cursor, CurLine, CutRegion, CutsNothing
<1>5. PICK B, R, F \in Texts : CutTakes(s1, tillEof, c, B, R, F)
  BY <1>1, <1>3, <1>4, CutTaken
<1> HIDE DEF c
<1>6. /\ c \in States /\ c.lines = B \oplus F /\ <<c.cur, c.x>> = End(B) /\ CursorIn(c) /\ Marks(c) /\ ~c.ub
      /\ c.items = s1.items /\ c.cu = 1 /\ c.last = a /\ c.keep /\ (tillEof \/ c.mark = NoMark)
  BY <1>3, <1>5 DEF CutTakes
<1>7. /\ c1 \in States /\ c1.lines = B \oplus F /\ c1.cur = c.cur /\ c1.x = c.x /\ c1.mark = c.mark
      /\ c1.ub = c.ub /\ c1.items = <<u>> \o r /\ c1.cu = 1 /\ c1.last = a /\ c1.keep = c.keep
      /\ c1.cutbuf = c.cutbuf
  BY <1>3, <1>6 DEF States
<1> HIDE DEF c1
<1> DEFINE v == GrownCut(c1, u)
<1>8. CutGrownTo(s, v, u, r, t0, B \oplus F)
  BY <1>1, <1>2, <1>3, <1>5, <1>6, <1>7, CutGrows
<1>9. CutText(s1, tillEof) = t
  BY <1>6, <1>7 DEF CutText, c1, c, CutAction
<1>10. c1.items[1] = u /\ CurUndo(c1) = u
  <2>1. c1.items[1] = u
    BY <1>3, <1>7, OnTop
  <2> QED BY <1>7, <2>1 DEF CurUndo
<1>11. tillEof => c1.cur = u.lineno
  <2> SUFFICES ASSUME tillEof PROVE c1.cur = u.lineno
    OBVIOUS
  <2>1. CutFirstIs(s, tillEof, u)
    BY <1>2 DEF CutTop, CutFresh, CutMore
  <2>2. <<u.lineno, u.begin>> = Cursor(s)
    BY <2>1 DEF CutFirstIs
  <2>3. CutRegion(s1, tillEof)[1] = Cursor(s1) /\ Cursor(s1) = Cursor(s)
    BY <1>1, <1>3, CutStart DEF Fields, Cursor
  <2>4. <<c.cur, c.x>> = Cursor(s)
    <3> DEFINE g == CutRegion(s1, tillEof)
    <3>1. g = <<End(B), End(B \oplus R)>>
      BY <1>5 DEF CutTakes
    <3> HIDE DEF g
    <3>2. g[1] = End(B)
      BY <3>1
    <3> QED BY <1>6, <2>3, <3>2 DEF g
  <2> QED BY <1>7, <2>2, <2>4
<1>12. t = [c1 EXCEPT !.items[1] = v]
  <2>1. a = "CUT_EOF" => c1.cur = CurUndo(c1).lineno
    BY <1>1, <1>10, <1>11
  <2> HIDE DEF a, v
  <2>2. UpdateUndo(c1, a) = [c1 EXCEPT !.items[1] = GrownCut(c1, c1.items[1])]
    BY <1>1, <1>3, <1>7, <1>10, <2>1, TopCut
  <2> QED BY <1>10, <2>2 DEF v
<1> HIDE DEF v, t
<1>13. v \in Items /\ v.type = a
  BY <1>3, <1>8 DEF CutGrownTo
<1>14. PutTop(c1, t, v, r)
  BY <1>3, <1>7, <1>12, <1>13, TopPut
<1>15. /\ t \in States /\ t.lines = B \oplus F /\ t.cur = c.cur /\ t.x = c.x /\ t.mark = c.mark /\ ~t.ub
       /\ t.items = <<v>> \o r /\ t.cu = 1 /\ t.last = a
  BY <1>6, <1>7, <1>14 DEF PutTop, Fields
<1>16. CursorIn(t) /\ Marks(t)
  BY <1>6, <1>15 DEF CursorIn, Marks
<1>17. Recorded(s, t, t0, t.lines)
  BY <1>3, <1>8, <1>13, <1>15 DEF Recorded, CutGrownTo, Records
<1>18. Does(s, t, t0)
  BY <1>15, <1>16, <1>17, RecordedDoes
<1>19. Collects(t)
  <2>1. t.items # <<>> /\ t.items[1] = v
    BY <1>3, <1>13, <1>15, OnTop
  <2>2. CASE tillEof
    <3>1. v.type = "CUT_EOF"
      BY <1>1, <1>13, <2>2
    <3> QED BY <2>1, <3>1 DEF Collects
  <2>3. CASE ~tillEof
    BY <1>6, <1>15, <2>3 DEF Collects
  <2> QED BY <2>2, <2>3
<1> QED BY <1>9, <1>18, <1>19 DEF s1

\* do_copy_text.
LEMMA CopyDoes ==
  ASSUME ~CountSize, NEW s \in States, NEW t0, Fine(s)
  PROVE  Does(s, CopyText(s), t0) /\ Collects(CopyText(s))
<1>1. CopyIs(s, CopyText(s))
  BY CopyBack DEF Fine, Sound, Sizes
<1> QED BY <1>1 DEF CopyIs, Does, Fine, Stays, StackOK, Sound, Collects

\* do_uncut_text.
LEMMA PasteDoes ==
  ASSUME Retraceable, NEW s \in States, NEW t0,
         Fine(s), s.mark = NoMark, s.last # "PASTE", s.cutbuf # NULL
  PROVE  Does(s, PasteText(s), t0)
<1> DEFINE R == s.cutbuf
           B == Bef(s)
           F == Aft(s)
           u == NewItem(s, "PASTE")
           s1 == AddUndo(s, "PASTE")
           c == CopyFrom(s1, R, TRUE)
           v == [u EXCEPT !.begin = c.x, !.lineno = c.cur]
           t1 == [c EXCEPT !.items[1] = v]
           t == [t1 EXCEPT !.mod = TRUE]
<1>1. NoNewlines /\ CursorIn(s) /\ ~s.ub /\ s.cu \in 1..Len(s.items) + 1 /\ R \in Texts /\ AtCursor(s)
  BY CursorParts DEF Retraceable, Fine, StackOK, States, Texts, NULL
<1>2. B \in Texts /\ F \in Texts /\ s.lines = B \oplus F /\ <<s.cur, s.x>> = End(B) /\ End(B)[1] = s.cur
  BY <1>1 DEF AtCursor
<1>3. u \in Items
  BY <1>1, NewItemMade DEF NewItemIs, Actions
<1>4. /\ u.type = "PASTE" /\ u.buf = R /\ u.xflags = "NONE" /\ u.mlineno = s.cur /\ u.mx = s.x
      /\ u.lineno = s.cur + Len(R) - 1
  <2>1. u = PasteItem(s)
    BY DEF NewItem
  <2> HIDE DEF u
  <2> QED BY <2>1 DEF PasteItem, BlankItem
<1>5. FreshIs(s, "PASTE", s1)
  BY <1>1, <1>3, FreshAdded DEF Contiguous, Actions
<1>6. UpdateUndo(s, "PASTE") = s1
  BY DEF UpdateUndo
<1> HIDE DEF s1, u
<1>7. /\ s1 \in States /\ Fields(s, s1) /\ s1.items = <<u>> \o Below(s) /\ s1.cu = 1 /\ s1.last = "PASTE"
      /\ Below(s) \in Seq(Items)
  BY <1>1, <1>4, <1>5, BelowIn DEF FreshIs, u
<1> HIDE DEF R, B, F
<1>8. CopiesIn(s1, c, B, R, F)
  BY <1>1, <1>2, <1>7, CopyingIn DEF Fields
<1> HIDE DEF c
<1>9. /\ c \in States /\ c.lines = B \oplus (R \oplus F) /\ ~c.ub /\ c.items = <<u>> \o Below(s) /\ c.cu = 1
      /\ c.mark = NoMark /\ <<c.cur, c.x>> = End(B \oplus R) /\ CursorIn(c) /\ c.last = "PASTE"
  BY <1>7, <1>8 DEF CopiesIn, Leads, Fields
<1>10. c.cur = u.lineno
  <2>1. c.cur = End(B \oplus R)[1] /\ B \oplus R \in Texts
    BY <1>1, <1>2, <1>9, AttachIn, EndPair
  <2>2. c.cur = Len(B) + Len(R) - 1 /\ s.cur = Len(B)
    BY <1>1, <1>2, <2>1, EndIn, LenPlus
  <2> QED BY <1>4, <2>2
<1>11. c.items[1] = u /\ CurUndo(c) = u
  BY <1>3, <1>7, <1>9, OnTop DEF CurUndo
<1>12. UpdateUndo(c, "PASTE") = t1
  <2> HIDE DEF t1, v
  <2> QED BY <1>4, <1>9, <1>10, <1>11 DEF UpdateUndo, t1, v
<1>13. PasteText(s) = t
  BY <1>1, <1>6, <1>9, <1>12 DEF PasteText, c, R
<1>14. v \in Items /\ v.type = "PASTE" /\ v.buf = R /\ v.xflags = "NONE" /\ v.mlineno = s.cur /\ v.mx = s.x
       /\ v.lineno = c.cur /\ v.begin = c.x
  BY <1>9, <1>3, <1>4 DEF States, Items
<1> HIDE DEF v
<1>15. PutTop(c, t1, v, Below(s))
  BY <1>3, <1>7, <1>9, <1>14, TopPut
<1> HIDE DEF t1
<1>16. /\ t \in States /\ t.lines = c.lines /\ t.cur = c.cur /\ t.x = c.x /\ t.mark = c.mark /\ t.ub = c.ub
       /\ t.items = <<v>> \o Below(s) /\ t.cu = 1 /\ t.last = "PASTE"
  BY <1>9, <1>15 DEF PutTop, Fields, States
<1> HIDE DEF t
<1>17. Pasted(v, s.lines, t.lines)
  BY <1>1, <1>2, <1>9, <1>14, <1>16 DEF Pasted
<1>18. Recorded(s, t, t0, t.lines)
  BY <1>7, <1>14, <1>16, <1>17 DEF Recorded, Records
<1> QED BY <1>9, <1>13, <1>16, <1>18, RecordedDoes DEF CursorIn, Marks

-----------------------------------------------------------------------------
(* What a command does, with what it begins and ends with.                 *)

LEMMA DoesAlike ==
  ASSUME NEW s, NEW t, NEW r, NEW t0, Does(s, t, t0), Alike(t, r)
  PROVE  Does(s, r, t0)
<1>1. Fine(r)
  BY DEF Does, Fine, Alike, CursorIn, Marks, StackOK
<1>2. t.lines = r.lines /\ t.items = r.items /\ t.cu = r.cu
  BY DEF Alike
<1> QED BY <1>1, <1>2 DEF Does, Begins, GoesOn, Stays

LEMMA CommandDoes ==
  ASSUME NEW name, NEW s, NEW t0, Does(ed, s, t0), Collects(s), Command(name, s)
  PROVE  Does(ed, ed', t0) /\ Collects(ed')
<1> DEFINE b == s.prep /\ name \in {"type", "tab"}
<1>1. s \in States /\ b \in BOOLEAN
  BY DEF Does, Fine, States
<1>2. ed' = [s EXCEPT !.prep = b]
  BY DEF Command
<1> HIDE DEF b
<1>3. Alike(s, ed') /\ ed'.keep = s.keep
  BY <1>1, <1>2 DEF Alike, States
<1> QED BY <1>3, DoesAlike DEF Collects, Alike

LEMMA OtherDoes ==
  ASSUME NEW name, NEW s, NEW t0, Does(ed, s, t0), Command(name, OtherCommand(s))
  PROVE  Does(ed, ed', t0) /\ Collects(ed')
<1> DEFINE t == OtherCommand(s)
<1>1. s \in States
  BY DEF Does, Fine
<1>2. Alike(s, t) /\ ~t.keep
  BY <1>1 DEF OtherCommand, Alike, States
<1> HIDE DEF t
<1>3. Does(ed, t, t0) /\ Collects(t)
  BY <1>2, DoesAlike DEF Collects
<1> QED BY <1>3, CommandDoes DEF t

\* do_mark.
LEMMA MarkDoes ==
  ASSUME NEW s \in States, NEW t0, Fine(s)
  PROVE  Does(s, [s EXCEPT !.mark = IF @ = NoMark THEN Cursor(s) ELSE NoMark], t0)
<1> DEFINE m == IF s.mark = NoMark THEN Cursor(s) ELSE NoMark
           t == [s EXCEPT !.mark = m]
<1>1. Cursor(s) \in PositionsOf(s.lines) /\ s.lines \in Texts
  BY CursorPlace DEF Fine, States, InText
<1>2. m # NoMark => m \in PositionsOf(s.lines)
  BY <1>1
<1>3. m \in {NoMark} \cup (Int \X Int)
  BY <1>1, PlaceInts
<1> HIDE DEF m
<1>4. /\ t \in States /\ t.lines = s.lines /\ t.cur = s.cur /\ t.x = s.x /\ t.mark = m
      /\ t.ub = s.ub /\ t.items = s.items /\ t.cu = s.cu /\ t.last = s.last
  BY <1>3 DEF States
<1> HIDE DEF t
<1>5. Does(s, t, t0)
  BY <1>2, <1>4 DEF Does, Stays, Fine, CursorIn, Marks, StackOK
<1> QED BY <1>5 DEF t, m

\* Everything but undoing and redoing.
Editing ==
    \/ Type \/ DoTab \/ DoEnter \/ DoDelete \/ DoBackspace
    \/ DoCutText \/ DoCutTillEof \/ DoCopyText \/ DoUncutText
    \/ DoMark \/ DoLeft \/ DoRight \/ DoGotoLineColumn

LEMMA EditingDoes ==
  ASSUME Retraceable, NEW t0 \in Texts, Fine(ed), Collects(ed), Since(ed, t0), Editing
  PROVE  Does(ed, ed', t0) /\ Collects(ed')
<1>1. ed \in States /\ CursorIn(ed) /\ ed.lines \in Texts /\ ~CountSize /\ Fill = 0 /\ CutToEnd /\ Avoided = AllHabits
  BY DEF Fine, States, Retraceable
<1>2. \A s : Wrap(s) = s
  BY <1>1 DEF Wrap
<1>3. Stays(ed, ed)
  BY DEF Stays
<1>4. CASE Type
  <2>1. PICK c \in Chars : Command("type", OtherCommand(Wrap(TypeChar(ed, c)))) /\ ~TypesAfterUndo(ed)
    BY <1>1, <1>4 DEF Type, AllHabits
  <2>2. Does(ed, TypeChar(ed, c), t0)
    BY <1>1, <2>1, TypingDoes DEF Char
  <2> QED BY <1>2, <2>1, <2>2, OtherDoes
<1>5. CASE DoTab
  <2> DEFINE s == [ed EXCEPT !.prep = FALSE]
  <2>1. PICK b \in Blanks : Command("tab", OtherCommand(Wrap(TypeChar(s, b)))) /\ ~TypesAfterUndo(ed)
    BY <1>1, <1>5 DEF DoTab, AllHabits
  <2>2. Alike(ed, s) /\ s.keep = ed.keep
    BY <1>1 DEF Alike, States
  <2> HIDE DEF s
  <2>3. Does(ed, s, t0)
    BY <1>3, <2>2, DoesAlike DEF Does
  <2>4. s \in States /\ Fine(s) /\ Stays(ed, s) /\ Since(s, t0) /\ ~TypesAfterUndo(s)
    BY <2>1, <2>2, <2>3 DEF Alike, Does, Stays, Since, TypesAfterUndo, Contiguous, HasUndo, CurUndo
  <2>5. Does(s, TypeChar(s, b), t0)
    BY <2>4, TypingDoes DEF Char
  <2>6. Does(ed, TypeChar(s, b), t0)
    BY <2>4, <2>5, FromThere
  <2> QED BY <1>2, <2>1, <2>6, OtherDoes
<1>6. CASE DoEnter
  <2>1. Does(ed, Enter(ed, FALSE), t0)
    BY <1>1, EnterDoes
  <2> QED BY <1>6, <2>1, OtherDoes DEF DoEnter
<1>7. CASE DoDelete
  BY <1>1, DeletionDoes, <1>7, OtherDoes DEF DoDelete
<1>8. CASE DoBackspace
  <2>1. Does(ed, Backspace(ed), t0)
    BY <1>1, BackspaceDoes
  <2> QED BY <1>8, <2>1, OtherDoes DEF DoBackspace
<1>9. CASE DoCutText
  <2>1. ~CutsNothing(ed, FALSE) /\ ~CutsAfterCopy(ed) /\ CutAction(FALSE) = "CUT"
    BY <1>1, <1>9 DEF DoCutText, AllHabits, CutAction
  <2> DEFINE t == CutText(AddUndo(ed, CutAction(FALSE)), FALSE)
  <2>2. Does(ed, t, t0) /\ Collects(t)
    BY <1>1, <2>1, CutDoes
  <2> HIDE DEF t
  <2> QED BY <1>9, <2>1, <2>2, CommandDoes DEF DoCutText, t
<1>10. CASE DoCutTillEof
  <2>1. ~CutsNothing(ed, TRUE) /\ CutAction(TRUE) = "CUT_EOF"
    BY <1>1, <1>10 DEF DoCutTillEof, AllHabits, CutAction
  <2> DEFINE t == CutText(AddUndo(ed, CutAction(TRUE)), TRUE)
  <2>2. Does(ed, t, t0) /\ Collects(t)
    BY <1>1, <2>1, CutDoes
  <2> HIDE DEF t
  <2> QED BY <1>10, <2>1, <2>2, CommandDoes DEF DoCutTillEof, t
<1>11. CASE DoCopyText
  BY <1>1, CopyDoes, <1>11, CommandDoes DEF DoCopyText
<1>12. CASE DoUncutText
  BY <1>1, <1>12, PasteDoes, <1>3, OtherDoes DEF DoUncutText, AllHabits, Marked, PastesAgain, Does
<1>13. CASE DoMark
  BY <1>1, MarkDoes, <1>13, OtherDoes DEF DoMark
<1>14. ASSUME NEW name, NEW p \in PositionsOf(ed.lines), NEW s, s = [ed EXCEPT !.cur = p[1], !.x = p[2]],
              Command(name, OtherCommand(s))
       PROVE  Does(ed, ed', t0) /\ Collects(ed')
  BY <1>1, MovedFine, <1>14, OtherDoes DEF Does
<1>15. CASE DoLeft
  BY <1>1, LeftIn, <1>14, <1>15 DEF DoLeft
<1>16. CASE DoRight
  BY <1>1, RightIn, <1>14, <1>16 DEF DoRight
<1>17. CASE DoGotoLineColumn
  BY <1>14, <1>17 DEF DoGotoLineColumn
<1> QED BY <1>4, <1>5, <1>6, <1>7, <1>8, <1>9, <1>10, <1>11, <1>12, <1>13, <1>15, <1>16, <1>17 DEF Editing

-----------------------------------------------------------------------------
(* The texts before and after the present one, along the stack.            *)

\* The text that the item i of the stack was recorded over is the one at i + 1.
TextAt(s, p, f, i) ==
    IF i = s.cu THEN s.lines ELSE IF i > s.cu THEN p[Len(s.items) + 2 - i] ELSE f[s.cu - i]
Tracks(s, p, f) ==
    /\ p \in Seq(Texts) /\ Len(p) = Len(s.items) - s.cu + 1
    /\ f \in Seq(Texts) /\ Len(f) = s.cu - 1
    /\ \A i \in 1..Len(s.items) : Records(s.items[i], TextAt(s, p, f, i + 1), TextAt(s, p, f, i))

LEMMA StackSizes ==
  ASSUME NEW s \in States, StackOK(s)
  PROVE  Len(s.items) \in Nat /\ s.cu \in Nat /\ s.cu >= 1 /\ s.cu <= Len(s.items) + 1 /\ s.lines \in Texts
<1>1. Len(s.items) \in Nat
  BY LenNat DEF States
<1> QED BY <1>1 DEF StackOK, States

LEMMA TrackBegins ==
  ASSUME NEW s \in States, NEW t, NEW p, NEW f, NEW v \in Items, StackOK(s), Tracks(s, p, f),
         t.items = <<v>> \o Below(s), t.cu = 1, Records(v, s.lines, t.lines)
  PROVE  Tracks(t, Append(p, s.lines), <<>>)
<1> DEFINE n == Len(s.items)
           k == s.cu
           m == Len(t.items)
           q == Append(p, s.lines)
<1>1. n \in Nat /\ k \in Nat /\ k >= 1 /\ k <= n + 1 /\ s.lines \in Texts
  BY StackSizes
<1>2. /\ Below(s) \in Seq(Items) /\ Len(Below(s)) = n - k + 1
      /\ \A i \in 1..n - k + 1 : Below(s)[i] = s.items[k + i - 1]
  BY BelowIn DEF StackOK
<1>3. t.items[1] = v /\ \A i \in 1..n - k + 1 : t.items[1 + i] = Below(s)[i]
  BY <1>2, OnTop
<1>4. m = n - k + 2 /\ m \in Nat
  BY <1>1, <1>2, OnTop
<1>5. /\ q \in Seq(Texts) /\ Len(q) = n - k + 2 /\ q[n - k + 2] = s.lines
      /\ \A i \in 1..n - k + 1 : q[i] = p[i]
  <2>1. p \in Seq(Texts) /\ Len(p) = n - k + 1
    BY DEF Tracks
  <2>2. Len(p) + 1 = n - k + 2
    BY <1>1, <2>1
  <2> QED BY <1>1, <2>1, <2>2, AppendProperties
<1> HIDE DEF n, m, q, k
<1>6. ASSUME NEW i \in 1..m
      PROVE  Records(t.items[i], TextAt(t, q, <<>>, i + 1), TextAt(t, q, <<>>, i))
  <2>1. CASE i = 1
    <3>1. m + 2 - 2 = n - k + 2 /\ 2 > 1
      BY <1>1, <1>4
    <3>2. TextAt(t, q, <<>>, 1) = t.lines /\ TextAt(t, q, <<>>, 2) = s.lines
      BY <1>5, <3>1 DEF TextAt, m
    <3> QED BY <1>3, <2>1, <3>2
  <2>2. CASE i > 1
    <3> DEFINE j == k + i - 2
    <3>1. j \in 1..n /\ i - 1 \in 1..n - k + 1 /\ 1 + (i - 1) = i /\ k + (i - 1) - 1 = j /\ j >= k
      BY <1>1, <1>4, <2>2
    <3>2. t.items[1 + (i - 1)] = Below(s)[i - 1] /\ Below(s)[i - 1] = s.items[k + (i - 1) - 1]
      BY <1>2, <1>3, <3>1
    <3>3. Records(s.items[j], TextAt(s, p, f, j + 1), TextAt(s, p, f, j))
      BY <3>1 DEF Tracks, n
    <3>4. TextAt(t, q, <<>>, i + 1) = TextAt(s, p, f, j + 1)
      <4>1. m + 2 - (i + 1) = n + 2 - (j + 1) /\ n + 2 - (j + 1) \in 1..n - k + 1 /\ i + 1 > 1 /\ j + 1 > k
        BY <1>1, <1>4, <2>2, <3>1
      <4> HIDE DEF j
      <4> QED BY <1>1, <1>5, <2>2, <4>1 DEF TextAt, m, n, k
    <3>5. TextAt(t, q, <<>>, i) = TextAt(s, p, f, j)
      <4>1. CASE i = 2
        <5>1. m + 2 - i = n - k + 2 /\ j = k
          BY <1>1, <1>4, <4>1
        <5> HIDE DEF j
        <5> QED BY <1>5, <4>1, <5>1 DEF TextAt, m, k
      <4>2. CASE i > 2
        <5>1. m + 2 - i = n + 2 - j /\ n + 2 - j \in 1..n - k + 1 /\ j > k
          BY <1>1, <1>4, <4>2
        <5> HIDE DEF j
        <5> QED BY <1>1, <1>5, <2>2, <5>1 DEF TextAt, m, n, k
      <4> QED BY <2>2, <4>1, <4>2
    <3> QED BY <3>1, <3>2, <3>3, <3>4, <3>5
  <2>3. i = 1 \/ i > 1
    BY <1>1, <1>4
  <2> QED BY <2>1, <2>2, <2>3
<1>7. <<>> \in Seq(Texts) /\ Len(<<>>) = t.cu - 1 /\ Len(q) = m - t.cu + 1
  BY <1>1, <1>4, <1>5
<1> QED BY <1>5, <1>6, <1>7 DEF Tracks, m, q

LEMMA TrackGoesOn ==
  ASSUME NEW s \in States, NEW t, NEW p, NEW f, NEW v \in Items, StackOK(s), Tracks(s, p, f),
         s.cu = 1, s.items # <<>>,
         t.items = <<v>> \o Rest(s), t.cu = 1, Records(v, p[Len(p)], t.lines)
  PROVE  Tracks(t, p, <<>>) /\ f = <<>> /\ p # <<>>
<1> DEFINE n == Len(s.items)
           m == Len(t.items)
<1>1. n \in Nat \ {0} /\ s.items \in Seq(Items) /\ p \in Seq(Texts) /\ Len(p) = n /\ f = <<>>
  BY EmptySeq DEF States, Tracks
<1>2. /\ Rest(s) \in Seq(Items) /\ Len(Rest(s)) = n - 1
      /\ \A i \in 1..n - 1 : Rest(s)[i] = s.items[i + 1]
  BY <1>1, TailIsSubSeq, HeadTailProperties DEF Rest
<1>3. t.items[1] = v /\ \A i \in 1..n - 1 : t.items[1 + i] = Rest(s)[i]
  BY <1>2, OnTop
<1>4. m = (n - 1) + 1
  BY <1>2, OnTop
<1> HIDE DEF n, m
<1>5. m = n
  BY <1>1, <1>4
<1>6. ASSUME NEW i \in 1..m
      PROVE  Records(t.items[i], TextAt(t, p, <<>>, i + 1), TextAt(t, p, <<>>, i))
  <2>1. CASE i = 1
    BY <1>1, <1>5, <1>3, <2>1 DEF TextAt, m
  <2>2. CASE i > 1
    <3>1. t.items[i] = s.items[i]
      BY <1>1, <1>5, <2>2, <1>2, <1>3
    <3>2. Records(s.items[i], TextAt(s, p, f, i + 1), TextAt(s, p, f, i))
      BY <1>5 DEF Tracks, n
    <3>3. i + 1 > 1 /\ i + 1 # 1 /\ i # 1
      BY <2>2
    <3>4. TextAt(t, p, <<>>, i + 1) = TextAt(s, p, f, i + 1) /\ TextAt(t, p, <<>>, i) = TextAt(s, p, f, i)
      BY <1>5, <2>2, <3>3 DEF TextAt, m, n
    <3> QED BY <3>1, <3>2, <3>4
  <2>3. i = 1 \/ i > 1
    BY <1>1, <1>5
  <2> QED BY <2>1, <2>2, <2>3
<1>7. <<>> \in Seq(Texts) /\ Len(<<>>) = t.cu - 1 /\ Len(p) = m - t.cu + 1 /\ p # <<>>
  BY <1>1, <1>5
<1> QED BY <1>1, <1>6, <1>7 DEF Tracks, m

LEMMA TrackUndo ==
  ASSUME NEW s \in States, NEW t, NEW p, NEW f, StackOK(s), Tracks(s, p, f),
         s.cu <= Len(s.items), t.items = s.items, t.cu = s.cu + 1, t.lines = p[Len(p)]
  PROVE  Tracks(t, SubSeq(p, 1, Len(p) - 1), <<s.lines>> \o f)
<1> DEFINE n == Len(s.items)
           k == s.cu
           q == SubSeq(p, 1, Len(p) - 1)
           g == <<s.lines>> \o f
<1>1. n \in Nat /\ k \in Nat /\ k >= 1 /\ k <= n /\ s.lines \in Texts
  BY StackSizes
<1>2. p \in Seq(Texts) /\ Len(p) = n - k + 1 /\ f \in Seq(Texts) /\ Len(f) = k - 1
  BY DEF Tracks
<1>3. q \in Seq(Texts) /\ Len(q) = n - k /\ \A i \in 1..n - k : q[i] = p[i]
  <2> HIDE DEF n, k
  <2>1. Len(p) - 1 = n - k /\ n - k \in Int /\ n - k >= 0 /\ 1 \in Int
    BY <1>1, <1>2
  <2>2. \A i \in 1..n - k : p[i] \in Texts
    BY <1>1, <1>2, ElementOfSeq
  <2>3. /\ SubSeq(p, 1, n - k) \in Seq(Texts)
        /\ Len(SubSeq(p, 1, n - k)) = IF 1 <= n - k THEN (n - k) - 1 + 1 ELSE 0
        /\ \A i \in 1..(n - k) - 1 + 1 : SubSeq(p, 1, n - k)[i] = p[1 + i - 1]
    BY <2>1, <2>2, SubSeqProperties
  <2>4. (n - k) - 1 + 1 = n - k /\ (IF 1 <= n - k THEN (n - k) - 1 + 1 ELSE 0) = n - k
        /\ \A i \in 1..n - k : 1 + i - 1 = i
    BY <2>1
  <2> QED BY <2>1, <2>3, <2>4
<1>4. <<s.lines>> \in Seq(Texts) /\ Len(<<s.lines>>) = 1 /\ <<s.lines>>[1] = s.lines
  BY <1>1
<1>5. /\ g \in Seq(Texts) /\ Len(g) = 1 + (k - 1)
      /\ \A i \in 1..1 + (k - 1) : g[i] = IF i <= 1 THEN <<s.lines>>[i] ELSE f[i - 1]
  BY <1>2, <1>4, ConcatProperties
<1> HIDE DEF n, k, q, g
<1>6. ASSUME NEW i \in Int, 1 <= i, i <= n + 1  PROVE TextAt(t, q, g, i) = TextAt(s, p, f, i)
  <2>1. CASE i = k + 1
    <3>1. n + 2 - i = Len(p) /\ i # k /\ i > k
      BY <1>1, <1>2, <2>1
    <3> QED BY <2>1, <3>1 DEF TextAt, n, k
  <2>2. CASE i > k + 1
    BY <1>1, <1>6, <2>2, <1>3 DEF TextAt, n, k
  <2>3. CASE i = k
    <3>1. k + 1 - i = 1 /\ 1 \in 1..1 + (k - 1) /\ i # k + 1 /\ ~(i > k + 1)
      BY <1>1, <2>3
    <3>2. g[1] = s.lines
      BY <1>4, <1>5, <3>1
    <3>3. t.cu - i = 1 /\ i # t.cu /\ ~(i > t.cu)
      BY <2>3, <3>1 DEF k
    <3> QED BY <2>3, <3>2, <3>3 DEF TextAt, k
  <2>4. CASE i < k
    <3>1. k + 1 - i \in 1..1 + (k - 1) /\ ~(k + 1 - i <= 1) /\ (k + 1 - i) - 1 = k - i
          /\ i # k + 1 /\ ~(i > k + 1) /\ i # k /\ ~(i > k)
      BY <1>1, <1>6, <2>4
    <3>2. g[k + 1 - i] = f[k - i]
      BY <1>5, <3>1
    <3> QED BY <1>1, <3>1, <3>2 DEF TextAt, k
  <2> QED BY <1>1, <2>1, <2>2, <2>3, <2>4
<1>7. ASSUME NEW i \in 1..n  PROVE Records(t.items[i], TextAt(t, q, g, i + 1), TextAt(t, q, g, i))
  BY <1>1, <1>6 DEF Tracks, n
<1>8. Len(q) = n - t.cu + 1 /\ Len(g) = t.cu - 1
  BY <1>1, <1>3, <1>5 DEF k
<1> QED BY <1>3, <1>5, <1>7, <1>8 DEF Tracks, n, q, g

LEMMA TrackRedo ==
  ASSUME NEW s \in States, NEW t, NEW p, NEW f, StackOK(s), Tracks(s, p, f),
         s.cu > 1, t.items = s.items, t.cu = s.cu - 1, t.lines = f[1]
  PROVE  Tracks(t, Append(p, s.lines), Tail(f))
<1> DEFINE n == Len(s.items)
           k == s.cu
           q == Append(p, s.lines)
           g == Tail(f)
<1>1. n \in Nat /\ k \in Nat /\ k >= 2 /\ k <= n + 1 /\ s.lines \in Texts
  BY StackSizes
<1>2. p \in Seq(Texts) /\ Len(p) = n - k + 1 /\ f \in Seq(Texts) /\ Len(f) = k - 1
  BY DEF Tracks
<1> HIDE DEF n, k
<1>3. /\ q \in Seq(Texts) /\ Len(q) = n - k + 2 /\ q[n - k + 2] = s.lines
      /\ \A i \in 1..n - k + 1 : q[i] = p[i]
  BY <1>1, <1>2, AppendProperties
<1>4. g \in Seq(Texts) /\ Len(g) = k - 2 /\ \A i \in 1..k - 2 : g[i] = f[i + 1]
  BY <1>1, <1>2, HeadTailProperties
<1> HIDE DEF q, g
<1>5. ASSUME NEW i \in Int, 1 <= i, i <= n + 1  PROVE TextAt(t, q, g, i) = TextAt(s, p, f, i)
  <2>1. CASE i = k - 1
    BY <1>1, <2>1 DEF TextAt, n, k
  <2>2. CASE i = k
    BY <1>1, <2>2, <1>3 DEF TextAt, n, k
  <2>3. CASE i > k
    <3>1. n + 2 - i \in 1..n - k + 1 /\ i > k - 1 /\ i # k - 1 /\ i # k
      BY <1>1, <1>5, <2>3
    <3> QED BY <1>3, <2>3, <3>1 DEF TextAt, n, k
  <2>4. CASE i < k - 1
    <3>1. (k - 1) - i \in 1..k - 2 /\ ((k - 1) - i) + 1 = k - i
          /\ i # k - 1 /\ ~(i > k - 1) /\ i # k /\ ~(i > k)
      BY <1>1, <1>5, <2>4
    <3> QED BY <1>4, <3>1 DEF TextAt, n, k
  <2> QED BY <1>1, <2>1, <2>2, <2>3, <2>4
<1>6. ASSUME NEW i \in 1..n  PROVE Records(t.items[i], TextAt(t, q, g, i + 1), TextAt(t, q, g, i))
  BY <1>1, <1>5 DEF Tracks, n
<1>7. Len(q) = n - t.cu + 1 /\ Len(g) = t.cu - 1
  BY <1>1, <1>3, <1>4 DEF k
<1> QED BY <1>3, <1>4, <1>6, <1>7 DEF Tracks, n, q, g

LEMMA TrackItem ==
  ASSUME NEW s \in States, NEW p, NEW f, StackOK(s), Tracks(s, p, f)
  PROVE  /\ \A i \in 1..Len(s.items) : s.items[i].type \notin {"SPLIT_BEGIN", "SPLIT_END"}
         /\ s.cu <= Len(s.items) => p[Len(p)] \in Texts /\ Records(s.items[s.cu], p[Len(p)], s.lines)
         /\ s.cu > 1 => f[1] \in Texts /\ Records(s.items[s.cu - 1], s.lines, f[1])
<1> DEFINE n == Len(s.items)
           k == s.cu
<1>1. n \in Nat /\ k \in Nat /\ k >= 1 /\ k <= n + 1 /\ s.lines \in Texts
  BY StackSizes
<1>2. p \in Seq(Texts) /\ Len(p) = n - k + 1 /\ f \in Seq(Texts) /\ Len(f) = k - 1
  BY DEF Tracks
<1>3. \A i \in 1..n : s.items[i] \in Items /\ Records(s.items[i], TextAt(s, p, f, i + 1), TextAt(s, p, f, i))
  BY ItemIn DEF Tracks
<1> HIDE DEF n, k
<1>4. ASSUME NEW i \in 1..n + 1  PROVE TextAt(s, p, f, i) \in Texts
  <2>1. CASE i = k
    BY <1>1, <2>1 DEF TextAt, k
  <2>2. CASE i > k
    BY <1>1, <1>2, <2>2, ElementOfSeq DEF TextAt, n, k
  <2>3. CASE i < k
    BY <1>1, <1>2, <2>3, ElementOfSeq DEF TextAt, k
  <2> QED BY <1>1, <2>1, <2>2, <2>3
<1>5. ASSUME NEW i \in 1..n  PROVE s.items[i].type \notin {"SPLIT_BEGIN", "SPLIT_END"}
  <2>1. i \in 1..n + 1 /\ i + 1 \in 1..n + 1
    BY <1>1
  <2> QED BY <1>3, <1>4, <2>1, RecordsPlace DEF RecordsAt
<1>6. ASSUME k <= n  PROVE p[Len(p)] \in Texts /\ Records(s.items[k], p[Len(p)], s.lines)
  <2>1. k \in 1..n /\ k + 1 \in 1..n + 1 /\ n + 2 - (k + 1) = Len(p) /\ k + 1 # k /\ k + 1 > k
    BY <1>1, <1>2, <1>6
  <2>2. TextAt(s, p, f, k) = s.lines /\ TextAt(s, p, f, k + 1) = p[Len(p)]
    BY <2>1 DEF TextAt, n, k
  <2> QED BY <1>3, <1>4, <2>1, <2>2
<1>7. ASSUME k > 1  PROVE f[1] \in Texts /\ Records(s.items[k - 1], s.lines, f[1])
  <2>1. k - 1 \in 1..n /\ k - 1 \in 1..n + 1 /\ (k - 1) + 1 = k /\ k - (k - 1) = 1 /\ k - 1 # k /\ ~(k - 1 > k)
    BY <1>1, <1>7
  <2>2. TextAt(s, p, f, k) = s.lines /\ TextAt(s, p, f, k - 1) = f[1]
    BY <2>1 DEF TextAt, k
  <2>3. Records(s.items[k - 1], TextAt(s, p, f, k), TextAt(s, p, f, k - 1)) /\ TextAt(s, p, f, k - 1) \in Texts
    BY <1>3, <1>4, <2>1
  <2> QED BY <2>2, <2>3
<1> QED BY <1>5, <1>6, <1>7 DEF n, k

\* Without the groups of a wrap every item counts as one.
LEMMA Depths ==
  ASSUME NEW s \in States, NEW p, NEW f, StackOK(s), Tracks(s, p, f)
  PROVE  UndoDepth(s) = Len(p) /\ RedoDepth(s) = Len(f) /\ Len(p) = Len(s.items) - s.cu + 1 /\ Len(f) = s.cu - 1
<1> DEFINE n == Len(s.items)
           k == s.cu
<1>1. n \in Nat /\ k \in Nat /\ k >= 1 /\ k <= n + 1
  BY StackSizes
<1>2. \A i \in 1..n : s.items[i].type # "SPLIT_END"
  BY TrackItem
<1>3. Len(p) = n - k + 1 /\ Len(f) = k - 1
  BY DEF Tracks
<1> HIDE DEF n, k
<1>4. \A i \in 1..n : ~Inside(s.items, i)
  BY <1>1, <1>2 DEF Inside
<1>5. {i \in k..n : ~Inside(s.items, i)} = k..n /\ {i \in 1..k - 1 : ~Inside(s.items, i)} = 1..k - 1
  BY <1>1, <1>4
<1>6. k - 1 \in Int /\ n \in Int /\ k \in Int /\ 1 \in Int
  BY <1>1
<1>7. Cardinality(k..n) = (IF k > n THEN 0 ELSE n - k + 1) /\ Cardinality(1..k - 1) = IF 1 > k - 1 THEN 0 ELSE (k - 1) - 1 + 1
  BY <1>6, FS_Interval
<1>8. (IF k > n THEN 0 ELSE n - k + 1) = n - k + 1 /\ (IF 1 > k - 1 THEN 0 ELSE (k - 1) - 1 + 1) = k - 1
  BY <1>1
<1> QED BY <1>3, <1>5, <1>7, <1>8 DEF UndoDepth, RedoDepth, n, k

-----------------------------------------------------------------------------
(* The history.                                                            *)

\* The inductive invariant with undo and redo: besides the cursor and the mark, every item of the
\* stack, done or undone, was recorded between the texts that the history has on its two sides.
HistoryInv == Fine(ed) /\ Collects(ed) /\ Tracks(ed, past, future)

\* The ways one state of the editor follows another.
GoesBack(s, t) ==
    s.cu <= Len(s.items) /\ t.items = s.items /\ t.cu = s.cu + 1 /\ t.lines = past[Len(past)]
GoesForth(s, t) ==
    s.cu > 1 /\ t.items = s.items /\ t.cu = s.cu - 1 /\ t.lines = future[1]
Walks(s, t) ==
    Begins(s, t) \/ GoesOn(s, t, past[Len(past)]) \/ Stays(s, t) \/ GoesBack(s, t) \/ GoesForth(s, t)

LEMMA OtherMoves ==
  ASSUME NEW name, NEW s, Fine(s), Walks(ed, s), Command(name, OtherCommand(s))
  PROVE  Fine(ed') /\ Collects(ed') /\ Walks(ed, ed')
<1> DEFINE b == OtherCommand(s).prep /\ name \in {"type", "tab"}
<1>1. s \in States /\ OtherCommand(s) \in States /\ b \in BOOLEAN
  BY DEF Fine, OtherCommand, States
<1>2. ed' = [OtherCommand(s) EXCEPT !.prep = b]
  BY DEF Command
<1> HIDE DEF b
<1>3. Alike(s, ed') /\ ~ed'.keep
  BY <1>1, <1>2 DEF Alike, OtherCommand, States
<1> QED BY <1>3 DEF Fine, Alike, Collects, CursorIn, Marks, StackOK, Walks, Begins, GoesOn, Stays, GoesBack, GoesForth

LEMMA UndoMoves ==
  ASSUME Retraceable, HistoryInv, DoUndo
  PROVE  Fine(ed') /\ Collects(ed') /\ Walks(ed, ed')
<1> DEFINE t == Undo(ed)
           p == past[Len(past)]
<1>1. ed.mark = NoMark /\ ed \in States /\ ~ed.ub /\ StackOK(ed) /\ Tracks(ed, past, future) /\ NoNewlines /\ ~CountSize
  BY DEF DoUndo, Marked, Retraceable, AllHabits, HistoryInv, Fine
<1>2. Len(ed.items) \in Nat /\ ed.cu \in Nat /\ ed.cu >= 1
  BY <1>1, StackSizes
<1>3. Fine(t) /\ Walks(ed, t)
  <2>1. CASE HasUndo(ed)
    <3>1. ed.cu <= Len(ed.items) /\ ed.cu \in 1..Len(ed.items)
      BY <1>2, <2>1 DEF HasUndo
    <3>2. p \in Texts /\ Records(ed.items[ed.cu], p, ed.lines)
      BY <1>1, <3>1, TrackItem
    <3> HIDE DEF t, p
    <3>3. UndoIs(ed, t, p)
      BY <1>1, <3>1, <3>2, UndoLeads DEF t
    <3>4. StackOK(t)
      BY <1>2, <3>1, <3>3 DEF UndoIs, StackOK
    <3> QED BY <1>1, <3>1, <3>3, <3>4 DEF UndoIs, Fine, Marks, Walks, GoesBack, p
  <2>2. CASE ~HasUndo(ed)
    <3>1. t = ed
      BY <2>2 DEF Undo, UndoOne
    <3> QED BY <3>1 DEF HistoryInv, Walks, Stays
  <2> QED BY <2>1, <2>2
<1> HIDE DEF t
<1> QED BY <1>3, OtherMoves DEF DoUndo, t

LEMMA RedoMoves ==
  ASSUME Retraceable, HistoryInv, DoRedo
  PROVE  Fine(ed') /\ Collects(ed') /\ Walks(ed, ed')
<1> DEFINE t == Redo(ed)
           f == future[1]
<1>1. ed.mark = NoMark /\ ed \in States /\ ~ed.ub /\ StackOK(ed) /\ Tracks(ed, past, future) /\ NoNewlines /\ ~CountSize
      /\ ~RedoesDeletion(ed)
  BY DEF DoRedo, Marked, Retraceable, AllHabits, HistoryInv, Fine
<1>2. Len(ed.items) \in Nat /\ ed.cu \in Nat /\ ed.cu >= 1 /\ ed.cu <= Len(ed.items) + 1
  BY <1>1, StackSizes
<1>3. Fine(t) /\ Walks(ed, t)
  <2>1. CASE HasRedo(ed)
    <3>1. ed.cu > 1 /\ ed.cu \in 2..Len(ed.items) + 1 /\ ed.items[ed.cu - 1].type \notin {"BACK", "DEL"}
      BY <1>1, <1>2, <2>1 DEF HasRedo, RedoesDeletion
    <3>2. f \in Texts /\ Records(ed.items[ed.cu - 1], ed.lines, f)
      BY <1>1, <3>1, TrackItem
    <3> HIDE DEF t, f
    <3>3. RedoIs(ed, t, f)
      BY <1>1, <3>1, <3>2, RedoLeads DEF t
    <3>4. StackOK(t)
      BY <1>2, <3>1, <3>3 DEF RedoIs, StackOK
    <3> QED BY <1>1, <3>1, <3>3, <3>4 DEF RedoIs, Fine, Marks, Walks, GoesForth, f
  <2>2. CASE ~HasRedo(ed)
    <3>1. t = ed
      BY <2>2 DEF Redo, RedoOne
    <3> QED BY <3>1 DEF HistoryInv, Walks, Stays
  <2> QED BY <2>1, <2>2
<1> HIDE DEF t
<1> QED BY <1>3, OtherMoves DEF DoRedo, t

LEMMA NextMoves ==
  ASSUME Retraceable, HistoryInv, Next
  PROVE  Fine(ed') /\ Collects(ed') /\ Walks(ed, ed')
<1>1. CASE Editing
  <2> DEFINE t0 == IF ed.cu <= Len(ed.items) THEN past[Len(past)] ELSE ed.lines
  <2>1. ed \in States /\ StackOK(ed) /\ ed.lines \in Texts /\ Tracks(ed, past, future)
    BY DEF HistoryInv, Fine, States
  <2>2. t0 \in Texts /\ Since(ed, t0)
    BY <2>1, StackSizes, TrackItem DEF Since
  <2>3. ed.cu = 1 /\ ed.items # <<>> => t0 = past[Len(past)]
    BY <2>1, EmptySeq DEF States
  <2> HIDE DEF t0
  <2>4. Does(ed, ed', t0) /\ Collects(ed')
    BY <1>1, <2>2, EditingDoes DEF HistoryInv
  <2> QED BY <2>3, <2>4 DEF Does, Walks, GoesOn
<1>2. ASSUME NEW s, Command("indent", s) \/ Command("unindent", s)  PROVE FALSE
  BY <1>2 DEF HistoryInv, Fine, States, Retraceable, Command
<1> QED BY <1>1, <1>2, UndoMoves, RedoMoves DEF Next, Editing, DoIndent, DoUnindent

\* How the history moves with the depths of the stack.
LEMMA HistoryMoves ==
  ASSUME HistoryInv, HistoryNext, NEW q, NEW g, Fine(ed'), Tracks(ed', q, g)
  PROVE  /\ past' = IF Len(past) < Len(q) THEN Append(past, ed.lines) ELSE SubSeq(past, 1, Len(q))
         /\ future' = IF Len(future) < Len(g) THEN <<ed.lines>> \o future
                      ELSE SubSeq(future, Len(future) - Len(g) + 1, Len(future))
<1>1. UndoDepth(ed) = Len(past) /\ RedoDepth(ed) = Len(future)
  BY Depths DEF HistoryInv, Fine
<1>2. UndoDepth(ed') = Len(q) /\ RedoDepth(ed') = Len(g)
  BY Depths DEF Fine
<1>3. past \in Seq(Texts) /\ future \in Seq(Texts) /\ q \in Seq(Texts) /\ g \in Seq(Texts)
  BY DEF HistoryInv, Tracks
<1> DEFINE a == Len(past)
           b == Len(q)
           c == Len(future)
           d == Len(g)
<1>4. a \in Nat /\ b \in Nat /\ c \in Nat /\ d \in Nat
  BY <1>3
<1>5. /\ past' = IF a - b < 0 THEN Append(past, ed.lines) ELSE SubSeq(past, 1, a - (a - b))
      /\ future' = IF c - d < 0 THEN <<ed.lines>> \o future ELSE SubSeq(future, (c - d) + 1, c)
  BY <1>1, <1>2 DEF HistoryNext
<1> HIDE DEF a, b, c, d
<1>6. (a - b < 0 <=> a < b) /\ (c - d < 0 <=> c < d) /\ a - (a - b) = b
  BY <1>4
<1> QED BY <1>5, <1>6 DEF a, b, c, d

\* One step of the editor is one of the history, or none.
HistoryGoes == HistoryInv' /\ [History!Next]_(History!vars)

LEMMA HistoryStep ==
  ASSUME Retraceable, HistoryInv, [HistoryNext]_<<ed, past, future>>
  PROVE  HistoryGoes
<1> DEFINE p == past
           f == future
           n == Len(p)
           m == Len(f)
<1>1. CASE UNCHANGED <<ed, past, future>>
  BY <1>1 DEF HistoryGoes, HistoryInv, Fine, CursorIn, Marks, StackOK, Collects, Tracks, TextAt, History!vars
<1>2. CASE HistoryNext
  <2>1. Fine(ed') /\ Collects(ed') /\ Walks(ed, ed')
    BY <1>2, NextMoves DEF HistoryNext
  <2>2. ed \in States /\ StackOK(ed) /\ Tracks(ed, p, f) /\ p \in Seq(Texts) /\ f \in Seq(Texts) /\ ed.lines \in Texts
    BY DEF HistoryInv, Fine, Tracks, States
  <2>3. n \in Nat /\ m \in Nat
    BY <2>2
  <2> DEFINE l == Len(ed.items)
             k == ed.cu
  <2>4. n = l - k + 1 /\ m = k - 1 /\ l \in Nat /\ k \in Nat
    BY <2>2, StackSizes DEF Tracks
  <2> HIDE DEF p, f
  <2>5. SubSeq(p, 1, n) = p /\ SubSeq(f, 1, m) = f /\ SubSeq(f, m + 1, m) = <<>>
    BY <2>2, <2>3, SubSeqFull, SubSeqEmpty
  <2>6. ASSUME NEW q, NEW g, Tracks(ed', q, g)
        PROVE  /\ past' = IF n < Len(q) THEN Append(p, ed.lines) ELSE SubSeq(p, 1, Len(q))
               /\ future' = IF m < Len(g) THEN <<ed.lines>> \o f ELSE SubSeq(f, m - Len(g) + 1, m)
               /\ Len(q) = Len(ed'.items) - ed'.cu + 1 /\ Len(g) = ed'.cu - 1
    BY <1>2, <2>1, <2>6, HistoryMoves DEF p, f, Tracks
  <2>7. ASSUME NEW q, NEW g, Tracks(ed', q, g), past' = q, future' = g
        PROVE  HistoryInv'
    BY <2>1, <2>7 DEF HistoryInv
  <2>8. ASSUME NEW q, NEW g, past' = q, future' = g, HistoryInv', History!Next
        PROVE  HistoryGoes
    BY <2>8 DEF HistoryGoes
  <2> HIDE DEF n, m
  <2>9. m - 0 + 1 = m + 1 /\ ~(m < 0) /\ m - m + 1 = 1 /\ ~(m < m) /\ ~(n < n) /\ n < n + 1 /\ ~(n < n - 1)
        /\ m < m + 1 /\ ~(m < m - 1) /\ m - (m - 1) + 1 = 2
    BY <2>3
  <2>10. CASE Begins(ed, ed')
    <3> DEFINE q == Append(p, ed.lines)
    <3>1. Tracks(ed', q, <<>>)
      BY <2>2, <2>10, TrackBegins DEF Begins
    <3>2. Len(q) = n + 1 /\ Len(<<>>) = 0
      BY <2>2, AppendProperties DEF n
    <3> HIDE DEF q
    <3>3. past' = q /\ future' = <<>>
      BY <2>5, <2>6, <2>9, <3>1, <3>2 DEF q
    <3>4. History!Edit
      BY <3>3 DEF History!Edit, q, p
    <3> QED BY <2>7, <2>8, <3>1, <3>3, <3>4 DEF History!Next
  <2>11. CASE GoesOn(ed, ed', past[Len(past)])
    <3>1. Tracks(ed', p, <<>>) /\ p # <<>>
      BY <2>2, <2>11, TrackGoesOn DEF GoesOn, p
    <3>2. Len(p) = n /\ Len(<<>>) = 0
      BY DEF n
    <3>3. past' = p /\ future' = <<>>
      BY <2>5, <2>6, <2>9, <3>1, <3>2
    <3>4. History!Edit
      BY <3>1, <3>3 DEF History!Edit, p
    <3> QED BY <2>7, <2>8, <3>1, <3>3, <3>4 DEF History!Next
  <2>12. CASE Stays(ed, ed')
    <3>1. Tracks(ed', p, f)
      BY <2>2, <2>12 DEF Stays, Tracks, TextAt
    <3>2. Len(p) = n /\ Len(f) = m
      BY DEF n, m
    <3>3. past' = p /\ future' = f
      BY <2>5, <2>6, <2>9, <3>1, <3>2
    <3>4. HistoryInv'
      BY <2>7, <3>1, <3>3
    <3> QED BY <2>12, <3>3, <3>4 DEF HistoryGoes, Stays, History!vars, p, f
  <2>13. CASE GoesBack(ed, ed')
    <3> DEFINE q == SubSeq(p, 1, Len(p) - 1)
               g == <<ed.lines>> \o f
    <3>1. Tracks(ed', q, g)
      BY <2>2, <2>13, TrackUndo DEF GoesBack, p
    <3> HIDE DEF q, g
    <3>2. Len(q) = n - 1 /\ Len(g) = m + 1 /\ n # 0
      <4>1. Len(q) = l - (k + 1) + 1 /\ Len(g) = (k + 1) - 1 /\ k <= l
        BY <2>6, <2>13, <3>1 DEF GoesBack
      <4> HIDE DEF l, k
      <4> QED BY <2>4, <4>1
    <3>3. past' = q /\ future' = g
      BY <2>6, <2>9, <3>1, <3>2 DEF q, g, n
    <3>4. History!Undo
      <4>1. p # <<>>
        BY <3>2 DEF n
      <4> QED BY <2>13, <3>3, <4>1 DEF History!Undo, GoesBack, q, g, p, f
    <3> QED BY <2>7, <2>8, <3>1, <3>3, <3>4 DEF History!Next
  <2>14. CASE GoesForth(ed, ed')
    <3> DEFINE q == Append(p, ed.lines)
               g == Tail(f)
    <3>1. Tracks(ed', q, g)
      BY <2>2, <2>14, TrackRedo DEF GoesForth, f
    <3> HIDE DEF q, g
    <3>2. Len(q) = n + 1 /\ Len(g) = m - 1 /\ m # 0
      <4>1. Len(q) = l - (k - 1) + 1 /\ Len(g) = (k - 1) - 1 /\ k > 1
        BY <2>6, <2>14, <3>1 DEF GoesForth
      <4> HIDE DEF l, k
      <4> QED BY <2>4, <4>1
    <3>3. f # <<>> /\ g = SubSeq(f, 2, m)
      BY <2>2, <3>2, TailIsSubSeq DEF g, m
    <3>4. past' = q /\ future' = g
      <4>1. past' = Append(p, ed.lines)
        BY <2>6, <2>9, <3>1, <3>2
      <4>2. future' = SubSeq(f, m - Len(g) + 1, m)
        BY <2>6, <2>9, <3>1, <3>2
      <4> QED BY <2>9, <3>2, <3>3, <4>1, <4>2 DEF q
    <3>5. History!Redo
      BY <2>14, <3>3, <3>4 DEF History!Redo, GoesForth, q, g, p, f
    <3> QED BY <2>7, <2>8, <3>1, <3>4, <3>5 DEF History!Next
  <2> QED BY <2>1, <2>10, <2>11, <2>12, <2>13, <2>14 DEF Walks
<1> QED BY <1>1, <1>2

\* Every item of the stack lies between the texts that undoing and redoing it (do_undo, do_redo)
\* lead to, whatever was typed, cut, pasted, undone or redone before.
THEOREM HistoryKept ==
  ASSUME Retraceable
  PROVE  HistorySpec => []HistoryInv
<1>1. HistoryInit => HistoryInv
  <2> SUFFICES ASSUME HistoryInit  PROVE HistoryInv
    OBVIOUS
  <2>1. Good(ed) /\ Collects(ed)
    BY KeptInit DEF HistoryInit, Kept
  <2>2. ed.items = <<>> /\ ed.cu = 1 /\ ed.last = "OTHER" /\ past = <<>> /\ future = <<>>
    BY DEF HistoryInit, Init
  <2>3. Len(<<>>) = 0 /\ <<>> \in Seq(Texts)
    OBVIOUS
  <2> QED BY <2>1, <2>2, <2>3 DEF HistoryInv, Good, Sound, Fine, StackOK, Tracks
<1>2. HistoryInv /\ [HistoryNext]_<<ed, past, future>> => HistoryInv'
  BY HistoryStep DEF HistoryGoes
<1> QED BY <1>1, <1>2, PTL DEF HistorySpec

\* Typing, breaking lines, deleting, cutting, copying, pasting, undoing and redoing in any order
\* move through one history of texts: undo comes back to the text from before the operation its
\* item was recorded for, redo goes forward again, and a new operation forgets the future.
THEOREM UndoRedoIsAHistory ==
  ASSUME Retraceable
  PROVE  HistorySpec => UndoHistory
<1>1. HistoryInit => History!Init
  BY DEF HistoryInit, History!Init
<1>2. HistoryInv /\ [HistoryNext]_<<ed, past, future>> => [History!Next]_(History!vars)
  BY HistoryStep DEF HistoryGoes
<1> QED BY <1>1, <1>2, HistoryKept, PTL DEF HistorySpec, UndoHistory, History!Spec

\* Whatever item is on either side of current_undo, do_undo and do_redo take each other back.
THEOREM UndoRedoThereAndBack ==
  ASSUME Retraceable
  PROVE  HistorySpec => []ThereAndBack
<1>1. HistoryInv => ThereAndBack
  <2> SUFFICES ASSUME HistoryInv  PROVE ThereAndBack
    OBVIOUS
  <2>1. /\ ed \in States /\ ~ed.ub /\ StackOK(ed) /\ ed.lines \in Texts /\ Tracks(ed, past, future)
        /\ NoNewlines /\ ~CountSize
    BY DEF Retraceable, HistoryInv, Fine, States
  <2>2. Len(ed.items) \in Nat /\ ed.cu \in Nat /\ ed.cu >= 1 /\ ed.cu <= Len(ed.items) + 1
    BY <2>1, StackSizes
  <2>3. ASSUME HasUndo(ed)  PROVE Redo(Undo(ed)).lines = ed.lines
    <3> DEFINE t == Undo(ed)
               p == past[Len(past)]
    <3>1. ed.cu \in 1..Len(ed.items) /\ ed.cu + 1 \in 2..Len(ed.items) + 1 /\ (ed.cu + 1) - 1 = ed.cu
      BY <2>2, <2>3 DEF HasUndo
    <3>2. p \in Texts /\ Records(ed.items[ed.cu], p, ed.lines)
      BY <2>1, <3>1, TrackItem
    <3> HIDE DEF p, t
    <3>3. UndoIs(ed, t, p)
      BY <2>1, <3>1, <3>2, UndoLeads DEF t
    <3>4. RedoIs(t, Redo(t), ed.lines)
      BY <2>1, <3>1, <3>2, <3>3, RedoLeads DEF UndoIs
    <3> QED BY <3>4 DEF RedoIs, t
  <2>4. ASSUME HasRedo(ed)  PROVE Undo(Redo(ed)).lines = ed.lines
    <3> DEFINE t == Redo(ed)
               f == future[1]
    <3>1. ed.cu > 1 /\ ed.cu \in 2..Len(ed.items) + 1 /\ ed.cu - 1 \in 1..Len(ed.items)
      BY <2>2, <2>4 DEF HasRedo
    <3>2. f \in Texts /\ Records(ed.items[ed.cu - 1], ed.lines, f)
      BY <2>1, <3>1, TrackItem
    <3> HIDE DEF f, t
    <3>3. RedoIs(ed, t, f)
      BY <2>1, <3>1, <3>2, RedoLeads DEF t
    <3>4. UndoIs(t, Undo(t), ed.lines)
      BY <2>1, <3>1, <3>2, <3>3, UndoLeads DEF RedoIs
    <3> QED BY <3>4 DEF UndoIs, t
  <2> QED BY <2>3, <2>4 DEF ThereAndBack
<1> QED BY <1>1, HistoryKept, PTL

\* With undo and redo, too, the cursor stays in the text (the assertions of do_output and
\* do_deletion), nothing is read past the end of a line, and do_undo finds the line of its item.
THEOREM UndoRedoKeepsRunning ==
  ASSUME Retraceable
  PROVE  HistorySpec => []KeepsRunning
<1>1. HistoryInv => KeepsRunning
  <2> SUFFICES ASSUME HistoryInv  PROVE KeepsRunning
    OBVIOUS
  <2>1. ed \in States /\ ed.lines \in Texts /\ CursorIn(ed) /\ ~ed.ub /\ StackOK(ed) /\ Tracks(ed, past, future)
    BY DEF HistoryInv, Fine, States
  <2>2. InText(ed, Cursor(ed))
    BY <2>1, CursorPlace
  <2>3. ASSUME HasUndo(ed)  PROVE CurUndo(ed).mlineno \in 1..Len(ed.lines)
    BY <2>1, <2>3, StackSizes, ItemIn, TrackItem, RecordsPlace DEF HasUndo, CurUndo, RecordsAt
  <2> QED BY <2>1, <2>2, <2>3 DEF KeepsRunning, NoUndefined, CursorInText, UndoReachable
<1> QED BY <1>1, HistoryKept, PTL

\* With undo and redo, too, the mark is a position of the text (mark_begin, mark_begin_x), the
\* state has its type and current_undo is on the stack.
THEOREM UndoRedoMarkInText ==
  ASSUME Retraceable
  PROVE  HistorySpec => [](TypeOK /\ MarkInText)
<1>1. HistoryInv => TypeOK /\ MarkInText
  <2> SUFFICES ASSUME HistoryInv  PROVE TypeOK /\ MarkInText
    OBVIOUS
  <2>1. ed \in States /\ CursorIn(ed) /\ StackOK(ed) /\ Marks(ed) /\ NoNewlines
    BY DEF HistoryInv, Fine, Retraceable
  <2> QED BY <2>1 DEF TypeOK, MarkInText, InText, CursorIn, StackOK, Marks
<1> QED BY <1>1, HistoryKept, PTL
===============================================================================
