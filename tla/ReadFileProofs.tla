----------------------------- MODULE ReadFileProofs -----------------------------
(***************************************************************************)
(* Proofs about reading files, for any files, insertions and flags.        *)
(*                                                                         *)
(* The lemmas about texts come first.  A text is taken apart at a position *)
(* into the lines before, the two sides of the line, and the lines after;  *)
(* what Attach, With, Without and Region make of such pieces is then a     *)
(* concatenation of them.  TotSize and Write are recursive functions: that *)
(* there is such a function, and only one, is shown by induction over the  *)
(* natural numbers as a set (NatSet), and so is what they make of          *)
(* concatenations.                                                         *)
(***************************************************************************)
EXTENDS ReadFile, SequenceTheorems, WellFoundedInduction, TLAPS

\* The provers take no string to be in STRING.
Char  == STRING \cup {"r", "n"}
Line  == Seq(Char)
Lines == Seq(Line)
Texts == {t \in Lines : t # <<>>}

-----------------------------------------------------------------------------
(* Induction.                                                              *)

\* What holds 0 and with each natural number the next holds all of them.
LEMMA NatSet ==
  ASSUME NEW S, 0 \in S, \A n \in Nat : n \in S => n + 1 \in S
  PROVE  \A n \in Nat : n \in S
<1> DEFINE T == {n \in Nat : n \notin S}
           R == {p \in Nat \X Nat : p[1] < p[2]}
<1>1. IsWellFoundedOn(R, Nat)
  BY NatLessThanWellFounded DEF OpToRel
<1>2. ASSUME T # {} PROVE \E a \in T : \A b \in T : <<b, a>> \notin R
  <2>1. T \subseteq Nat
    OBVIOUS
  <2> HIDE DEF R, T
  <2> QED BY <1>1, <1>2, <2>1, WFMin
<1>3. ASSUME T # {} PROVE FALSE
  <2>1. PICK a \in T : \A b \in T : <<b, a>> \notin R
    BY <1>2, <1>3
  <2>2. a \in Nat \ {0} /\ a \notin S
    OBVIOUS
  <2>3. a - 1 \in Nat /\ a - 1 + 1 = a /\ <<a - 1, a>> \in R
    BY <2>2
  <2>4. a - 1 \notin T
    BY <2>1, <2>3
  <2>5. a - 1 \in S
    BY <2>3, <2>4
  <2> QED BY <2>2, <2>3, <2>5
<1> QED BY <1>3

-----------------------------------------------------------------------------
(* Sequences.                                                              *)

LEMMA LenNat ==
  ASSUME NEW S, NEW s \in Seq(S)
  PROVE  Len(s) \in Nat /\ (s # <<>> => Len(s) \in Nat \ {0})
BY EmptySeq, LenProperties

LEMMA One ==
  ASSUME NEW S, NEW e \in S
  PROVE  <<e>> \in Seq(S) /\ Len(<<e>>) = 1 /\ <<e>>[1] = e /\ <<e>> # <<>>
OBVIOUS

\* A sequence is its last element appended to the others, or empty.
LEMMA LastApart ==
  ASSUME NEW S, NEW s \in Seq(S), s # <<>>
  PROVE  \E r \in Seq(S), e \in S : s = Append(r, e) /\ e = s[Len(s)] /\ Len(s) = Len(r) + 1
<1>1. PICK r \in Seq(S), e \in S : s = Append(r, e)
  BY SequenceEmptyOrAppend
<1>2. Len(s) = Len(r) + 1 /\ s[Len(r) + 1] = e
  BY <1>1, AppendProperties
<1> QED BY <1>1, <1>2

\* Appending to the second of two sequences is appending to both.
LEMMA ConcatAppend ==
  ASSUME NEW S, NEW s \in Seq(S), NEW t \in Seq(S), NEW e \in S
  PROVE  s \o Append(t, e) = Append(s \o t, e)
<1>1. Append(t, e) = t \o <<e>> /\ <<e>> \in Seq(S)
  BY AppendIsConcat, One
<1>2. s \o t \in Seq(S)
  BY ConcatProperties
<1>3. Append(s \o t, e) = (s \o t) \o <<e>>
  BY <1>2, AppendIsConcat
<1> QED BY <1>1, <1>3, ConcatAssociative

-----------------------------------------------------------------------------
(* The size of a text.                                                     *)

SizeRec(s, f) ==
    f = [n \in 0..Len(s) |-> IF n = 0 THEN -1 ELSE f[n - 1] + Len(s[n]) + 1]

\* What SizeRec says of the numbers of f.
LEMMA SizeSteps ==
  ASSUME NEW s \in Lines, NEW f, SizeRec(s, f)
  PROVE  /\ DOMAIN f = 0..Len(s) /\ f[0] = -1
         /\ \A n \in 1..Len(s) : f[n] = f[n - 1] + Len(s[n]) + 1
<1> DEFINE g == [n \in 0..Len(s) |-> IF n = 0 THEN -1 ELSE f[n - 1] + Len(s[n]) + 1]
<1>1. Len(s) \in Nat
  BY LenNat DEF Lines
<1>2. DOMAIN g = 0..Len(s) /\ g[0] = -1
  BY <1>1
<1>3. \A n \in 1..Len(s) : g[n] = f[n - 1] + Len(s[n]) + 1
  BY <1>1
<1>4. f = g
  BY DEF SizeRec
<1> HIDE DEF g
<1> QED BY <1>2, <1>3, <1>4

\* A function that begins with -1 and goes on with the lengths is SizeRec.
LEMMA SizeFrom ==
  ASSUME NEW s \in Lines, NEW f, f \in [0..Len(s) -> Int], f[0] = -1,
         \A n \in 1..Len(s) : f[n] = f[n - 1] + Len(s[n]) + 1
  PROVE  SizeRec(s, f)
<1> DEFINE g == [n \in 0..Len(s) |-> IF n = 0 THEN -1 ELSE f[n - 1] + Len(s[n]) + 1]
<1>1. Len(s) \in Nat
  BY LenNat DEF Lines
<1>2. ASSUME NEW n \in 0..Len(s) PROVE f[n] = g[n]
  <2>1. CASE n = 0
    BY <1>1, <2>1
  <2>2. CASE n # 0
    <3>1. n \in 1..Len(s)
      BY <1>1, <2>2
    <3> QED BY <3>1, <2>2
  <2> QED BY <2>1, <2>2
<1>3. f = g
  <2>1. g = [n \in 0..Len(s) |-> g[n]] /\ f = [n \in 0..Len(s) |-> f[n]]
    OBVIOUS
  <2> HIDE DEF g
  <2> QED BY <2>1, <1>2
<1> QED BY <1>3 DEF SizeRec

\* There is such a function of integers,
LEMMA SizeExists ==
  ASSUME NEW s \in Lines
  PROVE  \E f \in [0..Len(s) -> Int] : SizeRec(s, f)
<1> DEFINE Has(n) == \A r \in Lines : Len(r) = n => \E f \in [0..Len(r) -> Int] : SizeRec(r, f)
           S == {n \in Nat : Has(n)}
<1>1. 0 \in S
  <2> SUFFICES ASSUME NEW r \in Lines, Len(r) = 0
               PROVE  \E f \in [0..Len(r) -> Int] : SizeRec(r, f)
    OBVIOUS
  <2> DEFINE f == [n \in 0..Len(r) |-> -1]
  <2>1. f \in [0..Len(r) -> Int] /\ f[0] = -1
    OBVIOUS
  <2>2. \A n \in 1..Len(r) : f[n] = f[n - 1] + Len(r[n]) + 1
    OBVIOUS
  <2> HIDE DEF f
  <2> QED BY <2>1, <2>2, SizeFrom
<1>2. ASSUME NEW n \in Nat, n \in S PROVE n + 1 \in S
  <2> SUFFICES ASSUME NEW r \in Lines, Len(r) = n + 1
               PROVE  \E f \in [0..Len(r) -> Int] : SizeRec(r, f)
    OBVIOUS
  <2>1. r # <<>>
    BY EmptySeq
  <2>2. PICK q \in Lines, l \in Line : r = Append(q, l) /\ Len(r) = Len(q) + 1
    BY <2>1, LastApart DEF Lines
  <2>3. Len(q) = n /\ Len(q) \in Nat /\ Len(l) \in Nat
    BY <2>2, LenNat DEF Lines, Line
  <2>4. PICK g \in [0..n -> Int] : SizeRec(q, g)
    BY <1>2, <2>3
  <2>5. /\ g[0] = -1
        /\ \A m \in 1..n : g[m] = g[m - 1] + Len(q[m]) + 1
    BY <2>3, <2>4, SizeSteps
  <2>6. /\ \A m \in 1..n : r[m] = q[m]
        /\ r[n + 1] = l
    BY <2>2, <2>3, AppendProperties DEF Lines
  <2> DEFINE f == [m \in 0..n + 1 |-> IF m = n + 1 THEN g[n] + Len(l) + 1 ELSE g[m]]
  <2>7. f \in [0..Len(r) -> Int] /\ f[0] = -1
    BY <2>3, <2>5
  <2>8. ASSUME NEW m \in 1..Len(r) PROVE f[m] = f[m - 1] + Len(r[m]) + 1
    <3>1. CASE m = n + 1
      <4>1. f[m] = g[n] + Len(l) + 1 /\ f[m - 1] = g[n]
        BY <3>1
      <4> QED BY <4>1, <3>1, <2>6
    <3>2. CASE m # n + 1
      <4>1. m \in 1..n /\ m \in 0..n + 1 /\ m - 1 \in 0..n + 1 /\ m - 1 # n + 1
        BY <3>2
      <4>2. f[m] = g[m] /\ f[m - 1] = g[m - 1]
        BY <4>1, <3>2
      <4> QED BY <4>1, <4>2, <2>5, <2>6
    <3> QED BY <3>1, <3>2
  <2> HIDE DEF f
  <2> QED BY <2>7, <2>8, SizeFrom
<1>3. \A n \in Nat : n \in S
  <2> HIDE DEF S
  <2> QED BY <1>1, <1>2, NatSet
<1>4. Len(s) \in Nat
  BY LenNat DEF Lines
<1> QED BY <1>3, <1>4

\* and of two such functions, of a sequence and of one that goes on, the one is
\* the beginning of the other.
LEMMA SizeAgree ==
  ASSUME NEW s \in Lines, NEW r \in Lines, NEW f, NEW g, SizeRec(s, f), SizeRec(r, g),
         Len(s) <= Len(r), \A n \in 1..Len(s) : r[n] = s[n]
  PROVE  f[Len(s)] = g[Len(s)]
<1> DEFINE S == {n \in Nat : n <= Len(s) => f[n] = g[n]}
<1>1. Len(s) \in Nat /\ Len(r) \in Nat
  BY LenNat DEF Lines
<1>2. 0 \in S
  BY SizeSteps
<1>3. ASSUME NEW n \in Nat, n \in S PROVE n + 1 \in S
  <2> SUFFICES ASSUME n + 1 <= Len(s) PROVE f[n + 1] = g[n + 1]
    OBVIOUS
  <2>1. f[n] = g[n] /\ n + 1 \in 1..Len(s) /\ n + 1 \in 1..Len(r) /\ n + 1 - 1 = n
    BY <1>1, <1>3
  <2>2. f[n + 1] = f[n] + Len(s[n + 1]) + 1
    BY <2>1, SizeSteps
  <2>3. g[n + 1] = g[n] + Len(r[n + 1]) + 1
    BY <2>1, SizeSteps
  <2> QED BY <2>1, <2>2, <2>3
<1>4. \A n \in Nat : n \in S
  <2> HIDE DEF S
  <2> QED BY <1>2, <1>3, NatSet
<1> QED BY <1>1, <1>4

LEMMA SizeIs ==
  ASSUME NEW s \in Lines
  PROVE  \E f \in [0..Len(s) -> Int] : SizeRec(s, f) /\ TotSize(s) = f[Len(s)]
<1> DEFINE size == CHOOSE f : SizeRec(s, f)
<1>1. PICK g \in [0..Len(s) -> Int] : SizeRec(s, g)
  BY SizeExists
<1>2. SizeRec(s, size)
  BY <1>1
<1>3. TotSize(s) = size[Len(s)]
  BY DEF TotSize, SizeRec
<1> HIDE DEF size
<1>4. Len(s) \in Nat
  BY LenNat DEF Lines
<1>5. TotSize(s) = g[Len(s)]
  BY <1>1, <1>2, <1>3, <1>4, SizeAgree
<1> QED BY <1>1, <1>5

LEMMA SizeInt ==
  ASSUME NEW s \in Lines
  PROVE  TotSize(s) \in Int
<1>1. Len(s) \in Nat
  BY LenNat DEF Lines
<1> QED BY <1>1, SizeIs

LEMMA SizeEmpty == TotSize(<<>>) = -1
<1>1. <<>> \in Lines /\ Len(<<>>) = 0
  BY EmptySeq DEF Lines
<1>2. PICK f : SizeRec(<<>>, f) /\ TotSize(<<>>) = f[0]
  BY <1>1, SizeIs
<1> QED BY <1>1, <1>2, SizeSteps

LEMMA SizeAppend ==
  ASSUME NEW s \in Lines, NEW l \in Line
  PROVE  TotSize(Append(s, l)) = TotSize(s) + Len(l) + 1
<1> DEFINE r == Append(s, l)
<1>1. r \in Lines /\ Len(r) = Len(s) + 1 /\ r[Len(s) + 1] = l
      /\ \A n \in 1..Len(s) : r[n] = s[n]
  BY AppendProperties DEF Lines
<1> HIDE DEF r
<1>2. Len(s) \in Nat
  BY LenNat DEF Lines
<1>3. PICK f : SizeRec(s, f) /\ TotSize(s) = f[Len(s)]
  BY SizeIs
<1>4. PICK g : SizeRec(r, g) /\ TotSize(r) = g[Len(r)]
  BY <1>1, SizeIs
<1>5. f[Len(s)] = g[Len(s)]
  <2>1. Len(s) <= Len(r)
    BY <1>1, <1>2
  <2> QED BY <2>1, <1>1, <1>3, <1>4, SizeAgree
<1>6. Len(r) \in 1..Len(r) /\ Len(r) - 1 = Len(s)
  BY <1>1, <1>2
<1>7. g[Len(r)] = g[Len(r) - 1] + Len(r[Len(r)]) + 1
  BY <1>1, <1>4, <1>6, SizeSteps
<1>8. TotSize(r) = TotSize(s) + Len(l) + 1
  BY <1>1, <1>3, <1>4, <1>5, <1>6, <1>7
<1> QED BY <1>8 DEF r

LEMMA SizeConcat ==
  ASSUME NEW s \in Lines, NEW t \in Lines
  PROVE  TotSize(s \o t) = TotSize(s) + TotSize(t) + 1
<1> DEFINE S == {n \in Nat : \A r \in Lines : Len(r) = n =>
                               TotSize(s \o r) = TotSize(s) + TotSize(r) + 1}
<1>1. 0 \in S
  <2> SUFFICES ASSUME NEW r \in Lines, Len(r) = 0
               PROVE  TotSize(s \o r) = TotSize(s) + TotSize(r) + 1
    OBVIOUS
  <2>1. r = <<>> /\ s \o r = s
    BY EmptySeq, ConcatEmptySeq DEF Lines
  <2> QED BY <2>1, SizeEmpty, SizeInt
<1>2. ASSUME NEW n \in Nat, n \in S PROVE n + 1 \in S
  <2> SUFFICES ASSUME NEW r \in Lines, Len(r) = n + 1
               PROVE  TotSize(s \o r) = TotSize(s) + TotSize(r) + 1
    OBVIOUS
  <2>1. r # <<>>
    BY EmptySeq
  <2>2. PICK q \in Lines, l \in Line : r = Append(q, l) /\ Len(r) = Len(q) + 1
    BY <2>1, LastApart DEF Lines
  <2>3. Len(q) = n /\ Len(l) \in Nat
    BY <2>2, LenNat DEF Lines, Line
  <2>4. TotSize(s \o q) = TotSize(s) + TotSize(q) + 1
    BY <1>2, <2>3
  <2>5. s \o r = Append(s \o q, l) /\ s \o q \in Lines
    BY <2>2, ConcatAppend, ConcatProperties DEF Lines
  <2>6. TotSize(s \o r) = TotSize(s \o q) + Len(l) + 1 /\ TotSize(r) = TotSize(q) + Len(l) + 1
    BY <2>2, <2>5, SizeAppend
  <2> QED BY <2>3, <2>4, <2>6, SizeInt
<1>3. \A n \in Nat : n \in S
  <2> HIDE DEF S
  <2> QED BY <1>1, <1>2, NatSet
<1>4. Len(t) \in Nat
  BY LenNat DEF Lines
<1> QED BY <1>3, <1>4

LEMMA SizeOne ==
  ASSUME NEW l \in Line
  PROVE  TotSize(<<l>>) = Len(l)
<1>1. <<>> \in Lines /\ <<l>> = Append(<<>>, l)
  BY EmptySeq DEF Lines
<1>2. TotSize(<<l>>) = -1 + Len(l) + 1
  BY <1>1, SizeAppend, SizeEmpty
<1> QED BY <1>2, LenNat DEF Line

-----------------------------------------------------------------------------
(* A text taken apart at a position.                                       *)

Joint(A, a, b, C) == A \o (<<a \o b>> \o C)
Spot(A, a) == <<Len(A) + 1, Len(a)>>

LEMMA PlaceIn ==
  ASSUME NEW t \in Texts, NEW p \in PositionsOf(t)
  PROVE  p = <<p[1], p[2]>> /\ p[1] \in 1..Len(t) /\ p[2] \in 0..Len(t[p[1]])
<1>1. PICK l \in 1..Len(t) : p \in {l} \X (0..Len(t[l]))
  BY DEF PositionsOf
<1> QED BY <1>1

LEMMA Place ==
  ASSUME NEW t \in Texts, NEW l \in 1..Len(t), NEW x \in 0..Len(t[l])
  PROVE  <<l, x>> \in PositionsOf(t)
BY DEF PositionsOf

LEMMA LineIn ==
  ASSUME NEW t \in Lines, NEW l \in 1..Len(t)
  PROVE  t[l] \in Line /\ Len(t[l]) \in Nat
<1>1. t[l] \in Line
  BY ElementOfSeq DEF Lines
<1> QED BY <1>1, LenNat DEF Line

\* The two sides of a line.
LEMMA Sides ==
  ASSUME NEW line \in Line, NEW x \in 0..Len(line)
  PROVE  /\ Prefix(line, x) \in Line /\ Suffix(line, x) \in Line
         /\ Len(Prefix(line, x)) = x /\ line = Prefix(line, x) \o Suffix(line, x)
<1>1. Len(line) \in Nat
  BY LenNat DEF Line
<1>2. Prefix(line, x) = SubSeq(line, 1, x)
  BY <1>1 DEF Prefix
<1>3. \A i \in 1..x : line[i] \in Char
  BY <1>1, ElementOfSeq DEF Line
<1>4. SubSeq(line, 1, x) \in Line /\ Len(SubSeq(line, 1, x)) = x
  BY <1>1, <1>3, SubSeqProperties DEF Line
<1>5. \A i \in x + 1..Len(line) : line[i] \in Char
  BY <1>1, ElementOfSeq DEF Line
<1>6. Suffix(line, x) \in Line
  BY <1>1, <1>5, SubSeqProperties DEF Line, Suffix
<1>7. SubSeq(line, 1, x) \o SubSeq(line, x + 1, Len(line)) = SubSeq(line, 1, Len(line))
  <2>1. 1 \in 1..Len(line) + 1 /\ x \in 1 - 1..Len(line) /\ Len(line) \in x..Len(line)
    BY <1>1
  <2>2. line \in Seq(Char)
    BY DEF Line
  <2> QED BY ONLY <2>1, <2>2, ConcatAdjacentSubSeq
<1>8. SubSeq(line, 1, Len(line)) = line
  BY SubSeqFull DEF Line
<1> QED BY <1>2, <1>4, <1>6, <1>7, <1>8 DEF Suffix

LEMMA TakenApart ==
  ASSUME NEW t \in Texts, NEW p \in PositionsOf(t)
  PROVE  \E A \in Lines, a \in Line, b \in Line, C \in Lines :
            t = Joint(A, a, b, C) /\ p = Spot(A, a)
<1> DEFINE l == p[1]
           A == SubSeq(t, 1, l - 1)
           C == SubSeq(t, l + 1, Len(t))
           a == Prefix(t[l], p[2])
           b == Suffix(t[l], p[2])
<1>1. p = <<l, p[2]>> /\ l \in 1..Len(t) /\ p[2] \in 0..Len(t[l]) /\ t \in Lines
      /\ Len(t) \in Nat
  BY PlaceIn, LenNat DEF Texts, Lines
<1>2. t[l] \in Line
  BY <1>1, LineIn
<1>3. a \in Line /\ b \in Line /\ Len(a) = p[2] /\ t[l] = a \o b
  BY <1>1, <1>2, Sides
<1>4. \A i \in 1..Len(t) : t[i] \in Line
  BY <1>1, LineIn
<1>5. A \in Lines /\ Len(A) = l - 1
  <2>1. \A i \in 1..l - 1 : t[i] \in Line
    BY <1>1, <1>4
  <2> QED BY <1>1, <2>1, SubSeqProperties DEF Lines
<1>6. C \in Lines
  <2>1. \A i \in l + 1..Len(t) : t[i] \in Line
    BY <1>1, <1>4
  <2> QED BY <1>1, <2>1, SubSeqProperties DEF Lines
<1>7. SubSeq(t, l, Len(t)) = <<t[l]>> \o C
  <2>1. l \in 1..Len(t) /\ Len(t) \in l..Len(t) /\ t \in Seq(Line)
    BY <1>1 DEF Lines
  <2> QED BY ONLY <2>1, SubSeqRecursiveFirst
<1>8. A \o SubSeq(t, l, Len(t)) = SubSeq(t, 1, Len(t))
  <2>1. l - 1 \in 1 - 1..Len(t) /\ Len(t) \in l - 1..Len(t) /\ 1 \in 1..Len(t) + 1
        /\ l - 1 + 1 = l /\ t \in Seq(Line)
    BY <1>1 DEF Lines
  <2>2. SubSeq(t, 1, l - 1) \o SubSeq(t, l - 1 + 1, Len(t)) = SubSeq(t, 1, Len(t))
    BY ONLY <2>1, ConcatAdjacentSubSeq
  <2> QED BY <2>1, <2>2
<1>9. SubSeq(t, 1, Len(t)) = t
  BY <1>1, SubSeqFull DEF Lines
<1>10. t = Joint(A, a, b, C)
  BY <1>3, <1>7, <1>8, <1>9 DEF Joint
<1>11. p = Spot(A, a)
  BY <1>1, <1>3, <1>5 DEF Spot
<1> HIDE DEF A, C, a, b
<1> QED BY <1>3, <1>5, <1>6, <1>10, <1>11

\* What such a text has in the line taken apart, before and behind it.
LEMMA JointFacts ==
  ASSUME NEW A \in Lines, NEW a \in Line, NEW b \in Line, NEW C \in Lines
  PROVE  /\ Joint(A, a, b, C) \in Texts /\ Len(Joint(A, a, b, C)) = Len(A) + 1 + Len(C)
         /\ \A i \in 1..Len(A) : Joint(A, a, b, C)[i] = A[i]
         /\ \A i \in 1..Len(C) : Joint(A, a, b, C)[Len(A) + 1 + i] = C[i]
         /\ Len(A) \in Nat /\ Len(C) \in Nat /\ Len(a) \in Nat /\ Len(a \o b) = Len(a) + Len(b)
         /\ Len(b) \in Nat /\ a \o b \in Line
<1> DEFINE D == <<a \o b>> \o C
           t == A \o D
<1>1. /\ a \o b \in Line /\ Len(a \o b) = Len(a) + Len(b)
      /\ Len(A) \in Nat /\ Len(C) \in Nat /\ Len(a) \in Nat /\ Len(b) \in Nat
  BY ConcatProperties, LenNat DEF Lines, Line
<1>2. <<a \o b>> \in Lines /\ Len(<<a \o b>>) = 1 /\ <<a \o b>>[1] = a \o b
  BY <1>1, One DEF Lines
<1>3. D \in Lines /\ Len(D) = 1 + Len(C)
      /\ \A i \in 1..1 + Len(C) : D[i] = IF i <= 1 THEN <<a \o b>>[i] ELSE C[i - 1]
  BY <1>2, ConcatProperties DEF Lines
<1> HIDE DEF D
<1>4. t \in Lines /\ Len(t) = Len(A) + Len(D)
      /\ \A i \in 1..Len(A) + Len(D) : t[i] = IF i <= Len(A) THEN A[i] ELSE D[i - Len(A)]
  BY <1>3, ConcatProperties DEF Lines
<1>5. t = Joint(A, a, b, C)
  BY DEF Joint, D
<1> HIDE DEF t
<1>6. Len(t) = Len(A) + 1 + Len(C)
  BY <1>1, <1>3, <1>4
<1>7. t # <<>>
  BY <1>1, <1>6, EmptySeq
<1>8. \A i \in 1..Len(A) : t[i] = A[i]
  BY <1>1, <1>3, <1>4
<1>9. ASSUME NEW i \in 1..Len(C) PROVE t[Len(A) + 1 + i] = C[i]
  <2>1. Len(A) + 1 + i \in 1..Len(A) + Len(D) /\ ~(Len(A) + 1 + i <= Len(A))
    BY <1>1, <1>3
  <2>2. t[Len(A) + 1 + i] = D[Len(A) + 1 + i - Len(A)]
    BY <1>4, <2>1
  <2>3. Len(A) + 1 + i - Len(A) = 1 + i /\ 1 + i \in 1..1 + Len(C) /\ ~(1 + i <= 1) /\ 1 + i - 1 = i
    BY <1>1
  <2> QED BY <1>3, <2>2, <2>3
<1> QED BY <1>1, <1>4, <1>5, <1>6, <1>7, <1>8, <1>9 DEF Texts

LEMMA JointLine ==
  \A A, C \in Lines, a, b \in Line :
     /\ Joint(A, a, b, C) \in Texts
     /\ Len(Joint(A, a, b, C)) = Len(A) + 1 + Len(C)
     /\ Joint(A, a, b, C)[Spot(A, a)[1]] = a \o b
<1> TAKE A, C \in Lines, a, b \in Line
<1> DEFINE t == Joint(A, a, b, C)
           l == Spot(A, a)[1]
           e == a \o b
<1>1. t \in Texts /\ Len(t) = Len(A) + 1 + Len(C) /\ e \in Line /\ Len(A) \in Nat /\ Len(C) \in Nat
  BY JointFacts
<1>2. t = A \o (<<e>> \o C) /\ l = Len(A) + 1
  BY DEF Joint, Spot
<1> HIDE DEF t, e, l
<1> DEFINE D == <<e>> \o C
<1>3. <<e>> \in Lines /\ Len(<<e>>) = 1 /\ <<e>>[1] = e
  BY <1>1, One DEF Lines
<1>4. D \in Lines /\ Len(D) = 1 + Len(C)
      /\ \A i \in 1..1 + Len(C) : D[i] = IF i <= 1 THEN <<e>>[i] ELSE C[i - 1]
  BY <1>3, ConcatProperties DEF Lines
<1>5. t = A \o D
  BY <1>2
<1>6. D[1] = e
  BY <1>1, <1>3, <1>4
<1> HIDE DEF D
<1>7. \A i \in 1..Len(A) + Len(D) : t[i] = IF i <= Len(A) THEN A[i] ELSE D[i - Len(A)]
  BY <1>4, <1>5, ConcatProperties DEF Lines
<1>8. l \in 1..Len(A) + Len(D) /\ ~(l <= Len(A)) /\ l - Len(A) = 1
  BY <1>1, <1>2, <1>4
<1>9. t[l] = e
  BY <1>6, <1>7, <1>8
<1> QED BY <1>1, <1>9 DEF t, l, e

\* The sides of a line that is two lines joined.
LEMMA JointSides ==
  ASSUME NEW a \in Line, NEW b \in Line
  PROVE  Prefix(a \o b, Len(a)) = a /\ Suffix(a \o b, Len(a)) = b
<1>1. /\ a \o b \in Line /\ Len(a \o b) = Len(a) + Len(b) /\ Len(a) \in Nat /\ Len(b) \in Nat
      /\ \A i \in 1..Len(a) + Len(b) : (a \o b)[i] = IF i <= Len(a) THEN a[i] ELSE b[i - Len(a)]
  BY ConcatProperties, LenNat DEF Line
<1>2. \A i \in 1..Len(a) + Len(b) : (a \o b)[i] \in Char
  BY <1>1, ElementOfSeq DEF Line
<1>3. Prefix(a \o b, Len(a)) = SubSeq(a \o b, 1, Len(a))
  BY <1>1 DEF Prefix
<1>4. SubSeq(a \o b, 1, Len(a)) = a
  <2> DEFINE u == SubSeq(a \o b, 1, Len(a))
  <2>1. \A i \in 1..Len(a) : (a \o b)[i] \in Char
    BY <1>1, <1>2
  <2>2. u \in Line /\ Len(u) = Len(a) /\ \A i \in 1..Len(a) - 1 + 1 : u[i] = (a \o b)[1 + i - 1]
    BY <1>1, <2>1, SubSeqProperties DEF Line
  <2>3. \A i \in 1..Len(a) : u[i] = a[i]
    BY <1>1, <2>2
  <2> HIDE DEF u
  <2>4. u = a
    BY <2>2, <2>3, SeqEqual DEF Line
  <2> QED BY <2>4 DEF u
<1>5. Suffix(a \o b, Len(a)) = b
  <2> DEFINE m == Len(a) + 1
             n == Len(a) + Len(b)
             u == SubSeq(a \o b, m, n)
  <2>1. \A i \in m..n : (a \o b)[i] \in Char
    BY <1>1, <1>2
  <2>2. u \in Line /\ Len(u) = (IF m <= n THEN n - m + 1 ELSE 0)
        /\ \A i \in 1..n - m + 1 : u[i] = (a \o b)[m + i - 1]
    BY <1>1, <2>1, SubSeqProperties DEF Line
  <2>3. Len(u) = Len(b)
    BY <1>1, <2>2
  <2>4. \A i \in 1..Len(b) : u[i] = b[i]
    BY <1>1, <2>2
  <2>5. u = Suffix(a \o b, Len(a))
    BY <1>1 DEF Suffix
  <2> HIDE DEF u
  <2>6. u = b
    BY <2>2, <2>3, <2>4, SeqEqual DEF Line
  <2> QED BY <2>5, <2>6
<1> QED BY <1>3, <1>4, <1>5

\* Beginnings and ends of a concatenation.
LEMMA ConcatParts ==
  ASSUME NEW A \in Lines, NEW D \in Lines
  PROVE  /\ SubSeq(A \o D, 1, Len(A)) = A
         /\ SubSeq(A \o D, Len(A) + 1, Len(A \o D)) = D
<1>1. /\ A \o D \in Lines /\ Len(A \o D) = Len(A) + Len(D) /\ Len(A) \in Nat /\ Len(D) \in Nat
      /\ \A i \in 1..Len(A) + Len(D) : (A \o D)[i] = IF i <= Len(A) THEN A[i] ELSE D[i - Len(A)]
  BY ConcatProperties, LenNat DEF Lines
<1>2. \A i \in 1..Len(A) + Len(D) : (A \o D)[i] \in Line
  BY <1>1, ElementOfSeq DEF Lines
<1>3. SubSeq(A \o D, 1, Len(A)) = A
  <2> DEFINE u == SubSeq(A \o D, 1, Len(A))
  <2>1. \A i \in 1..Len(A) : (A \o D)[i] \in Line
    BY <1>1, <1>2
  <2>2. u \in Lines /\ Len(u) = Len(A) /\ \A i \in 1..Len(A) - 1 + 1 : u[i] = (A \o D)[1 + i - 1]
    BY <1>1, <2>1, SubSeqProperties DEF Lines
  <2>3. \A i \in 1..Len(A) : u[i] = A[i]
    BY <1>1, <2>2
  <2> HIDE DEF u
  <2>4. u = A
    BY <2>2, <2>3, SeqEqual DEF Lines
  <2> QED BY <2>4 DEF u
<1>4. SubSeq(A \o D, Len(A) + 1, Len(A \o D)) = D
  <2> DEFINE m == Len(A) + 1
             n == Len(A) + Len(D)
             u == SubSeq(A \o D, m, n)
  <2>1. \A i \in m..n : (A \o D)[i] \in Line
    BY <1>1, <1>2
  <2>2. u \in Lines /\ Len(u) = (IF m <= n THEN n - m + 1 ELSE 0)
        /\ \A i \in 1..n - m + 1 : u[i] = (A \o D)[m + i - 1]
    BY <1>1, <2>1, SubSeqProperties DEF Lines
  <2>3. Len(u) = Len(D)
    BY <1>1, <2>2
  <2>4. \A i \in 1..Len(D) : u[i] = D[i]
    BY <1>1, <2>2
  <2>5. u = SubSeq(A \o D, Len(A) + 1, Len(A \o D))
    BY <1>1
  <2> HIDE DEF u
  <2>6. u = D
    BY <2>2, <2>3, <2>4, SeqEqual DEF Lines
  <2> QED BY <2>5, <2>6
<1> QED BY <1>3, <1>4

\* A text taken apart where a and b join.
LEMMA JointParts ==
  ASSUME NEW A \in Lines, NEW a \in Line, NEW b \in Line, NEW C \in Lines
  PROVE  /\ TextBefore(Joint(A, a, b, C), Spot(A, a)) = A \o <<a>>
         /\ TextFrom(Joint(A, a, b, C), Spot(A, a)) = <<b>> \o C
         /\ Joint(A, a, b, C) \in Texts
         /\ Spot(A, a) \in PositionsOf(Joint(A, a, b, C))
<1> DEFINE t == Joint(A, a, b, C)
           p == Spot(A, a)
           D == <<a \o b>> \o C
           B == A \o <<a \o b>>
<1>1. /\ t \in Texts /\ Len(t) = Len(A) + 1 + Len(C) /\ t[p[1]] = a \o b
      /\ Len(A) \in Nat /\ Len(C) \in Nat /\ Len(a) \in Nat
      /\ Len(b) \in Nat /\ Len(a \o b) = Len(a) + Len(b) /\ a \o b \in Line
  <2>1. t \in Texts /\ Len(t) = Len(A) + 1 + Len(C) /\ t[p[1]] = a \o b
    BY JointLine
  <2> HIDE DEF t
  <2> QED BY <2>1, JointFacts
<1>2. <<a \o b>> \in Lines /\ Len(<<a \o b>>) = 1 /\ D \in Lines /\ B \in Lines
  BY <1>1, One, ConcatProperties DEF Lines
<1>3. t = A \o D
  BY DEF Joint
<1>4. t = B \o C
  BY <1>2, ConcatAssociative DEF Joint, Lines
<1>5. Len(B) = Len(A) + 1
  BY <1>2, ConcatProperties DEF Lines
<1> HIDE DEF D, B
<1>6. SubSeq(t, 1, Len(A)) = A
  BY <1>2, <1>3, ConcatParts
<1>7. SubSeq(t, Len(A) + 2, Len(t)) = C
  <2>1. SubSeq(B \o C, Len(B) + 1, Len(B \o C)) = C
    BY <1>2, ConcatParts
  <2>2. Len(B) + 1 = Len(A) + 2
    BY <1>1, <1>5
  <2> QED BY <1>4, <2>1, <2>2
<1> HIDE DEF t
<1>8. p[1] = Len(A) + 1 /\ p[2] = Len(a) /\ p[1] - 1 = Len(A) /\ p[1] + 1 = Len(A) + 2
  BY <1>1 DEF Spot
<1>9. Prefix(t[p[1]], p[2]) = a /\ Suffix(t[p[1]], p[2]) = b
  BY <1>1, <1>8, JointSides
<1>10. TextBefore(t, p) = A \o <<a>>
  BY <1>6, <1>8, <1>9 DEF TextBefore
<1>11. TextFrom(t, p) = <<b>> \o C
  BY <1>7, <1>8, <1>9 DEF TextFrom
<1>12. p \in PositionsOf(t)
  <2>1. Len(A) + 1 \in 1..Len(t) /\ Len(a) \in 0..Len(t[Len(A) + 1])
    BY <1>1, <1>8
  <2> QED BY <1>1, <2>1, Place DEF Spot
<1> QED BY <1>1, <1>10, <1>11, <1>12 DEF t

LEMMA JointBefore ==
  \A A, C \in Lines, a, b \in Line : TextBefore(Joint(A, a, b, C), Spot(A, a)) = A \o <<a>>
BY JointParts

LEMMA JointFrom ==
  \A A, C \in Lines, a, b \in Line : TextFrom(Joint(A, a, b, C), Spot(A, a)) = <<b>> \o C
BY JointParts

LEMMA JointPlace ==
  \A A, C \in Lines, a, b \in Line :
     Joint(A, a, b, C) \in Texts /\ Spot(A, a) \in PositionsOf(Joint(A, a, b, C))
BY JointParts

\* Attaching joins the last line of the one to the first of the other.
LEMMA Attached ==
  \A A, C \in Lines, a, b \in Line :
     Attach(A \o <<a>>, <<b>> \o C) = Joint(A, a, b, C)
<1> TAKE A, C \in Lines, a, b \in Line
<1> DEFINE B == A \o <<a>>
           D == <<b>> \o C
<1>1. <<a>> \in Lines /\ Len(<<a>>) = 1 /\ <<b>> \in Lines /\ Len(<<b>>) = 1
      /\ <<a>>[1] = a /\ <<b>>[1] = b
  BY One DEF Lines
<1>2. /\ Len(A) \in Nat /\ Len(C) \in Nat
  BY LenNat DEF Lines
<1>3. /\ B \in Lines /\ Len(B) = Len(A) + 1 /\ B[Len(A) + 1] = a
      /\ SubSeq(B, 1, Len(A)) = A
  <2>1. /\ B \in Lines /\ Len(B) = Len(A) + 1
        /\ \A i \in 1..Len(A) + 1 : B[i] = IF i <= Len(A) THEN A[i] ELSE <<a>>[i - Len(A)]
    BY <1>1, ConcatProperties DEF Lines
  <2>2. SubSeq(B, 1, Len(A)) = A
    BY <1>1, ConcatParts
  <2>3. B[Len(A) + 1] = <<a>>[Len(A) + 1 - Len(A)]
    <3>1. Len(A) + 1 \in 1..Len(A) + 1 /\ ~(Len(A) + 1 <= Len(A))
      BY <1>2
    <3> QED BY <2>1, <3>1
  <2>4. Len(A) + 1 - Len(A) = 1
    BY <1>2
  <2> QED BY <1>1, <2>1, <2>2, <2>3, <2>4
<1>4. /\ D \in Lines /\ D[1] = b /\ SubSeq(D, 2, Len(D)) = C
  <2>1. /\ D \in Lines
        /\ \A i \in 1..1 + Len(C) : D[i] = IF i <= 1 THEN <<b>>[i] ELSE C[i - 1]
    BY <1>1, ConcatProperties DEF Lines
  <2>2. SubSeq(D, 1 + 1, Len(D)) = C
    BY <1>1, ConcatParts
  <2>3. 1 \in 1..1 + Len(C)
    BY <1>2
  <2> QED BY <1>1, <2>1, <2>2, <2>3
<1> HIDE DEF B, D
<1>5. Attach(B, D) = A \o <<a \o b>> \o C
  <2>1. Len(B) - 1 = Len(A) /\ B[Len(B)] = a
    BY <1>2, <1>3
  <2> QED BY <1>3, <1>4, <2>1 DEF Attach
<1>6. <<a \o b>> \in Lines
  BY JointFacts, One DEF Lines
<1>7. (A \o <<a \o b>>) \o C = A \o (<<a \o b>> \o C)
  BY <1>6, ConcatAssociative DEF Lines
<1> QED BY <1>5, <1>7 DEF B, D, Joint

\* The size of a text that was joined.
LEMMA JointSize ==
  \A A, C \in Lines, a, b \in Line :
     TotSize(Joint(A, a, b, C)) = TotSize(A \o <<a>>) + TotSize(<<b>> \o C)
<1> TAKE A, C \in Lines, a, b \in Line
<1>1. <<a>> \in Lines /\ <<b>> \in Lines /\ <<a \o b>> \in Lines
  BY JointFacts, One DEF Lines
<1>2. <<b>> \o C \in Lines /\ <<a \o b>> \o C \in Lines
  BY <1>1, ConcatProperties DEF Lines
<1>3. TotSize(Joint(A, a, b, C)) = TotSize(A) + TotSize(<<a \o b>> \o C) + 1
  BY <1>2, SizeConcat DEF Joint
<1>4. TotSize(<<a \o b>> \o C) = Len(a \o b) + TotSize(C) + 1
  <2>1. a \o b \in Line
    BY JointFacts
  <2>2. TotSize(<<a \o b>>) = Len(a \o b)
    BY <2>1, SizeOne
  <2> QED BY <1>1, <2>2, SizeConcat
<1>5. TotSize(A \o <<a>>) = TotSize(A) + Len(a) + 1
  BY <1>1, SizeConcat, SizeOne
<1>6. TotSize(<<b>> \o C) = Len(b) + TotSize(C) + 1
  BY <1>1, SizeConcat, SizeOne
<1>7. Len(a \o b) = Len(a) + Len(b) /\ Len(a) \in Nat /\ Len(b) \in Nat
  BY JointFacts
<1> QED BY <1>3, <1>4, <1>5, <1>6, <1>7, SizeInt

Fitted(A, a, b, C, u, M, v) ==
    LET t     == Joint(A, a, b, C)
        p     == Spot(A, a)
        piece == <<u>> \o (M \o <<v>>)
        made  == With(t, p, piece)
        q     == EndOf(p, piece) IN
    /\ made = Joint(A \o (<<a \o u>> \o M), v, b, C)
    /\ made = Joint(A, a, u, M \o Joint(<<>>, v, b, C))
    /\ piece \in Texts /\ Len(piece) = Len(M) + 2 /\ piece[Len(piece)] = v
    /\ q = <<Len(A) + Len(piece), Len(v)>>
    /\ TextBefore(made, q) = Joint(A, a, u, M \o <<v>>)
    /\ TextFrom(made, q) = <<b>> \o C
    /\ q \in PositionsOf(made) /\ made \in Texts
    /\ Region(made, p, q) = piece
    /\ TextBefore(made, p) = A \o <<a>>

\* A piece of more than one line, spliced in.
LEMMA WithPiece ==
  ASSUME NEW A \in Lines, NEW a \in Line, NEW b \in Line, NEW C \in Lines,
         NEW u \in Line, NEW M \in Lines, NEW v \in Line
  PROVE  Fitted(A, a, b, C, u, M, v)
<1> DEFINE t     == Joint(A, a, b, C)
           p     == Spot(A, a)
           piece == <<u>> \o (M \o <<v>>)
           made  == With(t, p, piece)
           q     == EndOf(p, piece)
           U     == <<a \o u>>
           N     == M \o <<v>>
           E     == A \o (U \o M)
           J     == Joint(<<>>, v, b, C)
<1>1. /\ a \o u \in Line /\ v \o b \in Line /\ Len(A) \in Nat /\ Len(M) \in Nat /\ Len(a) \in Nat
      /\ Len(v) \in Nat
  BY JointFacts
<1>2. <<a>> \in Lines /\ <<b>> \in Lines /\ <<u>> \in Lines /\ <<v>> \in Lines /\ U \in Lines
      /\ <<v \o b>> \in Lines /\ <<>> \in Lines
  BY <1>1, One, EmptySeq DEF Lines
<1>3. N \in Lines /\ U \o M \in Lines /\ E \in Lines
  BY <1>2, ConcatProperties DEF Lines
<1>4. Len(U) = 1 /\ Len(<<u>>) = 1 /\ Len(<<v>>) = 1 /\ <<v>>[1] = v
  OBVIOUS
<1>5. Len(N) = Len(M) + 1 /\ Len(U \o M) = Len(M) + 1 /\ Len(E) = Len(A) + Len(M) + 1
  BY <1>1, <1>2, <1>3, <1>4, ConcatProperties DEF Lines
<1>6. piece \in Lines /\ Len(piece) = Len(M) + 2
      /\ \A i \in 1..1 + Len(N) : piece[i] = IF i <= 1 THEN <<u>>[i] ELSE N[i - 1]
  BY <1>1, <1>2, <1>3, <1>4, <1>5, ConcatProperties DEF Lines
<1>7. piece # <<>>
  BY <1>1, <1>6
<1>8. piece[Len(piece)] = v
  <2>1. Len(M) + 2 \in 1..1 + Len(N) /\ ~(Len(M) + 2 <= 1) /\ Len(M) + 2 - 1 = Len(M) + 1
    BY <1>1, <1>5
  <2>2. piece[Len(M) + 2] = N[Len(M) + 1]
    BY <1>6, <2>1
  <2>3. \A i \in 1..Len(M) + 1 : N[i] = IF i <= Len(M) THEN M[i] ELSE <<v>>[i - Len(M)]
    BY <1>2, <1>4, ConcatProperties DEF Lines
  <2>4. Len(M) + 1 \in 1..Len(M) + 1 /\ ~(Len(M) + 1 <= Len(M)) /\ Len(M) + 1 - Len(M) = 1
    BY <1>1
  <2> QED BY <1>4, <1>6, <2>2, <2>3, <2>4
<1>9. TextBefore(t, p) = A \o <<a>> /\ TextFrom(t, p) = <<b>> \o C
  <2>1. TextBefore(t, p) = A \o <<a>>
    BY JointBefore
  <2>2. TextFrom(t, p) = <<b>> \o C
    BY JointFrom
  <2> QED BY <2>1, <2>2
<1>10. Attach(A \o <<a>>, piece) = A \o (U \o N)
  <2> HIDE DEF N
  <2>1. Attach(A \o <<a>>, <<u>> \o N) = Joint(A, a, u, N)
    BY <1>3, Attached
  <2> QED BY <2>1 DEF Joint, N
<1>11. A \o (U \o N) = E \o <<v>>
  <2>1. U \o N = (U \o M) \o <<v>>
    BY <1>2, <1>3, ConcatAssociative DEF Lines
  <2>2. A \o ((U \o M) \o <<v>>) = (A \o (U \o M)) \o <<v>>
    BY <1>2, <1>3, ConcatAssociative DEF Lines
  <2> QED BY <2>1, <2>2
<1> HIDE DEF piece
<1>12. made = Joint(E, v, b, C)
  <2>1. made = Attach(Attach(A \o <<a>>, piece), <<b>> \o C)
    BY <1>9 DEF With
  <2>2. made = Attach(E \o <<v>>, <<b>> \o C)
    BY <1>10, <1>11, <2>1
  <2> QED BY <1>3, <2>2, Attached
<1>13. q = <<Len(A) + Len(piece), Len(v)>>
  <2>1. Len(piece) # 1 /\ Len(A) + 1 + Len(piece) - 1 = Len(A) + Len(piece)
    BY <1>1, <1>6
  <2> QED BY <1>8, <2>1 DEF EndOf, Spot
<1>14. q = Spot(E, v)
  <2>1. Len(A) + Len(piece) = Len(E) + 1
    BY <1>1, <1>5, <1>6
  <2> QED BY <1>13, <2>1 DEF Spot
<1> HIDE DEF made, q, t
<1>15. /\ TextBefore(made, q) = E \o <<v>> /\ TextFrom(made, q) = <<b>> \o C
       /\ q \in PositionsOf(made) /\ made \in Texts
  <2> HIDE DEF E
  <2>1. E \in Lines
    BY <1>3
  <2> HIDE DEF N, U, J, p
  <2>2. TextBefore(Joint(E, v, b, C), Spot(E, v)) = E \o <<v>>
    BY <2>1, JointBefore
  <2>3. TextFrom(Joint(E, v, b, C), Spot(E, v)) = <<b>> \o C
    BY <2>1, JointFrom
  <2>4. Joint(E, v, b, C) \in Texts /\ Spot(E, v) \in PositionsOf(Joint(E, v, b, C))
    BY <2>1, JointPlace
  <2> QED BY <1>12, <1>14, <2>2, <2>3, <2>4
<1>16. TextBefore(made, q) = Joint(A, a, u, N)
  BY <1>11, <1>15 DEF Joint
<1>17. TextFrom(Joint(A, a, u, N), p) = <<u>> \o N
  <2> HIDE DEF N
  <2>1. N \in Lines
    BY <1>3
  <2> QED BY <2>1, JointFrom
<1>18. Region(made, p, q) = piece
  BY <1>16, <1>17 DEF Region, piece
<1>19. J = <<v \o b>> \o C /\ J \in Lines
  <2>1. <<v \o b>> \o C \in Lines
    BY <1>2, ConcatProperties DEF Lines
  <2>2. J = <<>> \o (<<v \o b>> \o C)
    BY DEF Joint
  <2>3. <<>> \o (<<v \o b>> \o C) = <<v \o b>> \o C
    BY <2>1, ConcatEmptySeq DEF Lines
  <2> QED BY <2>1, <2>2, <2>3
<1> HIDE DEF J
<1>20. made = Joint(A, a, u, M \o J)
  <2>1. made = (A \o (U \o M)) \o J
    BY <1>12, <1>19 DEF Joint, E
  <2>2. (A \o (U \o M)) \o J = A \o ((U \o M) \o J)
    BY <1>3, <1>19, ConcatAssociative DEF Lines
  <2>3. (U \o M) \o J = U \o (M \o J)
    BY <1>2, <1>19, ConcatAssociative DEF Lines
  <2> QED BY <2>1, <2>2, <2>3 DEF Joint
<1>21. M \o J \in Lines
  BY <1>19, ConcatProperties DEF Lines
<1>22. TextBefore(made, p) = A \o <<a>>
  <2> DEFINE K == M \o J
  <2>1. K \in Lines
    BY <1>21
  <2> HIDE DEF K
  <2>2. TextBefore(Joint(A, a, u, K), p) = A \o <<a>>
    BY <2>1, JointBefore
  <2> QED BY <1>20, <2>2 DEF K
<1> QED BY <1>6, <1>7, <1>8, <1>12, <1>13, <1>15, <1>16, <1>18, <1>20, <1>22
        DEF t, made, q, piece, J, E, N, U, Texts, Fitted

-----------------------------------------------------------------------------
(* What is written.                                                        *)

WriteRec(s, f, w) ==
    w = [n \in 1..Len(s) |-> IF n = 1 THEN s[1] ELSE w[n - 1] \o LineEnd(f) \o s[n]]

LEMMA EndIn ==
  ASSUME NEW f
  PROVE  LineEnd(f) \in Line
<1>1. "n" \in Char /\ "r" \in Char
  BY DEF Char
<1>2. <<"n">> \in Seq(Char) /\ <<"r">> \in Seq(Char)
  BY <1>1, One
<1>3. <<"r", "n">> = Append(<<"r">>, "n")
  OBVIOUS
<1>4. Append(<<"r">>, "n") \in Seq(Char)
  BY <1>1, <1>2, AppendProperties
<1> QED BY <1>2, <1>3, <1>4 DEF LineEnd, Line

LEMMA WriteSteps ==
  ASSUME NEW s \in Texts, NEW f, NEW w, WriteRec(s, f, w)
  PROVE  /\ w[1] = s[1]
         /\ \A n \in 2..Len(s) : w[n] = w[n - 1] \o LineEnd(f) \o s[n]
<1> DEFINE g == [n \in 1..Len(s) |-> IF n = 1 THEN s[1] ELSE w[n - 1] \o LineEnd(f) \o s[n]]
<1>1. Len(s) \in Nat \ {0}
  BY LenNat DEF Lines, Texts
<1>2. g[1] = s[1]
  BY <1>1
<1>3. ASSUME NEW n \in 2..Len(s) PROVE g[n] = w[n - 1] \o LineEnd(f) \o s[n]
  <2>1. n \in 1..Len(s) /\ n # 1
    BY <1>1
  <2> QED BY <2>1
<1>4. w = g
  BY DEF WriteRec
<1> HIDE DEF g
<1> QED BY <1>2, <1>3, <1>4

LEMMA WriteFirst == \A s \in Texts : \A f, w : WriteRec(s, f, w) => w[1] = s[1]
<1> TAKE s \in Texts
<1> TAKE f, w
<1> QED BY WriteSteps

LEMMA WriteNext ==
  \A s \in Texts : \A f, w : WriteRec(s, f, w) =>
     \A n \in 2..Len(s) : w[n] = w[n - 1] \o LineEnd(f) \o s[n]
BY WriteSteps

LEMMA WriteFrom ==
  ASSUME NEW s \in Texts, NEW f, NEW w, w \in [1..Len(s) -> Line], w[1] = s[1],
         \A n \in 2..Len(s) : w[n] = w[n - 1] \o LineEnd(f) \o s[n]
  PROVE  WriteRec(s, f, w)
<1> DEFINE g == [n \in 1..Len(s) |-> IF n = 1 THEN s[1] ELSE w[n - 1] \o LineEnd(f) \o s[n]]
<1>1. Len(s) \in Nat \ {0}
  BY LenNat DEF Lines, Texts
<1>2. ASSUME NEW n \in 1..Len(s) PROVE w[n] = g[n]
  <2>1. CASE n = 1
    BY <2>1
  <2>2. CASE n # 1
    <3>1. n \in 2..Len(s)
      BY <1>1, <2>2
    <3>2. g[n] = w[n - 1] \o LineEnd(f) \o s[n]
      BY <2>2
    <3> HIDE DEF g
    <3> QED BY <3>1, <3>2
  <2> QED BY <2>1, <2>2
<1>3. w = g
  <2>1. g = [n \in 1..Len(s) |-> g[n]] /\ w = [n \in 1..Len(s) |-> w[n]]
    OBVIOUS
  <2> HIDE DEF g
  <2> QED BY <2>1, <1>2
<1> QED BY <1>3 DEF WriteRec

LEMMA WriteExists ==
  ASSUME NEW s \in Texts, NEW f
  PROVE  \E w \in [1..Len(s) -> Line] : WriteRec(s, f, w)
<1> DEFINE Has(n) == \A r \in Texts : Len(r) = n + 1 => \E w \in [1..Len(r) -> Line] : WriteRec(r, f, w)
           S == {n \in Nat : Has(n)}
<1>1. 0 \in S
  <2> SUFFICES ASSUME NEW r \in Texts, Len(r) = 1
               PROVE  \E w \in [1..Len(r) -> Line] : WriteRec(r, f, w)
    OBVIOUS
  <2> DEFINE w == [n \in 1..Len(r) |-> r[1]]
  <2>1. r[1] \in Line
    BY LineIn DEF Texts
  <2>2. w \in [1..Len(r) -> Line] /\ w[1] = r[1]
    BY <2>1
  <2>3. \A n \in 2..Len(r) : w[n] = w[n - 1] \o LineEnd(f) \o r[n]
    OBVIOUS
  <2> HIDE DEF w
  <2> QED BY <2>2, <2>3, WriteFrom
<1>2. ASSUME NEW n \in Nat, n \in S PROVE n + 1 \in S
  <2> SUFFICES ASSUME NEW r \in Texts, Len(r) = n + 2
               PROVE  \E w \in [1..Len(r) -> Line] : WriteRec(r, f, w)
    OBVIOUS
  <2>1. r # <<>> /\ r \in Lines
    BY DEF Texts
  <2>2. PICK q \in Lines, l \in Line : r = Append(q, l) /\ Len(r) = Len(q) + 1
    BY <2>1, LastApart DEF Lines
  <2>3. Len(q) = n + 1
    BY <2>2, LenNat DEF Lines
  <2>4. q \in Texts
    BY <2>2, <2>3, EmptySeq DEF Texts
  <2>5. PICK g \in [1..n + 1 -> Line] : WriteRec(q, f, g)
    BY <1>2, <2>3, <2>4
  <2>6. /\ g[1] = q[1]
        /\ \A m \in 2..n + 1 : g[m] = g[m - 1] \o LineEnd(f) \o q[m]
    <3>1. g[1] = q[1]
      BY <2>4, <2>5, WriteFirst
    <3>2. \A m \in 2..Len(q) : g[m] = g[m - 1] \o LineEnd(f) \o q[m]
      BY <2>4, <2>5, WriteNext
    <3> QED BY <2>3, <3>1, <3>2
  <2>7. /\ \A m \in 1..n + 1 : r[m] = q[m]
        /\ r[n + 2] = l
    BY <2>2, <2>3, AppendProperties DEF Lines
  <2> DEFINE e == g[n + 1] \o LineEnd(f) \o l
             w == [m \in 1..n + 2 |-> IF m = n + 2 THEN e ELSE g[m]]
  <2>8. e \in Line
    <3>1. g[n + 1] \in Line
      OBVIOUS
    <3>2. g[n + 1] \o LineEnd(f) \in Line
      BY <3>1, EndIn, ConcatProperties DEF Line
    <3> QED BY <3>2, ConcatProperties DEF Line
  <2> HIDE DEF e
  <2>9. w \in [1..Len(r) -> Line]
    BY <2>8
  <2>10. w[1] = r[1]
    <3>1. 1 \in 1..n + 1 /\ 1 # n + 2 /\ 1 \in 1..n + 2
      OBVIOUS
    <3>2. w[1] = g[1]
      BY <3>1
    <3> QED BY <2>6, <2>7, <3>1, <3>2
  <2>11. ASSUME NEW m \in 2..Len(r) PROVE w[m] = w[m - 1] \o LineEnd(f) \o r[m]
    <3>1. CASE m = n + 2
      <4>1. w[m] = e /\ w[m - 1] = g[n + 1] /\ r[m] = l
        BY <3>1, <2>7
      <4> HIDE DEF w
      <4> QED BY <4>1 DEF e
    <3>2. CASE m # n + 2
      <4>1. m \in 2..n + 1 /\ m \in 1..n + 1 /\ m \in 1..n + 2 /\ m - 1 \in 1..n + 2 /\ m - 1 # n + 2
        BY <3>2
      <4>2. w[m] = g[m] /\ w[m - 1] = g[m - 1]
        BY <4>1, <3>2
      <4> HIDE DEF w
      <4> QED BY <4>1, <4>2, <2>6, <2>7
    <3> QED BY <3>1, <3>2
  <2> HIDE DEF w
  <2> QED BY <2>9, <2>10, <2>11, WriteFrom
<1>3. \A n \in Nat : n \in S
  <2> HIDE DEF S
  <2> QED BY <1>1, <1>2, NatSet
<1>4. Len(s) - 1 \in Nat /\ Len(s) = Len(s) - 1 + 1
  BY LenNat DEF Lines, Texts
<1> QED BY <1>3, <1>4

LEMMA WriteAgree ==
  ASSUME NEW s \in Texts, NEW r \in Texts, NEW f, NEW w, NEW g, WriteRec(s, f, w),
         WriteRec(r, f, g), Len(s) <= Len(r), \A n \in 1..Len(s) : r[n] = s[n]
  PROVE  w[Len(s)] = g[Len(s)]
<1> DEFINE S == {n \in Nat : n + 1 <= Len(s) => w[n + 1] = g[n + 1]}
<1>1. Len(s) \in Nat \ {0} /\ Len(r) \in Nat \ {0}
  BY LenNat DEF Lines, Texts
<1>2. 0 \in S
  <2>1. 1 \in 1..Len(s) /\ 0 + 1 = 1
    BY <1>1
  <2>2. w[1] = s[1] /\ g[1] = r[1]
    BY WriteFirst
  <2>3. w[0 + 1] = g[0 + 1]
    BY <2>1, <2>2
  <2> QED BY <2>3
<1>3. ASSUME NEW n \in Nat, n \in S PROVE n + 1 \in S
  <2> SUFFICES ASSUME n + 2 <= Len(s) PROVE w[n + 2] = g[n + 2]
    OBVIOUS
  <2> DEFINE m == n + 2
  <2>1. w[m - 1] = g[m - 1] /\ m \in 2..Len(s) /\ m \in 2..Len(r) /\ m \in 1..Len(s)
    <3>1. w[n + 1] = g[n + 1] /\ m - 1 = n + 1
      BY <1>1, <1>3
    <3> QED BY <1>1, <3>1
  <2> HIDE DEF m
  <2>2. w[m] = w[m - 1] \o LineEnd(f) \o s[m]
    BY <2>1, WriteNext
  <2>3. g[m] = g[m - 1] \o LineEnd(f) \o r[m]
    BY <2>1, WriteNext
  <2>4. w[m] = g[m]
    BY <2>1, <2>2, <2>3
  <2> QED BY <2>4 DEF m
<1>4. \A n \in Nat : n \in S
  <2> HIDE DEF S
  <2> QED BY <1>2, <1>3, NatSet
<1>5. Len(s) - 1 \in Nat /\ Len(s) - 1 + 1 = Len(s) /\ Len(s) <= Len(s)
  BY <1>1
<1> QED BY <1>4, <1>5

LEMMA WriteIs ==
  ASSUME NEW s \in Texts, NEW f
  PROVE  \E w \in [1..Len(s) -> Line] : WriteRec(s, f, w) /\ Write(s, f) = w[Len(s)]
<1> DEFINE v == CHOOSE w : WriteRec(s, f, w)
<1>1. PICK g \in [1..Len(s) -> Line] : WriteRec(s, f, g)
  BY WriteExists
<1>2. WriteRec(s, f, v)
  BY <1>1
<1>3. Write(s, f) = v[Len(s)]
  BY DEF Write, WriteRec
<1> HIDE DEF v
<1>4. Len(s) \in Nat /\ Len(s) <= Len(s)
  BY LenNat DEF Lines, Texts
<1>5. Write(s, f) = g[Len(s)]
  BY <1>1, <1>2, <1>3, <1>4, WriteAgree
<1> QED BY <1>1, <1>5

LEMMA WriteIn ==
  ASSUME NEW s \in Texts, NEW f
  PROVE  Write(s, f) \in Line
<1>1. Len(s) \in 1..Len(s)
  BY LenNat DEF Lines, Texts
<1> QED BY <1>1, WriteIs

LEMMA WriteOne ==
  ASSUME NEW l \in Line, NEW f
  PROVE  Write(<<l>>, f) = l
<1>1. <<l>> \in Texts /\ Len(<<l>>) = 1 /\ <<l>>[1] = l
  BY One DEF Lines, Texts
<1>2. PICK w : WriteRec(<<l>>, f, w) /\ Write(<<l>>, f) = w[1]
  BY <1>1, WriteIs
<1>3. w[1] = <<l>>[1]
  BY <1>1, <1>2, WriteSteps
<1> QED BY <1>1, <1>2, <1>3

LEMMA WriteAppend ==
  ASSUME NEW s \in Texts, NEW l \in Line, NEW f
  PROVE  Write(Append(s, l), f) = Write(s, f) \o LineEnd(f) \o l
<1> DEFINE r == Append(s, l)
<1>1. r \in Lines /\ r # <<>> /\ Len(r) = Len(s) + 1 /\ r[Len(s) + 1] = l
      /\ \A n \in 1..Len(s) : r[n] = s[n]
  BY AppendProperties DEF Lines, Texts
<1> HIDE DEF r
<1>2. Len(s) \in Nat \ {0} /\ r \in Texts
  BY <1>1, LenNat DEF Lines, Texts
<1>3. PICK w : WriteRec(s, f, w) /\ Write(s, f) = w[Len(s)]
  BY WriteIs
<1>4. PICK g : WriteRec(r, f, g) /\ Write(r, f) = g[Len(r)]
  BY <1>2, WriteIs
<1>5. w[Len(s)] = g[Len(s)]
  <2>1. Len(s) <= Len(r)
    BY <1>1, <1>2
  <2> QED BY <2>1, <1>1, <1>2, <1>3, <1>4, WriteAgree
<1>6. Len(r) \in 2..Len(r) /\ Len(r) - 1 = Len(s)
  BY <1>1, <1>2
<1>7. g[Len(r)] = g[Len(r) - 1] \o LineEnd(f) \o r[Len(r)]
  BY <1>2, <1>4, <1>6, WriteSteps
<1>8. Write(r, f) = Write(s, f) \o LineEnd(f) \o l
  BY <1>1, <1>3, <1>4, <1>5, <1>6, <1>7
<1> QED BY <1>8 DEF r

\* Characters added to the last line are written at the end.
LEMMA WriteLonger ==
  ASSUME NEW s \in Lines, NEW l \in Line, NEW m \in Line, NEW f
  PROVE  /\ Write(Append(s, l \o m), f) = Write(Append(s, l), f) \o m
         /\ Append(s, l) \in Texts /\ Append(s, l \o m) \in Texts /\ l \o m \in Line
<1>1. l \o m \in Line
  BY ConcatProperties DEF Line
<1>2. Append(s, l) \in Texts /\ Append(s, l \o m) \in Texts
  BY <1>1, AppendProperties DEF Lines, Texts
<1>3. CASE s = <<>>
  <2>1. Append(s, l) = <<l>> /\ Append(s, l \o m) = <<l \o m>>
    BY <1>3
  <2>2. Write(<<l \o m>>, f) = l \o m /\ Write(<<l>>, f) = l
    BY <1>1, WriteOne
  <2> QED BY <1>1, <1>2, <2>1, <2>2
<1>4. CASE s # <<>>
  <2> DEFINE h == Write(s, f) \o LineEnd(f)
  <2>1. s \in Texts
    BY <1>4 DEF Texts
  <2>2. Write(s, f) \in Line
    BY <2>1, WriteIn
  <2>3. h \in Line
    BY <2>2, EndIn, ConcatProperties DEF Line
  <2>4. Write(Append(s, l), f) = h \o l
    BY <2>1, WriteAppend
  <2>5. Write(Append(s, l \o m), f) = h \o (l \o m)
    BY <1>1, <2>1, WriteAppend
  <2> HIDE DEF h
  <2>6. (h \o l) \o m = h \o (l \o m)
    BY <2>3, ConcatAssociative DEF Line
  <2> QED BY <1>1, <1>2, <2>4, <2>5, <2>6
<1> QED BY <1>3, <1>4

-----------------------------------------------------------------------------
(* The characters that are not line ends.                                  *)

Ends == {"r", "n"}

PlainRec(s, f) ==
    f = [n \in 0..Len(s) |->
           IF n = 0 THEN <<>>
           ELSE IF s[n] \in Ends THEN f[n - 1] ELSE Append(f[n - 1], s[n])]

\* What a character adds.
Kept(f, c) == IF c \in Ends THEN f ELSE Append(f, c)

LEMMA KeptIn ==
  ASSUME NEW f \in Line, NEW c \in Char
  PROVE  Kept(f, c) \in Line
BY AppendProperties DEF Kept, Line

LEMMA PlainSteps ==
  \A s \in Line : \A f : PlainRec(s, f) =>
     f[0] = <<>> /\ \A n \in 1..Len(s) : f[n] = Kept(f[n - 1], s[n])
<1> TAKE s \in Line
<1> TAKE f
<1> HAVE PlainRec(s, f)
<1> DEFINE g == [n \in 0..Len(s) |->
                   IF n = 0 THEN <<>>
                   ELSE IF s[n] \in Ends THEN f[n - 1] ELSE Append(f[n - 1], s[n])]
<1>1. Len(s) \in Nat
  BY LenNat DEF Line
<1>2. g[0] = <<>>
  BY <1>1
<1>3. ASSUME NEW n \in 1..Len(s) PROVE g[n] = Kept(f[n - 1], s[n])
  <2>1. n \in 0..Len(s) /\ n # 0
    BY <1>1
  <2> QED BY <2>1 DEF Kept
<1>4. f = g
  BY DEF PlainRec
<1> HIDE DEF g
<1> QED BY <1>2, <1>3, <1>4

LEMMA PlainFrom ==
  ASSUME NEW s \in Line, NEW f, f \in [0..Len(s) -> Line], f[0] = <<>>,
         \A n \in 1..Len(s) : f[n] = Kept(f[n - 1], s[n])
  PROVE  PlainRec(s, f)
<1> DEFINE g == [n \in 0..Len(s) |->
                   IF n = 0 THEN <<>>
                   ELSE IF s[n] \in Ends THEN f[n - 1] ELSE Append(f[n - 1], s[n])]
<1>1. Len(s) \in Nat
  BY LenNat DEF Line
<1>2. ASSUME NEW n \in 0..Len(s) PROVE f[n] = g[n]
  <2>1. CASE n = 0
    BY <2>1
  <2>2. CASE n # 0
    <3>1. n \in 1..Len(s)
      BY <1>1, <2>2
    <3>2. g[n] = Kept(f[n - 1], s[n])
      BY <2>2 DEF Kept
    <3> HIDE DEF g
    <3> QED BY <3>1, <3>2
  <2> QED BY <2>1, <2>2
<1>3. f = g
  <2>1. g = [n \in 0..Len(s) |-> g[n]] /\ f = [n \in 0..Len(s) |-> f[n]]
    OBVIOUS
  <2> HIDE DEF g
  <2> QED BY <2>1, <1>2
<1> QED BY <1>3 DEF PlainRec

LEMMA PlainExists ==
  ASSUME NEW s \in Line
  PROVE  \E f \in [0..Len(s) -> Line] : PlainRec(s, f)
<1> DEFINE Has(n) == \A r \in Line : Len(r) = n => \E f \in [0..Len(r) -> Line] : PlainRec(r, f)
           S == {n \in Nat : Has(n)}
<1>1. 0 \in S
  <2> SUFFICES ASSUME NEW r \in Line, Len(r) = 0
               PROVE  \E f \in [0..Len(r) -> Line] : PlainRec(r, f)
    OBVIOUS
  <2> DEFINE f == [n \in 0..Len(r) |-> <<>>]
  <2>1. f \in [0..Len(r) -> Line] /\ f[0] = <<>>
    BY EmptySeq DEF Line
  <2>2. \A n \in 1..Len(r) : f[n] = Kept(f[n - 1], r[n])
    OBVIOUS
  <2> HIDE DEF f
  <2> QED BY <2>1, <2>2, PlainFrom
<1>2. ASSUME NEW n \in Nat, n \in S PROVE n + 1 \in S
  <2> SUFFICES ASSUME NEW r \in Line, Len(r) = n + 1
               PROVE  \E f \in [0..Len(r) -> Line] : PlainRec(r, f)
    OBVIOUS
  <2>1. r # <<>>
    BY EmptySeq
  <2>2. PICK q \in Line, c \in Char : r = Append(q, c) /\ Len(r) = Len(q) + 1
    BY <2>1, LastApart DEF Line
  <2>3. Len(q) = n
    BY <2>2, LenNat DEF Line
  <2>4. PICK g \in [0..n -> Line] : PlainRec(q, g)
    BY <1>2, <2>3
  <2>5. /\ g[0] = <<>>
        /\ \A m \in 1..n : g[m] = Kept(g[m - 1], q[m])
    BY <2>3, <2>4, PlainSteps
  <2>6. /\ \A m \in 1..n : r[m] = q[m]
        /\ r[n + 1] = c
    BY <2>2, <2>3, AppendProperties DEF Line
  <2> DEFINE e == Kept(g[n], c)
             f == [m \in 0..n + 1 |-> IF m = n + 1 THEN e ELSE g[m]]
  <2>7. e \in Line
    <3>1. g[n] \in Line
      OBVIOUS
    <3> QED BY <3>1, KeptIn
  <2> HIDE DEF e
  <2>8. f \in [0..Len(r) -> Line] /\ f[0] = <<>>
    BY <2>5, <2>7
  <2>9. ASSUME NEW m \in 1..Len(r) PROVE f[m] = Kept(f[m - 1], r[m])
    <3>1. CASE m = n + 1
      <4>1. f[m] = e /\ f[m - 1] = g[n] /\ r[m] = c
        BY <3>1, <2>6
      <4> HIDE DEF f
      <4> QED BY <4>1 DEF e
    <3>2. CASE m # n + 1
      <4>1. m \in 1..n /\ m \in 0..n + 1 /\ m - 1 \in 0..n + 1 /\ m - 1 # n + 1
        BY <3>2
      <4>2. f[m] = g[m] /\ f[m - 1] = g[m - 1]
        BY <4>1, <3>2
      <4> HIDE DEF f
      <4> QED BY <4>1, <4>2, <2>5, <2>6
    <3> QED BY <3>1, <3>2
  <2> HIDE DEF f
  <2> QED BY <2>8, <2>9, PlainFrom
<1>3. \A n \in Nat : n \in S
  <2> HIDE DEF S
  <2> QED BY <1>1, <1>2, NatSet
<1>4. Len(s) \in Nat
  BY LenNat DEF Line
<1> QED BY <1>3, <1>4

LEMMA PlainAgree ==
  ASSUME NEW s \in Line, NEW r \in Line, NEW f, NEW g, PlainRec(s, f), PlainRec(r, g),
         Len(s) <= Len(r), \A n \in 1..Len(s) : r[n] = s[n]
  PROVE  f[Len(s)] = g[Len(s)]
<1> DEFINE S == {n \in Nat : n <= Len(s) => f[n] = g[n]}
<1>1. Len(s) \in Nat /\ Len(r) \in Nat
  BY LenNat DEF Line
<1>2. 0 \in S
  BY PlainSteps
<1>3. ASSUME NEW n \in Nat, n \in S PROVE n + 1 \in S
  <2> SUFFICES ASSUME n + 1 <= Len(s) PROVE f[n + 1] = g[n + 1]
    OBVIOUS
  <2> DEFINE m == n + 1
  <2>1. f[m - 1] = g[m - 1] /\ m \in 1..Len(s) /\ m \in 1..Len(r)
    <3>1. f[n] = g[n] /\ m - 1 = n
      BY <1>1, <1>3
    <3> QED BY <1>1, <3>1
  <2> HIDE DEF m
  <2>2. f[m] = Kept(f[m - 1], s[m])
    BY <2>1, PlainSteps
  <2>3. g[m] = Kept(g[m - 1], r[m])
    BY <2>1, PlainSteps
  <2>4. f[m] = g[m]
    BY <2>1, <2>2, <2>3
  <2> QED BY <2>4 DEF m
<1>4. \A n \in Nat : n \in S
  <2> HIDE DEF S
  <2> QED BY <1>2, <1>3, NatSet
<1> QED BY <1>1, <1>4

LEMMA PlainIs ==
  ASSUME NEW s \in Line
  PROVE  \E f \in [0..Len(s) -> Line] : PlainRec(s, f) /\ Plain(s) = f[Len(s)]
<1> DEFINE v == CHOOSE f : PlainRec(s, f)
<1>1. PICK g \in [0..Len(s) -> Line] : PlainRec(s, g)
  BY PlainExists
<1>2. PlainRec(s, v)
  BY <1>1
<1>3. Plain(s) = v[Len(s)]
  BY DEF Plain, PlainRec, Ends
<1> HIDE DEF v
<1>4. Len(s) \in Nat /\ Len(s) <= Len(s)
  BY LenNat DEF Line
<1>5. Plain(s) = g[Len(s)]
  BY <1>1, <1>2, <1>3, <1>4, PlainAgree
<1> QED BY <1>1, <1>5

LEMMA PlainIn ==
  ASSUME NEW s \in Line
  PROVE  Plain(s) \in Line
<1>1. Len(s) \in 0..Len(s)
  BY LenNat DEF Line
<1> QED BY <1>1, PlainIs

LEMMA PlainEmpty == Plain(<<>>) = <<>>
<1>1. <<>> \in Line /\ Len(<<>>) = 0
  BY EmptySeq DEF Line
<1>2. PICK f : PlainRec(<<>>, f) /\ Plain(<<>>) = f[0]
  BY <1>1, PlainIs
<1> QED BY <1>1, <1>2, PlainSteps

LEMMA PlainAppend ==
  ASSUME NEW s \in Line, NEW c \in Char
  PROVE  Plain(Append(s, c)) = Kept(Plain(s), c)
<1> DEFINE r == Append(s, c)
<1>1. r \in Line /\ Len(r) = Len(s) + 1 /\ r[Len(s) + 1] = c
      /\ \A n \in 1..Len(s) : r[n] = s[n]
  BY AppendProperties DEF Line
<1> HIDE DEF r
<1>2. Len(s) \in Nat
  BY LenNat DEF Line
<1>3. PICK f : PlainRec(s, f) /\ Plain(s) = f[Len(s)]
  BY PlainIs
<1>4. PICK g : PlainRec(r, g) /\ Plain(r) = g[Len(r)]
  BY <1>1, PlainIs
<1>5. f[Len(s)] = g[Len(s)]
  <2>1. Len(s) <= Len(r)
    BY <1>1, <1>2
  <2> QED BY <2>1, <1>1, <1>3, <1>4, PlainAgree
<1>6. Len(r) \in 1..Len(r) /\ Len(r) - 1 = Len(s)
  BY <1>1, <1>2
<1>7. g[Len(r)] = Kept(g[Len(r) - 1], r[Len(r)])
  BY <1>1, <1>4, <1>6, PlainSteps
<1>8. Plain(r) = Kept(Plain(s), c)
  BY <1>1, <1>3, <1>4, <1>5, <1>6, <1>7
<1> QED BY <1>8 DEF r

LEMMA KeptConcat ==
  ASSUME NEW p \in Line, NEW q \in Line, NEW c \in Char
  PROVE  Kept(p \o q, c) = p \o Kept(q, c)
<1>1. CASE c \in Ends
  BY <1>1 DEF Kept
<1>2. CASE c \notin Ends
  <2>1. p \o Append(q, c) = Append(p \o q, c)
    BY ConcatAppend DEF Line
  <2> QED BY <1>2, <2>1 DEF Kept
<1> QED BY <1>1, <1>2

LEMMA PlainConcat ==
  ASSUME NEW s \in Line, NEW t \in Line
  PROVE  Plain(s \o t) = Plain(s) \o Plain(t)
<1> DEFINE S == {n \in Nat : \A r \in Line : Len(r) = n => Plain(s \o r) = Plain(s) \o Plain(r)}
<1>1. 0 \in S
  <2> SUFFICES ASSUME NEW r \in Line, Len(r) = 0
               PROVE  Plain(s \o r) = Plain(s) \o Plain(r)
    OBVIOUS
  <2>1. r = <<>> /\ s \o r = s
    BY EmptySeq, ConcatEmptySeq DEF Line
  <2>2. Plain(s) \in Line
    BY PlainIn
  <2>3. Plain(s) \o <<>> = Plain(s)
    BY <2>2, ConcatEmptySeq DEF Line
  <2> QED BY <2>1, <2>3, PlainEmpty
<1>2. ASSUME NEW n \in Nat, n \in S PROVE n + 1 \in S
  <2> SUFFICES ASSUME NEW r \in Line, Len(r) = n + 1
               PROVE  Plain(s \o r) = Plain(s) \o Plain(r)
    OBVIOUS
  <2>1. r # <<>>
    BY EmptySeq
  <2>2. PICK q \in Line, c \in Char : r = Append(q, c) /\ Len(r) = Len(q) + 1
    BY <2>1, LastApart DEF Line
  <2>3. Len(q) = n
    BY <2>2, LenNat DEF Line
  <2>4. Plain(s \o q) = Plain(s) \o Plain(q)
    BY <1>2, <2>3
  <2>5. s \o r = Append(s \o q, c) /\ s \o q \in Line
    BY <2>2, ConcatAppend, ConcatProperties DEF Line
  <2>6. Plain(s \o r) = Kept(Plain(s \o q), c)
    BY <2>5, PlainAppend
  <2>7. Plain(r) = Kept(Plain(q), c)
    BY <2>2, PlainAppend
  <2>8. Plain(s) \in Line /\ Plain(q) \in Line
    BY PlainIn
  <2>9. Kept(Plain(s) \o Plain(q), c) = Plain(s) \o Kept(Plain(q), c)
    BY <2>8, KeptConcat
  <2> QED BY <2>4, <2>6, <2>7, <2>9
<1>3. \A n \in Nat : n \in S
  <2> HIDE DEF S
  <2> QED BY <1>1, <1>2, NatSet
<1>4. Len(t) \in Nat
  BY LenNat DEF Line
<1> QED BY <1>3, <1>4

LEMMA CharsOne ==
  ASSUME NEW l \in Line
  PROVE  Chars(<<l>>) = Plain(l)
BY WriteOne DEF Chars

\* A line end is no character.
LEMMA CharsAppend ==
  ASSUME NEW s \in Texts, NEW l \in Line
  PROVE  Chars(Append(s, l)) = Chars(s) \o Plain(l)
<1> DEFINE w == Write(s, "NIX")
<1>1. w \in Line
  BY WriteIn
<1>2. Write(Append(s, l), "NIX") = w \o <<"n">> \o l
  BY WriteAppend DEF LineEnd
<1> HIDE DEF w
<1>3. "n" \in Char /\ <<"n">> \in Line /\ w \o <<"n">> = Append(w, "n") /\ w \o <<"n">> \in Line
  <2>1. "n" \in Char
    BY DEF Char
  <2>2. <<"n">> \in Line
    BY <2>1, One DEF Line
  <2> QED BY <1>1, <2>1, <2>2, AppendIsConcat, ConcatProperties DEF Line
<1>4. Plain(w \o <<"n">>) = Plain(w)
  BY <1>1, <1>3, PlainAppend DEF Kept, Ends
<1>5. Plain(w \o <<"n">> \o l) = Plain(w \o <<"n">>) \o Plain(l)
  BY <1>3, PlainConcat
<1> QED BY <1>2, <1>4, <1>5 DEF Chars, w

LEMMA CharsIn ==
  ASSUME NEW s \in Texts
  PROVE  Chars(s) \in Line
BY WriteIn, PlainIn DEF Chars

\* The characters of a text that was joined.
JointHas(A, a, b, C) ==
    Chars(Joint(A, a, b, C)) = Chars(A \o <<a>>) \o Chars(<<b>> \o C)

LEMMA CharsJoint == \A A, C \in Lines, a, b \in Line : JointHas(A, a, b, C)
<1> TAKE A, C \in Lines, a, b \in Line
<1> DEFINE K == Append(A, a \o b)
           B == Append(A, a)
           S == {n \in Nat : \A D \in Lines : Len(D) = n =>
                               Chars(K \o D) = Chars(B) \o Chars(<<b>> \o D)}
<1>1. a \o b \in Line /\ <<a>> \in Lines /\ <<b>> \in Lines /\ <<a \o b>> \in Lines /\ <<b>> \in Texts
  BY JointFacts, One DEF Lines, Texts
<1>2. K \in Texts /\ B \in Texts
  BY <1>1, AppendProperties DEF Lines, Texts
<1>3. Chars(K) = Chars(B) \o Plain(b)
  <2>1. Write(K, "NIX") = Write(B, "NIX") \o b
    BY WriteLonger
  <2>2. Write(B, "NIX") \in Line
    BY <1>2, WriteIn
  <2> HIDE DEF K, B
  <2> QED BY <2>1, <2>2, PlainConcat DEF Chars
<1> HIDE DEF K, B
<1>4. 0 \in S
  <2> SUFFICES ASSUME NEW D \in Lines, Len(D) = 0
               PROVE  Chars(K \o D) = Chars(B) \o Chars(<<b>> \o D)
    OBVIOUS
  <2>1. D = <<>> /\ K \o D = K /\ <<b>> \o D = <<b>>
    BY <1>1, <1>2, EmptySeq, ConcatEmptySeq DEF Lines, Texts
  <2> QED BY <1>3, <2>1, CharsOne
<1>5. ASSUME NEW n \in Nat, n \in S PROVE n + 1 \in S
  <2> SUFFICES ASSUME NEW D \in Lines, Len(D) = n + 1
               PROVE  Chars(K \o D) = Chars(B) \o Chars(<<b>> \o D)
    OBVIOUS
  <2>1. D # <<>>
    BY EmptySeq
  <2>2. PICK q \in Lines, l \in Line : D = Append(q, l) /\ Len(D) = Len(q) + 1
    BY <2>1, LastApart DEF Lines
  <2>3. Len(q) = n
    BY <2>2, LenNat DEF Lines
  <2>4. Chars(K \o q) = Chars(B) \o Chars(<<b>> \o q)
    BY <1>5, <2>3
  <2>5. K \o D = Append(K \o q, l) /\ K \in Lines
    BY <1>2, <2>2, ConcatAppend DEF Lines, Texts
  <2>6. <<b>> \o D = Append(<<b>> \o q, l)
    BY <1>1, <2>2, ConcatAppend DEF Lines
  <2>7. K \o q \in Texts
    <3>1. K \o q \in Lines
      BY <2>5, ConcatProperties DEF Lines
    <3>2. K # <<>>
      BY <1>2 DEF Texts
    <3>3. K \o q # <<>>
      BY <2>5, <3>2, ConcatEqualIffEmpty DEF Lines
    <3> QED BY <3>1, <3>3 DEF Texts
  <2>8. <<b>> \o q \in Texts
    <3>1. <<b>> \o q \in Lines
      BY <1>1, ConcatProperties DEF Lines
    <3>2. <<b>> \o q # <<>>
      BY <1>1, One, ConcatEqualIffEmpty DEF Lines
    <3> QED BY <3>1, <3>2 DEF Texts
  <2>9. Chars(K \o D) = Chars(K \o q) \o Plain(l)
    BY <2>5, <2>7, CharsAppend
  <2>10. Chars(<<b>> \o D) = Chars(<<b>> \o q) \o Plain(l)
    BY <2>6, <2>8, CharsAppend
  <2>11. Chars(B) \in Line /\ Chars(<<b>> \o q) \in Line /\ Plain(l) \in Line
    BY <1>2, <2>8, CharsIn, PlainIn
  <2>12. (Chars(B) \o Chars(<<b>> \o q)) \o Plain(l) = Chars(B) \o (Chars(<<b>> \o q) \o Plain(l))
    BY <2>11, ConcatAssociative DEF Line
  <2> QED BY <2>4, <2>9, <2>10, <2>12
<1>6. \A n \in Nat : n \in S
  <2> HIDE DEF S
  <2> QED BY <1>4, <1>5, NatSet
<1>7. Len(C) \in Nat
  BY LenNat DEF Lines
<1>8. Chars(K \o C) = Chars(B) \o Chars(<<b>> \o C)
  BY <1>6, <1>7
<1>9. B = A \o <<a>>
  BY AppendIsConcat DEF B, Lines
<1>10. K = A \o <<a \o b>>
  BY <1>1, AppendIsConcat DEF K, Lines
<1>11. (A \o <<a \o b>>) \o C = A \o (<<a \o b>> \o C)
  BY <1>1, ConcatAssociative DEF Lines
<1> QED BY <1>8, <1>9, <1>10, <1>11 DEF Joint, JointHas

-----------------------------------------------------------------------------
(* A piece of more than one line spliced into a text, and cut again.       *)

\* Such a piece, taken apart into its first line, its last, and those between.
LEMMA PieceApart ==
  ASSUME NEW piece \in Texts, Len(piece) # 1
  PROVE  \E u \in Line, M \in Lines, v \in Line :
            piece = <<u>> \o (M \o <<v>>) /\ v = piece[Len(piece)]
<1>1. piece \in Seq(Line) /\ piece # <<>> /\ Len(piece) \in Nat \ {0}
  BY LenNat DEF Texts, Lines
<1>2. PICK r \in Seq(Line), v \in Line :
         piece = Append(r, v) /\ v = piece[Len(piece)] /\ Len(piece) = Len(r) + 1
  BY <1>1, LastApart
<1>3. Len(r) \in Nat \ {0}
  BY <1>1, <1>2, LenNat
<1> DEFINE u == r[1]
           M == SubSeq(r, 2, Len(r))
<1>4. u \in Line
  <2>1. 1 \in 1..Len(r)
    BY <1>3
  <2> QED BY <2>1, ElementOfSeq
<1>5. M \in Seq(Line)
  <2>1. \A i \in 2..Len(r) : r[i] \in Line
    <3> TAKE i \in 2..Len(r)
    <3>1. i \in 1..Len(r)
      BY <1>3
    <3> QED BY <3>1, ElementOfSeq
  <2> QED BY <1>3, <2>1, SubSeqProperties
<1>6. r = <<u>> \o M
  <2>1. 1 \in 1..Len(r) /\ Len(r) \in 1..Len(r) /\ 1 + 1 = 2
    BY <1>3
  <2>2. SubSeq(r, 1, Len(r)) = <<r[1]>> \o SubSeq(r, 1 + 1, Len(r))
    BY <2>1, SubSeqRecursiveFirst
  <2> QED BY <2>1, <2>2, SubSeqFull
<1> HIDE DEF u, M
<1>7. piece = (<<u>> \o M) \o <<v>>
  BY <1>2, <1>6, AppendIsConcat
<1>8. (<<u>> \o M) \o <<v>> = <<u>> \o (M \o <<v>>)
  BY <1>4, <1>5, One, ConcatAssociative
<1> QED BY <1>2, <1>4, <1>5, <1>7, <1>8 DEF Lines

Splices(t, p, piece) ==
    LET made == With(t, p, piece)
        q    == EndOf(p, piece)
    IN  /\ made \in Texts /\ p \in PositionsOf(made) /\ q \in PositionsOf(made)
        /\ q = <<p[1] + Len(piece) - 1, Len(LastOf(piece))>>
        /\ Before(p, q)
        /\ Region(made, p, q) = piece /\ Without(made, p, q) = t
        /\ TotSize(made) = TotSize(t) + TotSize(piece)
        /\ Chars(TextBefore(made, q)) = Chars(TextBefore(t, p)) \o Chars(piece)
        /\ TextFrom(made, q) = TextFrom(t, p)
        /\ LastOf(t) = <<>> /\ LastOf(piece) = <<>> => LastOf(made) = <<>>

\* Whether the text that joins a and b there ends in an empty line.
LEMMA JointEnd ==
  \A A, C \in Lines, a, b \in Line :
     LastOf(Joint(A, a, b, C)) = IF C = <<>> THEN a \o b ELSE C[Len(C)]
<1> TAKE A, C \in Lines, a, b \in Line
<1> DEFINE t == Joint(A, a, b, C)
<1>1. /\ t \in Texts /\ Len(t) = Len(A) + 1 + Len(C)
  BY JointLine
<1>2. t[Spot(A, a)[1]] = a \o b
  BY JointLine
<1>3. /\ \A i \in 1..Len(C) : t[Len(A) + 1 + i] = C[i]
      /\ Len(A) \in Nat /\ Len(C) \in Nat
  BY JointFacts
<1> HIDE DEF t
<1>4. CASE C = <<>>
  <2>1. Len(C) = 0
    BY <1>4
  <2>2. Len(t) = Len(A) + 1
    BY <1>1, <1>3, <2>1
  <2>3. Spot(A, a)[1] = Len(A) + 1
    BY DEF Spot
  <2> QED BY <1>2, <1>4, <2>2, <2>3 DEF t, LastOf
<1>5. CASE C # <<>>
  <2>1. Len(C) \in 1..Len(C)
    BY <1>3, <1>5, LenNat DEF Lines
  <2>2. t[Len(A) + 1 + Len(C)] = C[Len(C)]
    BY <1>3, <2>1
  <2> QED BY <1>1, <1>5, <2>2 DEF t, LastOf
<1> QED BY <1>4, <1>5

LEMMA EndsEmpty ==
  ASSUME NEW A \in Lines, NEW E \in Lines, NEW a \in Line, NEW b \in Line, NEW v \in Line,
         NEW C \in Lines, v = <<>>,
         LastOf(Joint(A, a, b, C)) = <<>>
  PROVE  LastOf(Joint(E, v, b, C)) = <<>>
<1>1. (IF C = <<>> THEN a \o b ELSE C[Len(C)]) = <<>>
  BY JointEnd
<1>2. CASE C = <<>>
  <2>1. a \o b = <<>>
    BY <1>1, <1>2
  <2>2. b = <<>>
    BY <2>1, ConcatEqualIffEmpty DEF Line
  <2>3. v \o b = <<>>
    BY <2>2, ConcatEqualIffEmpty DEF Line
  <2>4. LastOf(Joint(E, v, b, C)) = IF C = <<>> THEN v \o b ELSE C[Len(C)]
    BY JointEnd
  <2> QED BY <1>2, <2>3, <2>4
<1>3. CASE C # <<>>
  <2>1. C[Len(C)] = <<>>
    BY <1>1, <1>3
  <2>2. LastOf(Joint(E, v, b, C)) = IF C = <<>> THEN v \o b ELSE C[Len(C)]
    BY JointEnd
  <2> QED BY <1>3, <2>1, <2>2
<1> QED BY <1>2, <1>3

LEMMA Spliced ==
  ASSUME NEW t \in Texts, NEW p \in PositionsOf(t), NEW piece \in Texts, Len(piece) # 1
  PROVE  Splices(t, p, piece)
<1>1. PICK A \in Lines, a \in Line, b \in Line, C \in Lines :
         t = Joint(A, a, b, C) /\ p = Spot(A, a)
  BY TakenApart
<1>2. PICK u \in Line, M \in Lines, v \in Line :
         piece = <<u>> \o (M \o <<v>>) /\ v = piece[Len(piece)]
  BY PieceApart
<1> DEFINE made == With(t, p, piece)
           q    == EndOf(p, piece)
           E    == A \o (<<a \o u>> \o M)
           N    == M \o <<v>>
<1>3. /\ made = Joint(E, v, b, C)
      /\ q = <<Len(A) + Len(piece), Len(v)>>
      /\ TextBefore(made, q) = Joint(A, a, u, N)
      /\ TextFrom(made, q) = <<b>> \o C
      /\ q \in PositionsOf(made) /\ made \in Texts
      /\ Region(made, p, q) = piece
      /\ TextBefore(made, p) = A \o <<a>>
      /\ made = Joint(A, a, u, M \o Joint(<<>>, v, b, C))
      /\ Len(piece) = Len(M) + 2
  <2>1. Fitted(A, a, b, C, u, M, v)
    BY WithPiece
  <2> QED BY <1>1, <1>2, <2>1 DEF Fitted
<1>4. <<a \o u>> \in Lines /\ <<v>> \in Lines /\ <<>> \in Lines /\ Len(A) \in Nat /\ Len(M) \in Nat
  <2>1. a \o u \in Line /\ Len(A) \in Nat /\ Len(M) \in Nat
    BY JointFacts
  <2> QED BY <2>1, One, EmptySeq DEF Lines
<1>5. E \in Lines /\ N \in Lines
  <2>1. <<a \o u>> \o M \in Lines
    BY <1>4, ConcatProperties DEF Lines
  <2> QED BY <1>4, <2>1, ConcatProperties DEF Lines
<1>6. TextBefore(made, q) = E \o <<v>>
  <2>1. (<<a \o u>> \o M) \o <<v>> = <<a \o u>> \o N
    BY <1>4, ConcatAssociative DEF Lines
  <2>2. <<a \o u>> \o M \in Lines
    BY <1>4, ConcatProperties DEF Lines
  <2>3. E \o <<v>> = A \o ((<<a \o u>> \o M) \o <<v>>)
    BY <1>4, <2>2, ConcatAssociative DEF Lines
  <2> QED BY <1>3, <2>1, <2>3 DEF Joint
<1> HIDE DEF made, q, E, N
<1>7. TextBefore(t, p) = A \o <<a>>
  BY <1>1, JointBefore
<1>8. TextFrom(t, p) = <<b>> \o C
  BY <1>1, JointFrom
<1>9. q = <<p[1] + Len(piece) - 1, Len(piece[Len(piece)])>> /\ p[1] < q[1]
  <2>1. p[1] = Len(A) + 1
    BY <1>1 DEF Spot
  <2>2. Len(A) + 1 + Len(piece) - 1 = Len(A) + Len(piece) /\ Len(A) + 1 < Len(A) + Len(piece)
    BY <1>3, <1>4
  <2> QED BY <1>2, <1>3, <2>1, <2>2
<1>10. Without(made, p, q) = t
  <2>1. Without(made, p, q) = Attach(A \o <<a>>, <<b>> \o C)
    BY <1>3 DEF Without
  <2>2. Attach(A \o <<a>>, <<b>> \o C) = Joint(A, a, b, C)
    BY Attached
  <2> QED BY <1>1, <2>1, <2>2
<1>11. p \in PositionsOf(made)
  <2> DEFINE K == M \o Joint(<<>>, v, b, C)
  <2>1. Joint(<<>>, v, b, C) \in Lines
    BY <1>4, JointLine DEF Texts
  <2>2. K \in Lines
    BY <2>1, ConcatProperties DEF Lines
  <2> HIDE DEF K
  <2>3. Spot(A, a) \in PositionsOf(Joint(A, a, u, K))
    BY <2>2, JointPlace
  <2> QED BY <1>1, <1>3, <2>3 DEF K
<1>12. TotSize(made) = TotSize(t) + TotSize(piece)
  <2>1. TotSize(made) = TotSize(E \o <<v>>) + TotSize(<<b>> \o C)
    <3>1. E \in Lines
      BY <1>5
    <3>2. TotSize(Joint(E, v, b, C)) = TotSize(E \o <<v>>) + TotSize(<<b>> \o C)
      BY <3>1, JointSize, Zenon
    <3> QED BY <1>3, <3>2
  <2>2. TotSize(Joint(A, a, u, N)) = TotSize(A \o <<a>>) + TotSize(<<u>> \o N)
    BY <1>5, JointSize, Zenon
  <2>3. TotSize(t) = TotSize(A \o <<a>>) + TotSize(<<b>> \o C)
    BY <1>1, JointSize
  <2>4. piece = <<u>> \o N
    BY <1>2 DEF N
  <2>5. TotSize(A \o <<a>>) \in Int /\ TotSize(<<u>> \o N) \in Int /\ TotSize(<<b>> \o C) \in Int
    <3>1. <<a>> \in Lines /\ <<u>> \in Lines /\ <<b>> \in Lines
      BY One DEF Lines
    <3>2. A \o <<a>> \in Lines /\ <<u>> \o N \in Lines /\ <<b>> \o C \in Lines
      BY <1>5, <3>1, ConcatProperties DEF Lines
    <3> QED BY <3>2, SizeInt
  <2>6. TotSize(E \o <<v>>) = TotSize(Joint(A, a, u, N)) /\ TotSize(<<u>> \o N) = TotSize(piece)
    BY <1>3, <1>6, <2>4
  <2> QED BY <2>1, <2>2, <2>3, <2>5, <2>6
<1>13. Chars(TextBefore(made, q)) = Chars(TextBefore(t, p)) \o Chars(piece)
  <2>1. Chars(Joint(A, a, u, N)) = Chars(A \o <<a>>) \o Chars(<<u>> \o N)
    <3>1. N \in Lines
      BY <1>5
    <3>2. JointHas(A, a, u, N)
      BY <3>1, CharsJoint
    <3> QED BY <3>2 DEF JointHas
  <2>2. piece = <<u>> \o N
    BY <1>2 DEF N
  <2> QED BY <1>3, <1>7, <2>1, <2>2
<1>14. ASSUME LastOf(t) = <<>>, LastOf(piece) = <<>> PROVE LastOf(made) = <<>>
  <2>1. v = <<>>
    BY <1>2, <1>14 DEF LastOf
  <2>2. LastOf(Joint(A, a, b, C)) = <<>>
    BY <1>1, <1>14
  <2>3. E \in Lines
    BY <1>5
  <2>4. LastOf(Joint(E, v, b, C)) = <<>>
    BY <2>1, <2>2, <2>3, EndsEmpty
  <2> QED BY <1>3, <2>4
<1> QED BY <1>3, <1>7, <1>8, <1>9, <1>10, <1>11, <1>12, <1>13, <1>14 DEF Splices, Before, LastOf, made, q

-----------------------------------------------------------------------------
(* Lines as they are read, and the magicline.                              *)

LEMMA FilesOK == Files \subseteq Line /\ Inserts \subseteq Line
<1>1. STRING \subseteq Char
  BY DEF Char
<1>2. ASSUME NEW f \in Seq(STRING) PROVE f \in Line
  BY <1>1, SeqMonotonic DEF Line
<1> QED BY <1>2, ReadFileAssumption

\* A line that ends in a return is one that does not need to, and the return.
LEMMA Stripped ==
  ASSUME NEW l \in Line, EndsInReturn(l)
  PROVE  \E b \in Line : l = Append(b, "r") /\ l = b \o <<"r">> /\ SubSeq(l, 1, Len(l) - 1) = b
<1>1. l # <<>> /\ l[Len(l)] = "r"
  BY DEF EndsInReturn, LastOf
<1>2. PICK b \in Line, c \in Char : l = Append(b, c) /\ c = l[Len(l)] /\ Len(l) = Len(b) + 1
  BY <1>1, LastApart DEF Line
<1>3. Len(b) \in Nat /\ c = "r"
  BY <1>1, <1>2, LenNat DEF Line
<1>4. SubSeq(l, 1, Len(l) - 1) = b
  <2> DEFINE u == SubSeq(l, 1, Len(b))
  <2>1. \A i \in 1..Len(b) : l[i] = b[i]
    BY <1>2, AppendProperties DEF Line
  <2>2. \A i \in 1..Len(b) : b[i] \in Char
    BY ElementOfSeq DEF Line
  <2>3. u \in Line /\ Len(u) = Len(b) /\ \A i \in 1..Len(b) - 1 + 1 : u[i] = l[1 + i - 1]
    BY <1>3, <2>1, <2>2, SubSeqProperties DEF Line
  <2>4. \A i \in 1..Len(b) : u[i] = b[i]
    BY <1>3, <2>1, <2>3
  <2> HIDE DEF u
  <2>5. u = b
    BY <2>3, <2>4, SeqEqual DEF Line
  <2>6. Len(l) - 1 = Len(b)
    BY <1>2, <1>3
  <2> QED BY <2>5, <2>6 DEF u
<1>5. Append(b, "r") = b \o <<"r">>
  BY <1>2, <1>3, AppendIsConcat DEF Line
<1> QED BY <1>2, <1>3, <1>4, <1>5

LEMMA ReadLineIn ==
  ASSUME NEW l \in Line
  PROVE  /\ ReadLine(l) \in Line /\ Plain(ReadLine(l)) = Plain(l)
         /\ ReadLine(l) = <<>> => l = <<>> \/ (Converts /\ l = <<"r">>)
<1>1. CASE Converts /\ EndsInReturn(l)
  <2>1. PICK b \in Line : l = Append(b, "r") /\ SubSeq(l, 1, Len(l) - 1) = b
    BY <1>1, Stripped
  <2>2. ReadLine(l) = b
    BY <1>1, <2>1 DEF ReadLine
  <2>3. "r" \in Char /\ "r" \in Ends
    BY DEF Char, Ends
  <2>4. Plain(l) = Plain(b)
    BY <2>1, <2>3, PlainAppend DEF Kept
  <2>5. ASSUME b = <<>> PROVE l = <<"r">>
    BY <2>1, <2>5
  <2> QED BY <1>1, <2>2, <2>4, <2>5
<1>2. CASE ~(Converts /\ EndsInReturn(l))
  BY <1>2 DEF ReadLine
<1> QED BY <1>1, <1>2

LEMMA AppendText ==
  ASSUME NEW s \in Lines, NEW l \in Line
  PROVE  /\ Append(s, l) \in Texts /\ LastOf(Append(s, l)) = l
         /\ Len(Append(s, l)) = Len(s) + 1 /\ Len(s) \in Nat
<1>1. /\ Append(s, l) \in Lines /\ Append(s, l) # <<>> /\ Len(Append(s, l)) = Len(s) + 1
      /\ Append(s, l)[Len(s) + 1] = l
  BY AppendProperties DEF Lines
<1> QED BY <1>1, LenNat DEF Texts, Lines, LastOf

\* The characters of a text do not depend on what read_line strips.
LEMMA CharsRead ==
  ASSUME NEW s \in Lines, NEW l \in Line, NEW m \in Line, Plain(l) = Plain(m)
  PROVE  Chars(Append(s, l)) = Chars(Append(s, m))
<1>1. CASE s = <<>>
  <2>1. Append(s, l) = <<l>> /\ Append(s, m) = <<m>>
    BY <1>1
  <2> QED BY <2>1, CharsOne
<1>2. CASE s # <<>>
  <2>1. s \in Texts
    BY <1>2 DEF Texts
  <2> QED BY <2>1, CharsAppend
<1> QED BY <1>1, <1>2

LEMMA WithMagiclineIs ==
  ASSUME NEW s \in Texts
  PROVE  LET m == WithMagicline(s) IN
         /\ m \in Texts /\ (Magiclines => LastOf(m) = <<>>)
         /\ m = s \/ (Magiclines /\ LastOf(s) # <<>> /\ m = Append(s, <<>>) /\ LastOf(m) = <<>>)
         /\ TotSize(m) = TotSize(s) + Len(m) - Len(s)
         /\ Chars(m) = Chars(s)
<1>1. <<>> \in Line /\ Len(<<>>) = 0 /\ s \in Lines /\ Len(s) \in Nat
  BY EmptySeq, LenNat DEF Line, Texts, Lines
<1>2. CASE Magiclines /\ LastOf(s) # <<>>
  <2> DEFINE m == Append(s, <<>>)
  <2>1. WithMagicline(s) = m
    BY <1>2 DEF WithMagicline
  <2>2. m \in Texts /\ LastOf(m) = <<>> /\ Len(m) = Len(s) + 1
    BY <1>1, AppendText
  <2>3. TotSize(m) = TotSize(s) + 0 + 1
    BY <1>1, SizeAppend
  <2>4. Chars(m) = Chars(s)
    <3>1. Chars(m) = Chars(s) \o Plain(<<>>)
      BY <1>1, CharsAppend
    <3>2. Chars(s) \in Line
      BY CharsIn
    <3> QED BY <3>1, <3>2, PlainEmpty, ConcatEmptySeq DEF Line
  <2> HIDE DEF m
  <2>5. TotSize(m) = TotSize(s) + Len(m) - Len(s)
    BY <1>1, <2>2, <2>3, SizeInt
  <2> QED BY <1>2, <2>1, <2>2, <2>4, <2>5 DEF m
<1>3. CASE ~(Magiclines /\ LastOf(s) # <<>>)
  <2>1. WithMagicline(s) = s
    BY <1>3 DEF WithMagicline
  <2>2. TotSize(s) = TotSize(s) + Len(s) - Len(s)
    BY <1>1, SizeInt
  <2> QED BY <1>3, <2>1, <2>2
<1> QED BY <1>2, <1>3

-----------------------------------------------------------------------------
(* The invariants.  No insertion is empty, or unended under NO_NEWLINES:   *)
(* what undoing one of those does to the text is not what is proved below. *)

Ordinary == {"nothing", "unended"} \subseteq Avoided

\* What read_file keeps while it reads.
Lexed ==
    /\ in \in Line /\ buf \in Line /\ got \in Lines /\ input \in Line
    /\ format \in 0..3 /\ fmt \in {"NIX", "DOS", "MAC"}

\* What was read so far is in got and buf, and nothing is left once it returns.
Consumed ==
    /\ pc # "read" => in = <<>>
    /\ got = <<>> => buf \o in = input
    /\ in # <<>> => input # <<>> /\ LastOf(in) = LastOf(input)
    /\ in = <<>> /\ input # <<>> /\ LastOf(input) = "n" => buf = <<>> /\ got # <<>>
    /\ Chars(Append(got, buf)) \o Plain(in) = Plain(input)

\* The text, which no character read changes before the last.
Typed ==
    /\ pc \in {"main", "read"}
    /\ text \in Texts /\ cur \in PositionsOf(text)
    /\ Magiclines => LastOf(text) = <<>>
    /\ totsize = TotSize(text)

\* While an insertion is read its item has where it begins, and nothing of the
\* previous one counts; a buffer that is opened has no item.
Inserting ==
    /\ inserts \in Nat
    /\ inserts = 0 => item = NoItem
    /\ item = NoItem => ~undone /\ after = <<>>
    /\ pc = "read" /\ opening => item = NoItem
    /\ pc = "read" /\ ~opening =>
         /\ item = [lineno |-> cur[1], begin |-> cur[2], mlineno |-> cur[1], cut |-> <<>>]
         /\ ~undone /\ before.text = text /\ before.cur = cur
         /\ input # <<>> /\ (Converts => input # <<"r">>)
         /\ ~Magiclines => LastOf(input) = "n"

\* What was inserted.  It has more than one line, the last of them empty, so that
\* the item tells where it begins and ends, and it is cut and pasted as a whole.
Piece == WithMagicline(LinesRead)
Inserted ==
    pc = "main" /\ item # NoItem =>
      /\ Len(Piece) # 1 /\ LastOf(Piece) = <<>>
      /\ before.text \in Texts /\ before.cur \in PositionsOf(before.text)
      /\ Magiclines => LastOf(before.text) = <<>>
      /\ after = With(before.text, before.cur, Piece)
      /\ item = [lineno |-> before.cur[1], begin |-> before.cur[2], mlineno |-> Len(Piece),
                 cut |-> IF undone THEN Piece ELSE <<>>]
      /\ text = IF undone THEN before.text ELSE after

IInv == Lexed /\ Consumed /\ Typed /\ Inserting /\ Inserted

-----------------------------------------------------------------------------
(* One character read.                                                     *)

LEMMA HeadApart ==
  ASSUME NEW s \in Line, s # <<>>
  PROVE  /\ Head(s) \in Char /\ Tail(s) \in Line /\ <<Head(s)>> \in Line
         /\ s = <<Head(s)>> \o Tail(s)
         /\ LastOf(s) = IF Tail(s) = <<>> THEN Head(s) ELSE LastOf(Tail(s))
<1> DEFINE h == Head(s)
           t == Tail(s)
<1>1. h \in Char /\ t \in Line /\ Len(t) = Len(s) - 1 /\ \A i \in 1..Len(t) : t[i] = s[i + 1]
  BY HeadTailProperties DEF Line
<1>2. h = s[1]
  OBVIOUS
<1> HIDE DEF h, t
<1>3. <<h>> \in Line /\ Len(<<h>>) = 1 /\ <<h>>[1] = h
  BY <1>1, One DEF Line
<1>4. Len(s) \in Nat \ {0}
  BY LenNat DEF Line
<1> DEFINE u == <<h>> \o t
<1>5. u \in Line /\ Len(u) = Len(s)
      /\ \A i \in 1..Len(s) : u[i] = IF i <= 1 THEN <<h>>[i] ELSE t[i - 1]
  BY <1>1, <1>3, <1>4, ConcatProperties DEF Line
<1>6. ASSUME NEW i \in 1..Len(s) PROVE u[i] = s[i]
  <2>1. CASE i = 1
    BY <2>1, <1>2, <1>3, <1>5
  <2>2. CASE i # 1
    <3>1. i - 1 \in 1..Len(t) /\ ~(i <= 1) /\ i - 1 + 1 = i
      BY <1>1, <1>4, <2>2
    <3> QED BY <3>1, <1>1, <1>5
  <2> QED BY <2>1, <2>2
<1> HIDE DEF u
<1>7. u = s
  BY <1>5, <1>6, SeqEqual DEF Line
<1>8. LastOf(s) = IF t = <<>> THEN h ELSE LastOf(t)
  <2>1. CASE t = <<>>
    <3>1. Len(t) = 0
      BY <2>1
    <3>2. Len(s) = 1
      BY <1>1, <1>4, <3>1
    <3> QED BY <2>1, <3>2, <1>2 DEF LastOf
  <2>2. CASE t # <<>>
    <3>1. Len(t) \in Nat \ {0}
      BY <1>1, <2>2, LenNat DEF Line
    <3>2. t[Len(t)] = s[Len(t) + 1] /\ Len(t) + 1 = Len(s)
      BY <1>1, <1>4, <3>1
    <3> QED BY <2>2, <3>2 DEF LastOf
  <2> QED BY <2>1, <2>2
<1> QED BY <1>1, <1>3, <1>7, <1>8 DEF u, h, t

\* The character goes from what is left to what was read.
LEMMA MovedOn ==
  ASSUME NEW b \in Line, NEW s \in Line, s # <<>>
  PROVE  b \o s = Append(b, Head(s)) \o Tail(s)
<1> DEFINE h == Head(s)
           t == Tail(s)
<1>1. h \in Char /\ t \in Line /\ <<h>> \in Line /\ s = <<h>> \o t
  BY HeadApart
<1> HIDE DEF h, t
<1>2. Append(b, h) = b \o <<h>>
  BY <1>1, AppendIsConcat DEF Line
<1>3. (b \o <<h>>) \o t = b \o (<<h>> \o t)
  BY <1>1, ConcatAssociative DEF Line
<1>4. b \o s = Append(b, h) \o t
  BY <1>1, <1>2, <1>3
<1> QED BY <1>4 DEF h, t

LEMMA PlainHead ==
  ASSUME NEW s \in Line, s # <<>>
  PROVE  /\ Plain(s) = Plain(<<Head(s)>>) \o Plain(Tail(s))
         /\ Head(s) = "n" => Plain(s) = Plain(Tail(s))
<1> DEFINE h == Head(s)
           t == Tail(s)
<1>1. h \in Char /\ t \in Line /\ <<h>> \in Line /\ s = <<h>> \o t
  BY HeadApart
<1> HIDE DEF h, t
<1>2. Plain(<<h>> \o t) = Plain(<<h>>) \o Plain(t)
  BY <1>1, PlainConcat
<1>3. ASSUME h = "n" PROVE Plain(s) = Plain(t)
  <2>1. <<h>> = Append(<<>>, h) /\ <<>> \in Line
    BY EmptySeq DEF Line
  <2>2. Plain(Append(<<>>, h)) = Kept(Plain(<<>>), h)
    BY <1>1, <2>1, PlainAppend
  <2>3. Plain(<<h>>) = <<>>
    BY <1>3, <2>1, <2>2, PlainEmpty DEF Kept, Ends
  <2>4. Plain(t) \in Line
    BY <1>1, PlainIn
  <2>5. <<>> \o Plain(t) = Plain(t)
    BY <2>4, ConcatEmptySeq DEF Line
  <2> QED BY <1>1, <1>2, <2>3, <2>5
<1>4. Plain(s) = Plain(<<h>>) \o Plain(t)
  BY <1>1, <1>2
<1> QED BY <1>3, <1>4 DEF h, t

\* A line that ends keeps its characters,
LEMMA CharsEnded ==
  ASSUME NEW s \in Lines, NEW l \in Line, NEW m \in Line
  PROVE  Chars(Append(Append(s, ReadLine(l)), m)) = Chars(Append(s, l)) \o Plain(m)
<1>1. ReadLine(l) \in Line /\ Plain(ReadLine(l)) = Plain(l)
  BY ReadLineIn
<1>2. Append(s, ReadLine(l)) \in Texts
  BY <1>1, AppendText
<1>3. Chars(Append(Append(s, ReadLine(l)), m)) = Chars(Append(s, ReadLine(l))) \o Plain(m)
  BY <1>2, CharsAppend
<1>4. Chars(Append(s, ReadLine(l))) = Chars(Append(s, l))
  BY <1>1, CharsRead
<1> QED BY <1>3, <1>4

\* and so does one that gets longer.
LEMMA CharsLonger ==
  ASSUME NEW s \in Lines, NEW l \in Line, NEW c \in Char
  PROVE  Chars(Append(s, Append(l, c))) = Chars(Append(s, l)) \o Plain(<<c>>)
<1>1. <<c>> \in Line /\ Append(l, c) = l \o <<c>> /\ Append(l, c) \in Line
  BY One, AppendIsConcat, AppendProperties DEF Line
<1>2. Plain(Append(l, c)) = Plain(l) \o Plain(<<c>>)
  BY <1>1, PlainConcat
<1>3. CASE s = <<>>
  <2>1. Append(s, l) = <<l>> /\ Append(s, Append(l, c)) = <<Append(l, c)>>
    BY <1>3
  <2> QED BY <1>1, <1>2, <2>1, CharsOne
<1>4. CASE s # <<>>
  <2>1. s \in Texts
    BY <1>4 DEF Texts
  <2>2. Chars(Append(s, l)) = Chars(s) \o Plain(l)
    BY <2>1, CharsAppend
  <2>3. Chars(Append(s, Append(l, c))) = Chars(s) \o Plain(Append(l, c))
    BY <1>1, <2>1, CharsAppend
  <2>4. Chars(s) \in Line /\ Plain(l) \in Line /\ Plain(<<c>>) \in Line
    BY <1>1, <2>1, CharsIn, PlainIn
  <2>5. (Chars(s) \o Plain(l)) \o Plain(<<c>>) = Chars(s) \o (Plain(l) \o Plain(<<c>>))
    BY <2>4, ConcatAssociative DEF Line
  <2> QED BY <1>2, <2>2, <2>3, <2>5
<1> QED BY <1>3, <1>4

\* What was read and what is left have the characters of the whole.
LEMMA CharsReadOn ==
  ASSUME NEW s \in Lines, NEW l \in Line, NEW r \in Line, r # <<>>
  PROVE  LET h == Head(r)
             t == Tail(r)
         IN  /\ h = "n" => Chars(Append(Append(s, ReadLine(l)), <<>>)) \o Plain(t)
                           = Chars(Append(s, l)) \o Plain(r)
             /\ Chars(Append(Append(s, ReadLine(l)), <<h>>)) \o Plain(t)
                = Chars(Append(s, l)) \o Plain(r)
             /\ Chars(Append(s, Append(l, h))) \o Plain(t) = Chars(Append(s, l)) \o Plain(r)
<1> DEFINE h == Head(r)
           t == Tail(r)
           w == Chars(Append(s, l))
<1>1. h \in Char /\ t \in Line /\ <<h>> \in Line /\ <<>> \in Line
  BY HeadApart, EmptySeq DEF Line
<1>2. Plain(r) = Plain(<<h>>) \o Plain(t) /\ (h = "n" => Plain(r) = Plain(t))
  BY PlainHead
<1>3. w \in Line
  BY AppendText, CharsIn
<1> HIDE DEF h, t
<1>4. Chars(Append(Append(s, ReadLine(l)), <<>>)) = w
  <2>1. Chars(Append(Append(s, ReadLine(l)), <<>>)) = w \o Plain(<<>>)
    BY <1>1, CharsEnded
  <2> HIDE DEF w
  <2> QED BY <1>3, <2>1, PlainEmpty, ConcatEmptySeq DEF Line
<1>5. Chars(Append(Append(s, ReadLine(l)), <<h>>)) = w \o Plain(<<h>>)
  BY <1>1, CharsEnded
<1>6. Chars(Append(s, Append(l, h))) = w \o Plain(<<h>>)
  BY <1>1, CharsLonger
<1>7. (w \o Plain(<<h>>)) \o Plain(t) = w \o Plain(r)
  <2> HIDE DEF w
  <2>1. Plain(<<h>>) \in Line /\ Plain(t) \in Line
    BY <1>1, PlainIn
  <2>2. (w \o Plain(<<h>>)) \o Plain(t) = w \o (Plain(<<h>>) \o Plain(t))
    BY <1>3, <2>1, ConcatAssociative DEF Line
  <2> QED BY <1>2, <2>2
<1> QED BY <1>2, <1>4, <1>5, <1>6, <1>7 DEF h, t, w

-----------------------------------------------------------------------------
(* What is read is what is in the file, whatever is avoided.               *)

ReadKept == in' = in /\ buf' = buf /\ got' = got /\ input' = input

LEMMA StartReads ==
  ASSUME NEW file \in Line, NEW new, StartReading(file, new), fmt' = fmt, Lexed
  PROVE  Lexed' /\ Consumed'
<1>1. in' = file /\ input' = file /\ buf' = <<>> /\ got' = <<>> /\ format' = 0 /\ pc' = "read"
  BY DEF StartReading
<1>2. <<>> \in Line /\ <<>> \in Lines /\ <<>> \o file = file
  BY EmptySeq, ConcatEmptySeq DEF Line, Lines
<1>3. Lexed'
  BY <1>1, <1>2 DEF Lexed
<1>4. Chars(Append(<<>>, <<>>)) \o Plain(file) = Plain(file)
  <2>1. Append(<<>>, <<>>) = << <<>> >>
    OBVIOUS
  <2>2. Chars(<< <<>> >>) = <<>>
    BY <1>2, CharsOne, PlainEmpty
  <2>3. Plain(file) \in Line
    BY PlainIn
  <2> QED BY <2>1, <2>2, <2>3, ConcatEmptySeq DEF Line
<1>5. Consumed'
  BY <1>1, <1>2, <1>4 DEF Consumed
<1> QED BY <1>3, <1>5

LEMMA NewlineReads ==
  ASSUME GetNewline, Lexed, Consumed
  PROVE  Lexed' /\ Consumed'
<1>1. /\ in # <<>> /\ Head(in) = "n" /\ in' = Tail(in) /\ buf' = <<>>
      /\ got' = Append(got, ReadLine(buf)) /\ input' = input /\ fmt' = fmt /\ pc' = "read"
  BY DEF GetNewline, buffer
<1>2. in \in Line /\ buf \in Line /\ got \in Lines /\ <<>> \in Line
  BY EmptySeq DEF Lexed, Line
<1>3. Tail(in) \in Line /\ (Tail(in) # <<>> => LastOf(Tail(in)) = LastOf(in))
  BY <1>1, <1>2, HeadApart
<1>4. ReadLine(buf) \in Line
  BY <1>2, ReadLineIn
<1>5. Append(got, ReadLine(buf)) \in Lines /\ Append(got, ReadLine(buf)) # <<>>
  BY <1>2, <1>4, AppendText DEF Texts
<1>6. format' \in 0..3
  BY DEF GetNewline, Lexed
<1>7. Lexed'
  BY <1>1, <1>2, <1>3, <1>5, <1>6 DEF Lexed
<1>8. Chars(Append(got', buf')) \o Plain(in') = Plain(input)
  <2>1. Chars(Append(Append(got, ReadLine(buf)), <<>>)) \o Plain(Tail(in))
        = Chars(Append(got, buf)) \o Plain(in)
    BY <1>1, <1>2, CharsReadOn
  <2> QED BY <1>1, <2>1 DEF Consumed
<1>9. Consumed'
  BY <1>1, <1>3, <1>5, <1>8 DEF Consumed
<1> QED BY <1>7, <1>9

LEMMA ReturnReads ==
  ASSUME GetAfterReturn, Lexed, Consumed
  PROVE  Lexed' /\ Consumed'
<1>1. /\ in # <<>> /\ Head(in) # "n" /\ in' = Tail(in) /\ buf' = <<Head(in)>>
      /\ got' = Append(got, ReadLine(buf)) /\ input' = input /\ fmt' = fmt /\ pc' = "read"
  BY DEF GetAfterReturn, buffer
<1>2. in \in Line /\ buf \in Line /\ got \in Lines
  BY DEF Lexed
<1>3. /\ Tail(in) \in Line /\ <<Head(in)>> \in Line
      /\ LastOf(in) = IF Tail(in) = <<>> THEN Head(in) ELSE LastOf(Tail(in))
  BY <1>1, <1>2, HeadApart
<1>4. ReadLine(buf) \in Line
  BY <1>2, ReadLineIn
<1>5. Append(got, ReadLine(buf)) \in Lines /\ Append(got, ReadLine(buf)) # <<>>
  BY <1>2, <1>4, AppendText DEF Texts
<1>6. format' \in 0..3
  BY DEF GetAfterReturn, Lexed
<1>7. Lexed'
  BY <1>1, <1>2, <1>3, <1>5, <1>6 DEF Lexed
<1>8. Chars(Append(got', buf')) \o Plain(in') = Plain(input)
  <2>1. Chars(Append(Append(got, ReadLine(buf)), <<Head(in)>>)) \o Plain(Tail(in))
        = Chars(Append(got, buf)) \o Plain(in)
    BY <1>1, <1>2, CharsReadOn
  <2> QED BY <1>1, <2>1 DEF Consumed
<1>9. Consumed'
  BY <1>1, <1>3, <1>5, <1>8 DEF Consumed
<1> QED BY <1>7, <1>9

LEMMA CharReads ==
  ASSUME GetChar, Lexed, Consumed
  PROVE  Lexed' /\ Consumed'
<1>1. /\ in # <<>> /\ Head(in) # "n" /\ in' = Tail(in) /\ buf' = Append(buf, Head(in))
      /\ got' = got /\ input' = input /\ fmt' = fmt /\ pc' = "read" /\ format' = format
  BY DEF GetChar, buffer
<1>2. in \in Line /\ buf \in Line /\ got \in Lines
  BY DEF Lexed
<1>3. /\ Tail(in) \in Line /\ Head(in) \in Char
      /\ LastOf(in) = IF Tail(in) = <<>> THEN Head(in) ELSE LastOf(Tail(in))
  BY <1>1, <1>2, HeadApart
<1>4. Append(buf, Head(in)) \in Line
  BY <1>2, <1>3, AppendProperties DEF Line
<1>5. Lexed'
  BY <1>1, <1>2, <1>3, <1>4 DEF Lexed
<1>6. Chars(Append(got', buf')) \o Plain(in') = Plain(input)
  <2>1. Chars(Append(got, Append(buf, Head(in)))) \o Plain(Tail(in))
        = Chars(Append(got, buf)) \o Plain(in)
    BY <1>1, <1>2, CharsReadOn
  <2> QED BY <1>1, <2>1 DEF Consumed
<1>7. got' = <<>> => buf' \o in' = input
  <2>1. buf \o in = Append(buf, Head(in)) \o Tail(in)
    BY <1>1, <1>2, MovedOn
  <2> QED BY <1>1, <2>1 DEF Consumed
<1>8. Consumed'
  BY <1>1, <1>3, <1>6, <1>7 DEF Consumed
<1> QED BY <1>5, <1>8

LEMMA KeptReads ==
  ASSUME ReadKept, Lexed, Consumed, format' \in 0..3, fmt' \in {"NIX", "DOS", "MAC"},
         pc' # "read" => in = <<>>
  PROVE  Lexed' /\ Consumed'
BY DEF ReadKept, Lexed, Consumed

LEMMA ReadingStep ==
  ASSUME [Next]_vars, Lexed, Consumed
  PROVE  Lexed' /\ Consumed'
<1>1. ASSUME NEW f \in Files, OpenBuffer(f) PROVE Lexed' /\ Consumed'
  <2>1. f \in Line /\ StartReading(f, TRUE) /\ fmt' = fmt
    BY <1>1, FilesOK DEF OpenBuffer, buffer
  <2> QED BY <2>1, StartReads
<1>2. ASSUME NEW f \in Inserts, InsertFile(f) PROVE Lexed' /\ Consumed'
  <2>1. f \in Line /\ StartReading(f, FALSE) /\ fmt' = fmt
    BY <1>2, FilesOK DEF InsertFile, buffer
  <2> QED BY <2>1, StartReads
<1>3. CASE GetNewline
  BY <1>3, NewlineReads
<1>4. CASE GetAfterReturn
  BY <1>4, ReturnReads
<1>5. CASE GetChar
  BY <1>5, CharReads
<1>6. CASE EndOpening \/ EndInsertion
  <2>1. ReadKept /\ in = <<>>
    BY <1>6 DEF EndOpening, EndInsertion, ReadKept
  <2>2. format' = LastFormat /\ fmt' = NewFmt(LastFormat)
    BY <1>6 DEF EndOpening, EndInsertion
  <2>3. LastFormat \in 0..3
    BY DEF LastFormat, Lexed
  <2>4. fmt' \in {"NIX", "DOS", "MAC"}
    BY <2>2 DEF NewFmt, Lexed
  <2> QED BY <2>1, <2>2, <2>3, <2>4, KeptReads
<1>7. ASSUME \/ CannotInsert \/ DoMark \/ UndoInsert \/ RedoInsert \/ WriteFile
             \/ \E p \in PositionsOf(text) : GotoLinePosX(p)
             \/ UNCHANGED vars
      PROVE Lexed' /\ Consumed'
  <2>1. reader' = reader /\ fmt' = fmt
    BY <1>7 DEF CannotInsert, DoMark, UndoInsert, RedoInsert, WriteFile, GotoLinePosX, vars, buffer
  <2>2. pc' # "read" => pc # "read"
    BY <1>7 DEF CannotInsert, DoMark, UndoInsert, RedoInsert, WriteFile, GotoLinePosX, vars, buffer,
                Lexed, Consumed
  <2>3. ReadKept /\ format' = format
    BY <2>1 DEF reader, ReadKept
  <2>4. pc' # "read" => in = <<>>
    BY <2>2 DEF Consumed
  <2>5. format \in 0..3 /\ fmt \in {"NIX", "DOS", "MAC"}
    BY DEF Lexed
  <2> QED BY <2>1, <2>3, <2>4, <2>5, KeptReads
<1> QED BY <1>1, <1>2, <1>3, <1>4, <1>5, <1>6, <1>7 DEF Next, ReadStep

LEMMA ReadingInit ==
  ASSUME Init
  PROVE  Lexed /\ Consumed
<1>1. /\ in = <<>> /\ buf = <<>> /\ got = <<>> /\ input = <<>> /\ format = 0 /\ fmt = "NIX"
  BY DEF Init
<1>2. <<>> \in Line /\ <<>> \in Lines /\ <<>> \o <<>> = <<>>
  BY EmptySeq, ConcatEmptySeq DEF Line, Lines
<1>3. Chars(Append(<<>>, <<>>)) \o Plain(<<>>) = Plain(<<>>)
  <2>1. Append(<<>>, <<>>) = << <<>> >>
    OBVIOUS
  <2>2. Chars(<< <<>> >>) = <<>>
    BY <1>2, CharsOne, PlainEmpty
  <2> QED BY <1>2, <2>1, <2>2, PlainEmpty
<1>4. Lexed
  BY <1>1, <1>2 DEF Lexed
<1> QED BY <1>1, <1>2, <1>3, <1>4 DEF Consumed

-----------------------------------------------------------------------------
(* The text.                                                               *)

\* An insertion that is not empty and ends has a line end, so its text has an
\* empty last line, and more than one.
LEMMA PieceEnds ==
  ASSUME Lexed, Consumed, in = <<>>, input # <<>>, Converts => input # <<"r">>,
         ~Magiclines => LastOf(input) = "n"
  PROVE  /\ Piece \in Texts /\ Len(Piece) # 1 /\ LastOf(Piece) = <<>>
         /\ AddedSize(Piece) = TotSize(Piece)
         /\ Chars(Piece) = Plain(input)
<1> DEFINE l == ReadLine(buf)
           s == Append(got, l)
<1>1. got \in Lines /\ buf \in Line /\ input \in Line
  BY DEF Lexed
<1>2. l \in Line /\ Plain(l) = Plain(buf) /\ (l = <<>> => buf = <<>> \/ (Converts /\ buf = <<"r">>))
  BY <1>1, ReadLineIn
<1> HIDE DEF l
<1>3. s \in Texts /\ LastOf(s) = l /\ Len(s) = Len(got) + 1 /\ Len(got) \in Nat
  BY <1>1, <1>2, AppendText
<1>4. Chars(s) = Plain(input)
  <2>1. Chars(s) = Chars(Append(got, buf))
    BY <1>1, <1>2, CharsRead
  <2>2. Chars(Append(got, buf)) \in Line
    BY <1>1, AppendText, CharsIn
  <2>3. Chars(Append(got, buf)) \o Plain(<<>>) = Plain(input)
    BY DEF Consumed
  <2> QED BY <2>1, <2>2, <2>3, PlainEmpty, ConcatEmptySeq DEF Line
<1>5. LinesRead = s
  BY DEF LinesRead, l
<1> HIDE DEF s
<1> DEFINE m == WithMagicline(s)
<1>6. /\ m \in Texts /\ (Magiclines => LastOf(m) = <<>>)
      /\ m = s \/ (Magiclines /\ LastOf(s) # <<>> /\ m = Append(s, <<>>) /\ LastOf(m) = <<>>)
      /\ TotSize(m) = TotSize(s) + Len(m) - Len(s)
      /\ Chars(m) = Chars(s)
  BY <1>3, WithMagiclineIs
<1>7. Piece = m
  BY <1>5 DEF Piece
<1> HIDE DEF m
<1>8. Len(m) # 1 /\ LastOf(m) = <<>>
  <2>1. CASE ~Magiclines
    <3>1. buf = <<>> /\ got # <<>>
      BY <2>1 DEF Consumed
    <3>2. Len(got) # 0
      BY <1>1, <3>1, EmptySeq DEF Lines
    <3>3. l = <<>>
      BY <3>1 DEF l, ReadLine, EndsInReturn
    <3>4. m = s
      BY <1>6, <2>1
    <3> QED BY <1>3, <3>2, <3>3, <3>4
  <2>2. CASE Magiclines
    <3>1. LastOf(m) = <<>>
      BY <1>6, <2>2
    <3>2. ASSUME m # s PROVE Len(m) # 1
      <4>1. m = Append(s, <<>>) /\ <<>> \in Line /\ s \in Lines
        BY <1>3, <1>6, <3>2, EmptySeq DEF Line, Texts
      <4>2. Len(m) = Len(s) + 1
        BY <4>1, AppendText
      <4> QED BY <1>3, <4>2
    <3>3. ASSUME m = s PROVE Len(m) # 1
      <4>1. l = <<>>
        BY <1>3, <3>1, <3>3
      <4>2. buf = <<>> \/ (Converts /\ buf = <<"r">>)
        BY <1>2, <4>1
      <4>3. SUFFICES ASSUME got = <<>> PROVE FALSE
        <5>1. got # <<>> => Len(got) # 0
          BY <1>1, EmptySeq DEF Lines
        <5> QED BY <1>3, <3>3, <4>3, <5>1
      <4>4. buf \o <<>> = input
        BY <4>3 DEF Consumed
      <4>5. buf = input
        BY <1>1, <4>4, ConcatEmptySeq DEF Line
      <4> QED BY <4>2, <4>5
    <3> QED BY <3>1, <3>2, <3>3
  <2> QED BY <2>1, <2>2
<1>9. AddedSize(m) = TotSize(m)
  BY <1>5, <1>6 DEF AddedSize
<1> QED BY <1>4, <1>6, <1>7, <1>8, <1>9

TextKept == text' = text /\ totsize' = totsize /\ flags' = flags
ItemKept == item' = item /\ undone' = undone /\ before' = before /\ after' = after /\ inserts' = inserts
LinesKept == got' = got /\ buf' = buf

LEMMA TypedKept ==
  ASSUME IInv, TextKept, pc' \in {"main", "read"}, cur' \in PositionsOf(text)
  PROVE  Typed'
BY DEF IInv, Typed, TextKept, Magiclines

\* The insertion is the same while nothing is read.
LEMMA PieceKept ==
  ASSUME LinesKept, flags' = flags
  PROVE  Piece' = Piece /\ Magiclines' = Magiclines
BY DEF LinesKept, Piece, WithMagicline, LinesRead, ReadLine, Magiclines, Converts

LEMMA InsertedKept ==
  ASSUME IInv, TextKept, ItemKept, LinesKept, pc' = "main", pc = "main"
  PROVE  Inserting' /\ Inserted'
<1>1. Piece' = Piece /\ Magiclines' = Magiclines
  BY PieceKept DEF TextKept
<1>2. Inserting'
  BY DEF IInv, Inserting, ItemKept
<1>3. Inserted'
  BY <1>1 DEF IInv, Inserted, ItemKept, TextKept
<1> QED BY <1>2, <1>3

LEMMA QuietStep ==
  ASSUME IInv, CannotInsert \/ DoMark \/ WriteFile \/ (\E p \in PositionsOf(text) : GotoLinePosX(p))
  PROVE  Typed' /\ Inserting' /\ Inserted'
<1>1. /\ text' = text /\ totsize' = totsize /\ flags' = flags /\ undos' = undos /\ reader' = reader
      /\ pc = "main" /\ pc' = "main"
  BY DEF CannotInsert, DoMark, WriteFile, GotoLinePosX
<1>2. TextKept /\ ItemKept /\ LinesKept
  BY <1>1 DEF TextKept, ItemKept, LinesKept, undos, reader
<1>3. cur' \in PositionsOf(text)
  <2>1. cur \in PositionsOf(text)
    BY DEF IInv, Typed
  <2> QED BY <2>1 DEF CannotInsert, DoMark, WriteFile, GotoLinePosX
<1> QED BY <1>1, <1>2, <1>3, TypedKept, InsertedKept

LEMMA StutterStep ==
  ASSUME IInv, UNCHANGED vars
  PROVE  IInv'
<1>1. /\ text' = text /\ totsize' = totsize /\ flags' = flags /\ undos' = undos /\ reader' = reader
      /\ pc' = pc /\ cur' = cur /\ fmt' = fmt
  BY DEF vars, buffer
<1>2. ItemKept /\ LinesKept /\ in' = in /\ input' = input /\ format' = format /\ opening' = opening
  BY <1>1 DEF ItemKept, LinesKept, undos, reader
<1>3. Piece' = Piece /\ Magiclines' = Magiclines /\ Converts' = Converts
  BY <1>1, <1>2, PieceKept DEF Converts
<1>4. Lexed' /\ Consumed'
  BY <1>1, <1>2 DEF IInv, Lexed, Consumed, LinesKept
<1>5. Typed'
  BY <1>1, <1>3 DEF IInv, Typed
<1>6. Inserting'
  BY <1>1, <1>2, <1>3 DEF IInv, Inserting, ItemKept
<1>7. Inserted'
  BY <1>1, <1>2, <1>3 DEF IInv, Inserted, ItemKept
<1> QED BY <1>4, <1>5, <1>6, <1>7 DEF IInv

LEMMA StartStep ==
  ASSUME IInv, Ordinary,
         (\E f \in Files : OpenBuffer(f)) \/ (\E f \in Inserts : InsertFile(f))
  PROVE  Typed' /\ Inserting' /\ Inserted'
<1>1. pc' = "read" /\ buffer' = buffer /\ flags' = flags
  BY DEF OpenBuffer, InsertFile, StartReading
<1>2. TextKept /\ cur' = cur
  BY <1>1 DEF buffer, TextKept
<1>3. Typed'
  <2>1. cur \in PositionsOf(text)
    BY DEF IInv, Typed
  <2> QED BY <1>1, <1>2, <2>1, TypedKept
<1>4. Inserted'
  BY <1>1 DEF Inserted
<1>5. ASSUME NEW f \in Files, OpenBuffer(f) PROVE Inserting'
  <2>1. opening' /\ undos' = undos /\ inserts = 0
    BY <1>5 DEF OpenBuffer, StartReading
  <2>2. ItemKept
    BY <2>1 DEF undos, ItemKept
  <2> QED BY <1>1, <2>1, <2>2 DEF IInv, Inserting, ItemKept
<1>6. ASSUME NEW f \in Inserts, InsertFile(f) PROVE Inserting'
  <2>1. /\ item' = [lineno |-> cur[1], begin |-> cur[2], mlineno |-> cur[1], cut |-> <<>>]
        /\ undone' = FALSE /\ inserts' = inserts + 1
        /\ before' = [text |-> text, cur |-> cur, mark |-> mark]
        /\ input' = f /\ opening' = FALSE
    BY <1>6 DEF InsertFile, StartReading
  <2>2. f # <<>> /\ (Converts => f # <<"r">>) /\ (~Magiclines => LastOf(f) = "n")
    BY <1>6 DEF InsertFile, Ordinary
  <2>3. inserts \in Nat
    BY DEF IInv, Inserting
  <2>4. item' # NoItem
    BY <2>1 DEF NoItem
  <2>5. inserts' \in Nat /\ inserts' # 0
    BY <2>1, <2>3
  <2>6. Converts' = Converts /\ Magiclines' = Magiclines
    BY <1>1 DEF Converts, Magiclines
  <2>7. before'.text = text' /\ before'.cur = cur'
    BY <1>2, <2>1 DEF TextKept
  <2> QED BY <1>1, <1>2, <2>1, <2>2, <2>4, <2>5, <2>6, <2>7 DEF Inserting
<1> QED BY <1>3, <1>4, <1>5, <1>6

LEMMA ReadOnStep ==
  ASSUME IInv, GetNewline \/ GetAfterReturn \/ GetChar
  PROVE  Typed' /\ Inserting' /\ Inserted'
<1>1. /\ pc = "read" /\ pc' = "read" /\ buffer' = buffer /\ flags' = flags /\ undos' = undos
      /\ opening' = opening /\ input' = input
  BY DEF GetNewline, GetAfterReturn, GetChar
<1>2. TextKept /\ ItemKept /\ cur' = cur
  BY <1>1 DEF buffer, undos, TextKept, ItemKept
<1>3. Typed'
  <2>1. cur \in PositionsOf(text)
    BY DEF IInv, Typed
  <2> QED BY <1>1, <1>2, <2>1, TypedKept
<1>4. Inserted'
  BY <1>1 DEF Inserted
<1>5. Magiclines' = Magiclines /\ Converts' = Converts
  BY <1>1 DEF Magiclines, Converts
<1>6. Inserting'
  BY <1>1, <1>2, <1>5 DEF IInv, Inserting, ItemKept, TextKept
<1> QED BY <1>3, <1>4, <1>6

LEMMA LinesReadAre ==
  ASSUME Lexed
  PROVE  LinesRead \in Texts /\ Piece \in Texts /\ (Magiclines => LastOf(Piece) = <<>>)
<1>1. got \in Lines /\ ReadLine(buf) \in Line
  BY ReadLineIn DEF Lexed
<1>2. LinesRead \in Texts
  BY <1>1, AppendText DEF LinesRead
<1>3. WithMagicline(LinesRead) \in Texts /\ (Magiclines => LastOf(WithMagicline(LinesRead)) = <<>>)
  BY <1>2, WithMagiclineIs
<1> QED BY <1>2, <1>3 DEF Piece

LEMMA OpeningStep ==
  ASSUME IInv, EndOpening
  PROVE  Typed' /\ Inserting' /\ Inserted'
<1>1. /\ text' = Piece /\ totsize' = TotSize(text') /\ cur' = <<1, 0>> /\ pc = "read" /\ opening
      /\ pc' = "main" /\ flags' = flags /\ undos' = undos
  BY DEF EndOpening, Piece
<1>2. Piece \in Texts /\ (Magiclines => LastOf(Piece) = <<>>) /\ Magiclines' = Magiclines
  BY <1>1, LinesReadAre DEF IInv, Magiclines
<1>3. <<1, 0>> \in PositionsOf(Piece)
  <2>1. 1 \in 1..Len(Piece)
    BY <1>2, LenNat DEF Texts, Lines
  <2>2. 0 \in 0..Len(Piece[1])
    BY <1>2, <2>1, LineIn DEF Texts
  <2> QED BY <1>2, <2>1, <2>2, Place
<1>4. Typed'
  BY <1>1, <1>2, <1>3 DEF Typed
<1>5. ItemKept /\ item = NoItem
  BY <1>1 DEF undos, ItemKept, IInv, Inserting
<1>6. Inserting' /\ Inserted'
  BY <1>1, <1>5 DEF ItemKept, IInv, Inserting, Inserted
<1> QED BY <1>4, <1>6

\* The splice that an insertion makes, and that undoing it takes back.
Undoes(t, p, s) ==
    /\ With(t, p, s) \in Texts /\ p \in PositionsOf(With(t, p, s))
    /\ EndOf(p, s) \in PositionsOf(With(t, p, s))
    /\ EndOf(p, s) = <<p[1] + Len(s) - 1, 0>>
    /\ p = <<p[1], p[2]>> /\ p[1] + Len(s) - 1 <= Len(With(t, p, s))
    /\ Before(p, EndOf(p, s)) /\ p # EndOf(p, s)
    /\ Region(With(t, p, s), p, EndOf(p, s)) = s
    /\ Without(With(t, p, s), p, EndOf(p, s)) = t
    /\ TotSize(With(t, p, s)) = TotSize(t) + TotSize(s)
    /\ LastOf(t) = <<>> => LastOf(With(t, p, s)) = <<>>

LEMMA SpliceIs ==
  ASSUME NEW t \in Texts, NEW p \in PositionsOf(t), NEW s \in Texts, Len(s) # 1, LastOf(s) = <<>>
  PROVE  Undoes(t, p, s)
<1> DEFINE made == With(t, p, s)
           q    == EndOf(p, s)
<1>1. Splices(t, p, s)
  BY Spliced
<1>2. /\ made \in Texts /\ p \in PositionsOf(made) /\ q \in PositionsOf(made)
      /\ q = <<p[1] + Len(s) - 1, Len(LastOf(s))>>
      /\ Before(p, q)
      /\ Region(made, p, q) = s /\ Without(made, p, q) = t
      /\ TotSize(made) = TotSize(t) + TotSize(s)
      /\ LastOf(t) = <<>> /\ LastOf(s) = <<>> => LastOf(made) = <<>>
  BY <1>1 DEF Splices
<1>3. Len(LastOf(s)) = 0
  OBVIOUS
<1> HIDE DEF made, q
<1>4. p = <<p[1], p[2]>> /\ p[1] \in 1..Len(t) /\ p[2] \in 0..Len(t[p[1]])
  BY PlaceIn
<1>5. q[1] \in 1..Len(made)
  BY <1>2, PlaceIn
<1>6. Len(t) \in Nat /\ Len(made) \in Nat /\ Len(s) \in Nat /\ t[p[1]] \in Line
  BY <1>2, <1>4, LenNat, LineIn DEF Texts, Lines
<1>7. q[1] <= Len(made)
  BY <1>5, <1>6
<1>8. p # q
  <2>1. p[2] \in Nat /\ p[1] \in Nat
    BY <1>4, <1>6, LenNat DEF Line
  <2>2. SUFFICES ASSUME p = q PROVE FALSE
    OBVIOUS
  <2>3. p[1] < p[1] \/ p[2] < p[2]
    BY <1>2, <2>2 DEF Before
  <2> QED BY <2>1, <2>3
<1> QED BY <1>2, <1>3, <1>4, <1>7, <1>8 DEF made, q, Undoes

LEMMA InsertionStep ==
  ASSUME IInv, EndInsertion
  PROVE  Typed' /\ Inserting' /\ Inserted'
<1>1. /\ text' = With(text, cur, Piece) /\ totsize' = totsize + AddedSize(Piece)
      /\ cur' = EndOf(cur, Piece)
      /\ item' = [item EXCEPT !.mlineno = IF input = <<>> THEN @ ELSE Len(Piece)]
      /\ pc = "read" /\ ~opening /\ in = <<>>
      /\ pc' = "main" /\ after' = text' /\ flags' = flags /\ before' = before /\ undone' = undone
      /\ inserts' = inserts /\ got' = got /\ buf' = buf
  BY DEF EndInsertion, Piece
<1>2. /\ item = [lineno |-> cur[1], begin |-> cur[2], mlineno |-> cur[1], cut |-> <<>>]
      /\ ~undone /\ before.text = text /\ before.cur = cur
      /\ input # <<>> /\ (Converts => input # <<"r">>)
      /\ (~Magiclines => LastOf(input) = "n")
  BY <1>1 DEF IInv, Inserting
<1>3. /\ Piece \in Texts /\ Len(Piece) # 1 /\ LastOf(Piece) = <<>>
      /\ AddedSize(Piece) = TotSize(Piece)
  BY <1>1, <1>2, PieceEnds DEF IInv
<1>4. /\ text \in Texts /\ cur \in PositionsOf(text) /\ (Magiclines => LastOf(text) = <<>>)
      /\ totsize = TotSize(text)
  BY DEF IInv, Typed
<1>5. Piece' = Piece /\ Magiclines' = Magiclines
  BY <1>1, PieceKept DEF LinesKept
<1> DEFINE made == With(text, cur, Piece)
           q    == EndOf(cur, Piece)
<1>6. /\ made \in Texts /\ q \in PositionsOf(made)
      /\ TotSize(made) = TotSize(text) + TotSize(Piece)
      /\ LastOf(text) = <<>> => LastOf(made) = <<>>
  BY <1>3, <1>4, SpliceIs DEF Undoes
<1>7. text' = made /\ cur' = q
  BY <1>1
<1> HIDE DEF made, q
<1>8. Typed'
  <2>1. totsize' = TotSize(text')
    BY <1>1, <1>3, <1>4, <1>6, <1>7
  <2>2. Magiclines' => LastOf(text') = <<>>
    BY <1>4, <1>5, <1>6, <1>7
  <2>3. text' \in Texts /\ cur' \in PositionsOf(text')
    BY <1>6, <1>7
  <2> QED BY <1>1, <2>1, <2>2, <2>3 DEF Typed
<1>9. item' = [lineno |-> cur[1], begin |-> cur[2], mlineno |-> Len(Piece), cut |-> <<>>]
  BY <1>1, <1>2
<1>10. inserts \in Nat /\ (inserts = 0 => item = NoItem) /\ item # NoItem /\ item' # NoItem
  <2>1. inserts \in Nat /\ (inserts = 0 => item = NoItem)
    BY DEF IInv, Inserting
  <2>2. item # NoItem
    BY <1>2 DEF NoItem
  <2>3. item' # NoItem
    BY <1>9 DEF NoItem
  <2> QED BY <2>1, <2>2, <2>3
<1>11. Inserting'
  BY <1>1, <1>10 DEF Inserting
<1>12. Inserted'
  <2>1. item'.cut = <<>>
    BY <1>9
  <2>2. item' = [lineno |-> before'.cur[1], begin |-> before'.cur[2], mlineno |-> Len(Piece'),
                 cut |-> IF undone' THEN Piece' ELSE <<>>]
    BY <1>1, <1>2, <1>5, <1>9
  <2>3. after' = With(before'.text, before'.cur, Piece')
    BY <1>1, <1>2, <1>5
  <2>4. before'.text \in Texts /\ before'.cur \in PositionsOf(before'.text)
        /\ (Magiclines' => LastOf(before'.text) = <<>>)
    BY <1>1, <1>2, <1>4, <1>5
  <2>5. text' = after' /\ ~undone'
    BY <1>1, <1>2
  <2> QED BY <1>3, <1>5, <2>2, <2>3, <2>4, <2>5 DEF Inserted
<1> QED BY <1>8, <1>11, <1>12

\* What undo and redo know of the insertion.
LEMMA InsertedIs ==
  ASSUME IInv, pc = "main", item # NoItem
  PROVE  /\ Piece \in Texts /\ Len(Piece) # 1 /\ LastOf(Piece) = <<>>
         /\ before.text \in Texts /\ before.cur \in PositionsOf(before.text)
         /\ Magiclines => LastOf(before.text) = <<>>
         /\ after = With(before.text, before.cur, Piece)
         /\ item = [lineno |-> before.cur[1], begin |-> before.cur[2], mlineno |-> Len(Piece),
                    cut |-> IF undone THEN Piece ELSE <<>>]
         /\ text = IF undone THEN before.text ELSE after
         /\ totsize = TotSize(text)
<1>1. Piece \in Texts
  BY LinesReadAre DEF IInv
<1> QED BY <1>1 DEF IInv, Inserted, Typed

LEMMA UndoStep ==
  ASSUME IInv, UndoInsert
  PROVE  Typed' /\ Inserting' /\ Inserted'
<1>1. pc = "main" /\ item # NoItem /\ ~undone /\ reader' = reader /\ flags' = flags
      /\ inserts' = inserts /\ before' = before /\ after' = after
  BY DEF UndoInsert
<1> DEFINE t == before.text
           p == before.cur
           q == EndOf(p, Piece)
           made == With(t, p, Piece)
<1>2. /\ Piece \in Texts /\ Len(Piece) # 1 /\ LastOf(Piece) = <<>>
      /\ t \in Texts /\ p \in PositionsOf(t)
      /\ Magiclines => LastOf(t) = <<>>
      /\ after = made
      /\ item = [lineno |-> p[1], begin |-> p[2], mlineno |-> Len(Piece), cut |-> <<>>]
      /\ text = made
      /\ totsize = TotSize(text)
  BY <1>1, InsertedIs
<1>3. /\ made \in Texts
      /\ p \in PositionsOf(made) /\ q = <<p[1] + Len(Piece) - 1, 0>> /\ p = <<p[1], p[2]>>
      /\ p[1] + Len(Piece) - 1 <= Len(made)
      /\ Before(p, q) /\ p # q
      /\ Region(made, p, q) = Piece /\ Without(made, p, q) = t
      /\ TotSize(made) = TotSize(t) + TotSize(Piece)
  <2>1. Undoes(t, p, Piece)
    BY <1>2, SpliceIs
  <2> HIDE DEF t, p
  <2> QED BY <2>1 DEF Undoes
<1>4. p[1] + Len(Piece) - 1 \in Int /\ Len(made) \in Nat /\ p[1] \in Nat /\ Len(Piece) \in Nat
  <2>1. p[1] \in 1..Len(t) /\ Len(t) \in Nat
    BY <1>2, PlaceIn, LenNat DEF Texts, Lines
  <2> QED BY <1>2, <1>3, <2>1, LenNat DEF Texts, Lines
<1>5. <<item.lineno, item.begin>> = p /\ <<item.lineno + item.mlineno - 1, 0>> = q
  BY <1>2, <1>3
<1>6. q[1] = p[1] + Len(Piece) - 1
  BY <1>3
<1> HIDE DEF t, p, q, made
<1>7. ~(q[1] > Len(text))
  BY <1>2, <1>3, <1>4, <1>6
<1>8. Cut(p, q) /\ undone' = TRUE /\ pc' = pc
  BY <1>3, <1>5, <1>7 DEF UndoInsert
<1>9. WithMagicline(t) = t
  BY <1>2 DEF WithMagicline
<1>10. /\ text' = t /\ cur' = p
       /\ totsize' = totsize - TotSize(Piece) + Len(t) - Len(t)
       /\ item' = [item EXCEPT !.cut = Piece]
  BY <1>2, <1>3, <1>8, <1>9 DEF Cut
<1>11. Len(t) \in Nat /\ TotSize(t) \in Int /\ TotSize(Piece) \in Int
  BY <1>2, LenNat, SizeInt DEF Texts, Lines
<1>12. totsize' = TotSize(t)
  BY <1>2, <1>3, <1>10, <1>11
<1>13. Magiclines' = Magiclines /\ Piece' = Piece
  BY <1>1, PieceKept DEF LinesKept, reader
<1>14. Typed'
  BY <1>1, <1>2, <1>8, <1>10, <1>12, <1>13 DEF Typed
<1>15. item' = [lineno |-> p[1], begin |-> p[2], mlineno |-> Len(Piece), cut |-> Piece]
  BY <1>2, <1>10
<1>16. item' # NoItem /\ inserts \in Nat /\ inserts # 0
  <2>1. item' # NoItem
    BY <1>15 DEF NoItem
  <2> QED BY <1>1, <2>1 DEF IInv, Inserting
<1>17. Inserting'
  BY <1>1, <1>8, <1>16 DEF Inserting
<1>18. Inserted'
  BY <1>1, <1>2, <1>8, <1>10, <1>13, <1>15 DEF Inserted, t, p, made
<1> QED BY <1>14, <1>17, <1>18

LEMMA RedoStep ==
  ASSUME IInv, RedoInsert
  PROVE  Typed' /\ Inserting' /\ Inserted'
<1>1. pc = "main" /\ undone /\ reader' = reader /\ flags' = flags
      /\ inserts' = inserts /\ before' = before /\ after' = after /\ undone' = FALSE
  BY DEF RedoInsert
<1>2. item # NoItem
  BY <1>1 DEF IInv, Inserting
<1> DEFINE t == before.text
           p == before.cur
           q == EndOf(p, Piece)
           made == With(t, p, Piece)
<1>3. /\ Piece \in Texts /\ Len(Piece) # 1 /\ LastOf(Piece) = <<>>
      /\ t \in Texts /\ p \in PositionsOf(t)
      /\ Magiclines => LastOf(t) = <<>>
      /\ after = made
      /\ item = [lineno |-> p[1], begin |-> p[2], mlineno |-> Len(Piece), cut |-> Piece]
      /\ text = t
      /\ totsize = TotSize(text)
  BY <1>1, <1>2, InsertedIs
<1>4. /\ made \in Texts /\ q \in PositionsOf(made) /\ p = <<p[1], p[2]>>
      /\ TotSize(made) = TotSize(t) + TotSize(Piece)
      /\ (LastOf(t) = <<>> => LastOf(made) = <<>>)
  <2>1. Undoes(t, p, Piece)
    BY <1>3, SpliceIs
  <2> HIDE DEF t, p
  <2> QED BY <2>1 DEF Undoes
<1>5. <<item.lineno, item.begin>> = p /\ item.cut = Piece /\ item.cut # <<>>
  BY <1>3, <1>4 DEF Texts
<1> HIDE DEF t, p, q
<1>6. With(text, p, item.cut) = made
  BY <1>3, <1>5
<1>7. EndOf(p, item.cut) = q
  BY <1>5 DEF q
<1> HIDE DEF made
<1>8. WithMagicline(made) = made
  BY <1>3, <1>4 DEF WithMagicline
<1>9. /\ text' = made /\ cur' = q /\ pc' = pc
      /\ totsize' = totsize + TotSize(Piece) + Len(made) - Len(made)
      /\ item' = [item EXCEPT !.cut = <<>>]
  BY <1>5, <1>6, <1>7, <1>8 DEF RedoInsert
<1>10. Len(made) \in Nat /\ TotSize(t) \in Int /\ TotSize(Piece) \in Int
  BY <1>3, <1>4, LenNat, SizeInt DEF Texts, Lines
<1>11. totsize' = TotSize(made)
  BY <1>3, <1>4, <1>9, <1>10
<1>12. Magiclines' = Magiclines /\ Piece' = Piece
  BY <1>1, PieceKept DEF LinesKept, reader
<1>13. Typed'
  BY <1>1, <1>3, <1>4, <1>9, <1>11, <1>12 DEF Typed
<1>14. item' = [lineno |-> p[1], begin |-> p[2], mlineno |-> Len(Piece), cut |-> <<>>]
  BY <1>3, <1>9
<1>15. item' # NoItem /\ inserts \in Nat /\ inserts # 0
  <2>1. item' # NoItem
    BY <1>14 DEF NoItem
  <2> QED BY <1>2, <2>1 DEF IInv, Inserting
<1>16. Inserting'
  BY <1>1, <1>9, <1>15 DEF Inserting
<1>17. Inserted'
  BY <1>1, <1>3, <1>9, <1>12, <1>14 DEF Inserted, t, p, made
<1> QED BY <1>13, <1>16, <1>17

-----------------------------------------------------------------------------
(* The theorems about insertions.                                          *)

LEMMA InvInit ==
  ASSUME Init
  PROVE  IInv
<1>1. Lexed /\ Consumed
  BY ReadingInit
<1>2. /\ pc = "main" /\ text = << <<>> >> /\ cur = <<1, 0>> /\ totsize = 0
      /\ item = NoItem /\ undone = FALSE /\ inserts = 0 /\ after = <<>>
  BY DEF Init
<1>3. <<>> \in Line /\ << <<>> >> \in Texts /\ LastOf(<< <<>> >>) = <<>> /\ Len(<< <<>> >>) = 1
  BY EmptySeq, One DEF Line, Lines, Texts, LastOf
<1>4. <<1, 0>> \in PositionsOf(<< <<>> >>)
  BY <1>3, Place
<1>5. TotSize(<< <<>> >>) = 0
  BY <1>3, SizeOne
<1>6. Typed
  BY <1>2, <1>3, <1>4, <1>5 DEF Typed
<1>7. Inserting /\ Inserted
  BY <1>2 DEF Inserting, Inserted
<1> QED BY <1>1, <1>6, <1>7 DEF IInv

LEMMA InvStep ==
  ASSUME IInv, Ordinary, [Next]_vars
  PROVE  IInv'
<1>1. Lexed' /\ Consumed'
  BY ReadingStep DEF IInv
<1>2. CASE UNCHANGED vars
  BY <1>2, StutterStep
<1>3. CASE (\E f \in Files : OpenBuffer(f)) \/ (\E f \in Inserts : InsertFile(f))
  BY <1>1, <1>3, StartStep DEF IInv
<1>4. CASE GetNewline \/ GetAfterReturn \/ GetChar
  BY <1>1, <1>4, ReadOnStep DEF IInv
<1>5. CASE EndOpening
  BY <1>1, <1>5, OpeningStep DEF IInv
<1>6. CASE EndInsertion
  BY <1>1, <1>6, InsertionStep DEF IInv
<1>7. CASE CannotInsert \/ DoMark \/ WriteFile \/ (\E p \in PositionsOf(text) : GotoLinePosX(p))
  BY <1>1, <1>7, QuietStep DEF IInv
<1>8. CASE UndoInsert
  BY <1>1, <1>8, UndoStep DEF IInv
<1>9. CASE RedoInsert
  BY <1>1, <1>9, RedoStep DEF IInv
<1> QED BY <1>2, <1>3, <1>4, <1>5, <1>6, <1>7, <1>8, <1>9 DEF Next, ReadStep

LEMMA Invariance ==
  ASSUME Ordinary
  PROVE  Spec => []IInv
<1>1. Init => IInv
  BY InvInit
<1>2. IInv /\ [Next]_vars => IInv'
  BY InvStep
<1> QED BY <1>1, <1>2, PTL DEF Spec

\* The cursor is in the text, the text ends in a magicline, and totsize, to which
\* what is inserted is added and from which what is undone is subtracted, is the size
\* of the text, for any files and flags (read_file, do_insertfile, do_undo, do_redo).
THEOREM TypesCorrect ==
  ASSUME Ordinary
  PROVE  Spec => []TypeOK
<1>1. IInv => TypeOK
  BY DEF IInv, Lexed, Typed, TypeOK, Position
<1> QED BY <1>1, Invariance, PTL

\* Undoing an insertion, however it ends its lines, gives back the text before it,
\* redoing it the text after, as often as one likes, and neither finds a line that is
\* not there or a cut that was not made (do_undo, do_redo of INSERT).
THEOREM UndoGivesBack ==
  ASSUME Ordinary
  PROVE  Spec => []UndoRestores
<1>1. IInv => UndoRestores
  BY DEF IInv, Typed, Inserted, UndoRestores
<1> QED BY <1>1, Invariance, PTL

LEMMA CharsOfPiece ==
  ASSUME Lexed, Consumed, pc = "main"
  PROVE  Chars(Piece) = Plain(input)
<1>1. got \in Lines /\ buf \in Line /\ in = <<>>
  BY DEF Lexed, Consumed
<1>2. ReadLine(buf) \in Line /\ Plain(ReadLine(buf)) = Plain(buf)
  BY <1>1, ReadLineIn
<1>3. Chars(LinesRead) = Chars(Append(got, buf))
  BY <1>1, <1>2, CharsRead DEF LinesRead
<1>4. Chars(Append(got, buf)) \in Line
  BY <1>1, AppendText, CharsIn
<1>5. Chars(Append(got, buf)) \o Plain(<<>>) = Plain(input)
  BY <1>1 DEF Consumed
<1>6. Chars(LinesRead) = Plain(input)
  BY <1>3, <1>4, <1>5, PlainEmpty, ConcatEmptySeq DEF Line
<1>7. LinesRead \in Texts
  BY LinesReadAre
<1>8. Chars(WithMagicline(LinesRead)) = Chars(LinesRead)
  BY <1>7, WithMagiclineIs
<1> QED BY <1>6, <1>8 DEF Piece

\* What is inserted lies between what was before the cursor and what was behind it,
\* with every character of the file but its line ends (read_file, do_insertfile).
THEOREM InsertsInPlace ==
  ASSUME Ordinary
  PROVE  Spec => []InsertedInPlace
<1>1. ASSUME IInv PROVE InsertedInPlace
  <2> SUFFICES ASSUME pc = "main", after # <<>>, text = after, cur = EndOf(before.cur, Piece)
      PROVE /\ Chars(TextBefore(text, cur))
               = Chars(TextBefore(before.text, before.cur)) \o Plain(input)
            /\ TextFrom(text, cur) = TextFrom(before.text, before.cur)
    BY DEF InsertedInPlace, Piece
  <2>1. item # NoItem
    BY <1>1 DEF IInv, Inserting
  <2>2. /\ Piece \in Texts /\ Len(Piece) # 1
        /\ before.text \in Texts /\ before.cur \in PositionsOf(before.text)
        /\ after = With(before.text, before.cur, Piece)
    BY <1>1, <2>1, InsertedIs
  <2>3. Splices(before.text, before.cur, Piece)
    BY <2>2, Spliced
  <2>4. Chars(Piece) = Plain(input)
    BY <1>1, CharsOfPiece DEF IInv
  <2>5. text = With(before.text, before.cur, Piece)
    BY <2>2
  <2> QED BY <2>3, <2>4, <2>5 DEF Splices
<1> QED BY <1>1, Invariance, PTL

-----------------------------------------------------------------------------
(* A new buffer is written as it was read.  Nothing is avoided here: the   *)
(* theorem is about what is read first.                                    *)

At(s, i, c)   == i \in 1..Len(s) /\ s[i] = c
Lacks(s, c)   == \A i \in 1..Len(s) : s[i] # c
Alternates(s) == \A i \in 0..Len(s) : At(s, i, "r") <=> At(s, i + 1, "n")

\* The lines read so far, written as they ended, and what is left are the file.
WrittenAs(f) == Write(Append(got, buf), f) \o in = input

\* The three ways in which the lines of a file end, and what is known of each
\* while it is read: what the next character may be, and what was made of format.
AsNix ==
    ~Converts \/ Lacks(input, "r") =>
      /\ format = 0 /\ WrittenAs("NIX")
      /\ Converts => Lacks(buf, "r") /\ Lacks(in, "r")
AsDos ==
    Converts /\ Alternates(input) =>
      /\ format = (IF got = <<>> THEN 0 ELSE 1) /\ WrittenAs("DOS")
      /\ Alternates(buf \o in)
AsMac ==
    Converts /\ Lacks(input, "n") =>
      /\ format = (IF got = <<>> THEN 0 ELSE 2) /\ WrittenAs("MAC")
      /\ Lacks(in, "n") /\ (buf = <<>> => got = <<>>)

\* Until something is inserted.
Opened ==
    /\ inserts \in Nat
    /\ pc = "read" /\ ~opening => inserts # 0
    /\ inserts = 0 =>
         /\ item = NoItem /\ ~undone
         /\ input = <<>> \/ pc = "read" => fmt = "NIX"
         /\ pc = "read" => AsNix /\ AsDos /\ AsMac
         /\ RoundTrip

LEMMA LacksTail ==
  ASSUME NEW s \in Line, s # <<>>, NEW c, Lacks(s, c)
  PROVE  Head(s) # c /\ Lacks(Tail(s), c)
<1>1. Len(s) \in Nat \ {0} /\ Len(Tail(s)) = Len(s) - 1
      /\ \A i \in 1..Len(Tail(s)) : Tail(s)[i] = s[i + 1]
  BY LenNat, HeadTailProperties DEF Line
<1>2. Head(s) = s[1] /\ 1 \in 1..Len(s)
  BY <1>1
<1>3. ASSUME NEW i \in 1..Len(Tail(s)) PROVE Tail(s)[i] # c
  <2>1. i + 1 \in 1..Len(s)
    BY <1>1
  <2> QED BY <1>1, <2>1 DEF Lacks
<1> QED BY <1>2, <1>3 DEF Lacks

LEMMA LacksAppend ==
  ASSUME NEW s \in Line, NEW e \in Char, NEW c, Lacks(s, c), e # c
  PROVE  Lacks(Append(s, e), c)
<1> DEFINE u == Append(s, e)
<1>1. Len(s) \in Nat /\ Len(u) = Len(s) + 1 /\ u[Len(s) + 1] = e /\ \A i \in 1..Len(s) : u[i] = s[i]
  BY LenNat, AppendProperties DEF Line
<1> HIDE DEF u
<1>2. ASSUME NEW i \in 1..Len(u) PROVE u[i] # c
  <2>1. i = Len(s) + 1 \/ i \in 1..Len(s)
    BY <1>1
  <2> QED BY <1>1, <2>1 DEF Lacks
<1> QED BY <1>2 DEF Lacks, u

LEMMA LacksReturn ==
  ASSUME NEW s \in Line, Lacks(s, "r")
  PROVE  ~EndsInReturn(s)
<1>1. s # <<>> => Len(s) \in 1..Len(s)
  BY LenNat DEF Line
<1> QED BY <1>1 DEF Lacks, EndsInReturn, LastOf

\* Where one line ends and another goes on.
LEMMA JoinedAt ==
  ASSUME NEW b \in Line, NEW s \in Line
  PROVE  /\ Len(b) \in Nat /\ Len(s) \in Nat /\ Len(b \o s) = Len(b) + Len(s)
         /\ \A c : At(b \o s, Len(b), c) <=> b # <<>> /\ LastOf(b) = c
         /\ \A c : At(b \o s, Len(b) + 1, c) <=> s # <<>> /\ Head(s) = c
         /\ \A i \in 1..Len(s) : \A c : At(b \o s, Len(b) + i, c) <=> At(s, i, c)
<1> DEFINE u == b \o s
<1>1. /\ Len(b) \in Nat /\ Len(s) \in Nat /\ Len(u) = Len(b) + Len(s)
      /\ \A i \in 1..Len(b) + Len(s) : u[i] = IF i <= Len(b) THEN b[i] ELSE s[i - Len(b)]
  BY LenNat, ConcatProperties DEF Line
<1>2. (b # <<>> => Len(b) # 0) /\ (s # <<>> => Len(s) # 0) /\ (s # <<>> => Head(s) = s[1])
  BY LenNat DEF Line
<1>3. (b = <<>> => Len(b) = 0) /\ (s = <<>> => Len(s) = 0)
  OBVIOUS
<1> HIDE DEF u
<1>4. ASSUME NEW c PROVE At(u, Len(b), c) <=> b # <<>> /\ LastOf(b) = c
  <2>1. CASE b = <<>>
    BY <1>1, <1>3, <2>1 DEF At
  <2>2. CASE b # <<>>
    <3>1. Len(b) \in 1..Len(u) /\ u[Len(b)] = b[Len(b)]
      BY <1>1, <1>2, <2>2
    <3> QED BY <2>2, <3>1 DEF At, LastOf
  <2> QED BY <2>1, <2>2
<1>5. ASSUME NEW i \in 1..Len(s), NEW c PROVE At(u, Len(b) + i, c) <=> At(s, i, c)
  <2>1. Len(b) + i \in 1..Len(b) + Len(s) /\ ~(Len(b) + i <= Len(b)) /\ Len(b) + i - Len(b) = i
    BY <1>1
  <2>2. u[Len(b) + i] = s[i] /\ Len(b) + i \in 1..Len(u)
    BY <1>1, <2>1
  <2> QED BY <2>2 DEF At
<1>6. ASSUME NEW c PROVE At(u, Len(b) + 1, c) <=> s # <<>> /\ Head(s) = c
  <2>1. CASE s = <<>>
    BY <1>1, <1>3, <2>1 DEF At
  <2>2. CASE s # <<>>
    <3>1. 1 \in 1..Len(s)
      BY <1>1, <1>2, <2>2
    <3>2. At(u, Len(b) + 1, c) <=> At(s, 1, c)
      BY <1>5, <3>1
    <3> QED BY <1>2, <2>2, <3>1, <3>2 DEF At
  <2> QED BY <2>1, <2>2
<1> QED BY <1>1, <1>4, <1>5, <1>6 DEF u

\* In a DOS file a newline comes where the line so far ends in a return, and only there.
LEMMA NewlineHere ==
  ASSUME NEW b \in Line, NEW s \in Line, Alternates(b \o s)
  PROVE  EndsInReturn(b) <=> s # <<>> /\ Head(s) = "n"
<1>1. /\ Len(b) \in Nat /\ Len(s) \in Nat /\ Len(b \o s) = Len(b) + Len(s)
      /\ At(b \o s, Len(b), "r") <=> b # <<>> /\ LastOf(b) = "r"
      /\ At(b \o s, Len(b) + 1, "n") <=> s # <<>> /\ Head(s) = "n"
  BY JoinedAt
<1>2. Len(b) \in 0..Len(b \o s)
  BY <1>1
<1>3. At(b \o s, Len(b), "r") <=> At(b \o s, Len(b) + 1, "n")
  BY <1>2 DEF Alternates
<1> QED BY <1>1, <1>3 DEF EndsInReturn

\* What follows the newline alternates, too.
LEMMA AlternatesOn ==
  ASSUME NEW b \in Line, NEW s \in Line, Alternates(b \o s), s # <<>>, Head(s) = "n"
  PROVE  Alternates(<<>> \o Tail(s))
<1> DEFINE t == Tail(s)
           u == b \o s
           B == Append(b, Head(s))
<1>1. t \in Line /\ Head(s) \in Char
  BY HeadApart
<1>2. u = B \o t /\ B \in Line /\ Len(B) = Len(b) + 1 /\ B # <<>> /\ LastOf(B) = "n"
  <2>1. B \in Line /\ Len(B) = Len(b) + 1 /\ B[Len(b) + 1] = "n" /\ B # <<>>
    BY <1>1, AppendProperties DEF Line
  <2>2. u = B \o t
    BY MovedOn
  <2> QED BY <2>1, <2>2 DEF LastOf
<1> HIDE DEF u, B, t
<1>3. /\ Len(B) \in Nat /\ Len(t) \in Nat /\ Len(u) = Len(B) + Len(t)
      /\ At(u, Len(B), "r") <=> B # <<>> /\ LastOf(B) = "r"
      /\ \A i \in 1..Len(t) : \A c : At(u, Len(B) + i, c) <=> At(t, i, c)
  BY <1>1, <1>2, JoinedAt
<1>4. ASSUME NEW i \in 0..Len(t) PROVE At(t, i, "r") <=> At(t, i + 1, "n")
  <2>1. At(u, Len(B) + i, "r") <=> At(u, Len(B) + i + 1, "n")
    <3>1. Len(B) + i \in 0..Len(u)
      BY <1>3
    <3> QED BY <3>1 DEF Alternates, u
  <2>2. At(u, Len(B) + i + 1, "n") <=> At(t, i + 1, "n")
    <3>1. CASE i + 1 \in 1..Len(t)
      <4>1. Len(B) + (i + 1) = Len(B) + i + 1
        BY <1>3
      <4>2. At(u, Len(B) + (i + 1), "n") <=> At(t, i + 1, "n")
        BY <1>3, <3>1
      <4> QED BY <4>1, <4>2
    <3>2. CASE i + 1 \notin 1..Len(t)
      <4>1. Len(B) + i + 1 \notin 1..Len(u)
        BY <1>3, <3>2
      <4> QED BY <3>2, <4>1 DEF At
    <3> QED BY <3>1, <3>2
  <2>3. At(u, Len(B) + i, "r") <=> At(t, i, "r")
    <3>1. CASE i = 0
      <4>1. ~At(t, i, "r")
        BY <1>3, <3>1 DEF At
      <4>2. Len(B) + i = Len(B)
        BY <1>3, <3>1
      <4> QED BY <1>2, <1>3, <4>1, <4>2
    <3>2. CASE i # 0
      <4>1. i \in 1..Len(t)
        BY <1>3, <3>2
      <4> QED BY <1>3, <4>1
    <3> QED BY <3>1, <3>2
  <2> QED BY <2>1, <2>2, <2>3
<1>5. <<>> \o t = t
  BY <1>1, ConcatEmptySeq DEF Line
<1> QED BY <1>4, <1>5 DEF Alternates, t

LEMMA UniformIs ==
  ASSUME NEW f
  PROVE  Uniform(f) <=> Lacks(f, "r") \/ Alternates(f) \/ Lacks(f, "n")
BY DEF Uniform, Lacks, Alternates, At

LEMMA LongerIs ==
  \A s \in Lines, l, m \in Line : \A f : Write(Append(s, l \o m), f) = Write(Append(s, l), f) \o m
BY WriteLonger

LEMMA Regroup == \A a, b, c \in Line : (a \o b) \o c = a \o (b \o c)
BY ConcatAssociative DEF Line

\* What is written and what is left stay the same file: with a character more,
LEMMA WroteChar ==
  ASSUME NEW s \in Lines, NEW l \in Line, NEW r \in Line, r # <<>>, NEW f
  PROVE  Write(Append(s, Append(l, Head(r))), f) \o Tail(r) = Write(Append(s, l), f) \o r
<1> DEFINE h == Head(r)
           t == Tail(r)
           w == Write(Append(s, l), f)
<1>1. h \in Char /\ t \in Line /\ <<h>> \in Line /\ r = <<h>> \o t
  BY HeadApart
<1> HIDE DEF h, t
<1>2. Append(l, h) = l \o <<h>>
  BY <1>1, AppendIsConcat DEF Line
<1>3. Write(Append(s, l \o <<h>>), f) = w \o <<h>> /\ Append(s, l) \in Texts
  <2> DEFINE m == <<h>>
  <2>1. m \in Line
    BY <1>1
  <2> HIDE DEF m
  <2>2. Write(Append(s, l \o m), f) = Write(Append(s, l), f) \o m
    BY <2>1, LongerIs
  <2> QED BY <2>2, AppendText DEF m
<1>4. w \in Line
  BY <1>3, WriteIn
<1> HIDE DEF w
<1>5. (w \o <<h>>) \o t = w \o (<<h>> \o t)
  BY <1>1, <1>4, ConcatAssociative DEF Line
<1>6. Write(Append(s, Append(l, h)), f) \o t = w \o r
  BY <1>1, <1>2, <1>3, <1>5
<1> QED BY <1>6 DEF h, t, w

\* and with a line more, in each format.
LEMMA WroteNix ==
  ASSUME NEW s \in Lines, NEW l \in Line, NEW r \in Line, r # <<>>, Head(r) = "n"
  PROVE  Write(Append(Append(s, l), <<>>), "NIX") \o Tail(r) = Write(Append(s, l), "NIX") \o r
<1> DEFINE t == Tail(r)
           w == Write(Append(s, l), "NIX")
           e == <<"n">>
<1>1. t \in Line /\ e \in Line /\ r = e \o t /\ <<>> \in Line
  BY HeadApart, EmptySeq DEF Line
<1>2. Append(s, l) \in Texts
  BY AppendText
<1>3. w \in Line
  BY <1>2, WriteIn
<1>4. Write(Append(Append(s, l), <<>>), "NIX") = w \o e \o <<>>
  BY <1>1, <1>2, WriteAppend DEF LineEnd
<1> HIDE DEF w, e, t
<1>5. w \o e \in Line
  BY <1>1, <1>3, ConcatProperties DEF Line
<1>6. (w \o e) \o <<>> = w \o e
  BY <1>5, ConcatEmptySeq DEF Line
<1>7. (w \o e) \o t = w \o (e \o t)
  BY <1>1, <1>3, ConcatAssociative DEF Line
<1>8. Write(Append(Append(s, l), <<>>), "NIX") \o t = w \o r
  BY <1>1, <1>4, <1>6, <1>7
<1> QED BY <1>8 DEF t, w

LEMMA WroteMac ==
  ASSUME NEW s \in Lines, NEW b \in Line, NEW r \in Line, r # <<>>
  PROVE  Write(Append(Append(s, b), <<Head(r)>>), "MAC") \o Tail(r)
         = Write(Append(s, b \o <<"r">>), "MAC") \o r
<1> DEFINE h == Head(r)
           t == Tail(r)
           w == Write(Append(s, b), "MAC")
           e == <<"r">>
<1>1. t \in Line /\ h \in Char /\ <<h>> \in Line /\ r = <<h>> \o t
  BY HeadApart
<1> HIDE DEF h, t
<1>2. e \in Line /\ "r" \in Char
  <2>1. "r" \in Char
    BY DEF Char
  <2> QED BY <2>1, One DEF Line
<1>3. Write(Append(s, b \o e), "MAC") = w \o e /\ Append(s, b) \in Texts
  <2> HIDE DEF e
  <2>1. Write(Append(s, b \o e), "MAC") = Write(Append(s, b), "MAC") \o e
    BY <1>2, LongerIs
  <2> QED BY <2>1, AppendText
<1>4. w \in Line
  BY <1>3, WriteIn
<1>5. Write(Append(Append(s, b), <<h>>), "MAC") = w \o e \o <<h>>
  BY <1>1, <1>3, WriteAppend DEF LineEnd
<1> HIDE DEF w, e
<1>6. w \o e \in Line
  BY <1>2, <1>4, ConcatProperties DEF Line
<1>7. ((w \o e) \o <<h>>) \o t = (w \o e) \o (<<h>> \o t)
  BY <1>1, <1>6, ConcatAssociative DEF Line
<1>8. Write(Append(Append(s, b), <<h>>), "MAC") \o t = Write(Append(s, b \o e), "MAC") \o r
  BY <1>1, <1>3, <1>5, <1>7
<1> QED BY <1>8 DEF h, t, e

LEMMA WroteDos ==
  ASSUME NEW s \in Lines, NEW b \in Line, NEW r \in Line, r # <<>>, Head(r) = "n"
  PROVE  Write(Append(Append(s, b), <<>>), "DOS") \o Tail(r)
         = Write(Append(s, b \o <<"r">>), "DOS") \o r
<1> DEFINE t == Tail(r)
           w == Write(Append(s, b), "DOS")
           e == <<"r">>
           n == <<"n">>
           x == <<"r", "n">>
<1>1. t \in Line /\ n \in Line /\ r = n \o t /\ <<>> \in Line
  BY HeadApart, EmptySeq DEF Line
<1>2. e \in Line /\ "r" \in Char
  <2>1. "r" \in Char
    BY DEF Char
  <2> QED BY <2>1, One DEF Line
<1>3. x = e \o n /\ x \in Line
  <2>1. "n" \in Char
    BY DEF Char
  <2>2. Append(e, "n") = e \o n
    BY <1>2, <2>1, AppendIsConcat DEF Line
  <2>3. x = Append(e, "n")
    OBVIOUS
  <2>4. e \o n \in Line
    BY <1>1, <1>2, ConcatProperties DEF Line
  <2> QED BY <2>2, <2>3, <2>4
<1>4. Write(Append(s, b \o e), "DOS") = w \o e /\ Append(s, b) \in Texts
  <2> HIDE DEF e
  <2>1. Write(Append(s, b \o e), "DOS") = Write(Append(s, b), "DOS") \o e
    BY <1>2, LongerIs
  <2> QED BY <2>1, AppendText
<1>5. w \in Line
  BY <1>4, WriteIn
<1>6. Write(Append(Append(s, b), <<>>), "DOS") = w \o x \o <<>>
  BY <1>1, <1>4, WriteAppend DEF LineEnd
<1> HIDE DEF w, e, n, x, t
<1>7. w \o x \in Line /\ w \o e \in Line
  BY <1>2, <1>3, <1>5, ConcatProperties DEF Line
<1>8. (w \o x) \o <<>> = w \o x
  BY <1>7, ConcatEmptySeq DEF Line
<1>9. w \o x = (w \o e) \o n
  <2>1. (w \o e) \o n = w \o (e \o n)
    BY <1>1, <1>2, <1>5, Regroup
  <2> QED BY <1>3, <2>1
<1>10. ((w \o e) \o n) \o t = (w \o e) \o (n \o t)
  <2> DEFINE a == w \o e
  <2>1. a \in Line
    BY <1>7
  <2> HIDE DEF a
  <2>2. (a \o n) \o t = a \o (n \o t)
    BY <1>1, <2>1, Regroup
  <2> QED BY <2>2 DEF a
<1>11. Write(Append(Append(s, b), <<>>), "DOS") \o t = Write(Append(s, b \o e), "DOS") \o r
  BY <1>1, <1>4, <1>6, <1>8, <1>9, <1>10
<1> QED BY <1>11 DEF t, e

\* Nothing is read yet.
LEMMA WrittenFirst ==
  ASSUME NEW f, NEW file \in Line
  PROVE  Write(Append(<<>>, <<>>), f) \o file = file /\ <<>> \o file = file
<1>1. <<>> \in Line /\ Append(<<>>, <<>>) = << <<>> >>
  BY EmptySeq DEF Line
<1>2. Write(<< <<>> >>, f) = <<>>
  BY <1>1, WriteOne
<1> QED BY <1>1, <1>2, ConcatEmptySeq DEF Line

-----------------------------------------------------------------------------
(* The steps of read_file.                                                 *)

Known == AsNix /\ AsDos /\ AsMac

LEMMA KnownFirst ==
  ASSUME NEW file \in Line, NEW new, StartReading(file, new), flags' = flags
  PROVE  Known'
<1>1. in' = file /\ input' = file /\ buf' = <<>> /\ got' = <<>> /\ format' = 0
  BY DEF StartReading
<1>2. Write(Append(<<>>, <<>>), "NIX") \o file = file /\ <<>> \o file = file
  BY WrittenFirst
<1>3. Write(Append(<<>>, <<>>), "DOS") \o file = file
  BY WrittenFirst
<1>4. Write(Append(<<>>, <<>>), "MAC") \o file = file
  BY WrittenFirst
<1>5. Lacks(<<>>, "r")
  BY DEF Lacks
<1>6. AsNix'
  BY <1>1, <1>2, <1>5 DEF AsNix, WrittenAs
<1>7. AsDos'
  BY <1>1, <1>2, <1>3 DEF AsDos, WrittenAs
<1>8. AsMac'
  BY <1>1, <1>4 DEF AsMac, WrittenAs
<1> QED BY <1>6, <1>7, <1>8 DEF Known

LEMMA ReadLineKeeps ==
  ASSUME ~Converts \/ ~EndsInReturn(buf)
  PROVE  ReadLine(buf) = buf /\ ~MayConvert
BY DEF ReadLine, MayConvert

LEMMA ReadLineStrips ==
  ASSUME Lexed, Converts, EndsInReturn(buf)
  PROVE  ReadLine(buf) \in Line /\ buf = ReadLine(buf) \o <<"r">>
<1>1. buf \in Line
  BY DEF Lexed
<1>2. PICK b \in Line : buf = b \o <<"r">> /\ SubSeq(buf, 1, Len(buf) - 1) = b
  BY <1>1, Stripped
<1> QED BY <1>2 DEF ReadLine

LEMMA KnownNewline ==
  ASSUME GetNewline, Lexed, Known
  PROVE  Known'
<1>1. /\ in # <<>> /\ Head(in) = "n" /\ in' = Tail(in) /\ buf' = <<>>
      /\ got' = Append(got, ReadLine(buf)) /\ input' = input /\ Converts' = Converts
      /\ format' = IF MayConvert /\ format \in {0, 2} THEN format + 1 ELSE format
  BY DEF GetNewline, Converts
<1>2. in \in Line /\ buf \in Line /\ got \in Lines
  BY DEF Lexed
<1>3. AsNix'
  <2> SUFFICES ASSUME ~Converts \/ Lacks(input, "r")
      PROVE /\ format' = 0 /\ Write(Append(got', buf'), "NIX") \o in' = input
            /\ Converts => Lacks(buf', "r") /\ Lacks(in', "r")
    BY <1>1 DEF AsNix, WrittenAs
  <2>1. /\ format = 0 /\ WrittenAs("NIX")
        /\ Converts => Lacks(buf, "r") /\ Lacks(in, "r")
    BY DEF Known, AsNix
  <2>2. ~Converts \/ ~EndsInReturn(buf)
    BY <1>2, <2>1, LacksReturn
  <2>3. ReadLine(buf) = buf /\ ~MayConvert
    BY <2>2, ReadLineKeeps
  <2>4. Write(Append(Append(got, buf), <<>>), "NIX") \o Tail(in)
        = Write(Append(got, buf), "NIX") \o in
    BY <1>1, <1>2, WroteNix
  <2>5. Converts => Lacks(Tail(in), "r")
    BY <1>1, <1>2, <2>1, LacksTail
  <2>6. Lacks(<<>>, "r")
    BY DEF Lacks
  <2> QED BY <1>1, <2>1, <2>3, <2>4, <2>5, <2>6 DEF WrittenAs
<1>4. AsDos'
  <2> SUFFICES ASSUME Converts, Alternates(input)
      PROVE /\ format' = (IF got' = <<>> THEN 0 ELSE 1)
            /\ Write(Append(got', buf'), "DOS") \o in' = input
            /\ Alternates(buf' \o in')
    BY <1>1 DEF AsDos, WrittenAs
  <2>1. /\ format = (IF got = <<>> THEN 0 ELSE 1) /\ WrittenAs("DOS")
        /\ Alternates(buf \o in)
    BY DEF Known, AsDos
  <2>2. EndsInReturn(buf)
    BY <1>1, <1>2, <2>1, NewlineHere
  <2> DEFINE b == ReadLine(buf)
  <2>3. b \in Line /\ buf = b \o <<"r">>
    BY <2>2, ReadLineStrips
  <2>4. MayConvert
    BY <2>1, <2>2 DEF MayConvert
  <2> HIDE DEF b
  <2>5. Append(got, b) # <<>>
    BY <1>2, <2>3, AppendText DEF Texts
  <2>6. Write(Append(Append(got, b), <<>>), "DOS") \o Tail(in)
        = Write(Append(got, b \o <<"r">>), "DOS") \o in
    BY <1>1, <1>2, <2>3, WroteDos
  <2>7. Alternates(<<>> \o Tail(in))
    BY <1>1, <1>2, <2>1, AlternatesOn
  <2>8. format' = 1
    BY <1>1, <2>1, <2>4
  <2>9. got' = Append(got, b)
    BY <1>1 DEF b
  <2>10. Write(Append(got, b \o <<"r">>), "DOS") \o in = input
    BY <2>1, <2>3 DEF WrittenAs
  <2> QED BY <1>1, <2>5, <2>6, <2>7, <2>8, <2>9, <2>10
<1>5. AsMac'
  <2>1. ~(Converts /\ Lacks(input, "n"))
    <3>1. Lacks(in, "n") => Head(in) # "n"
      BY <1>1, <1>2, LacksTail
    <3> QED BY <1>1, <3>1 DEF Known, AsMac
  <2> QED BY <1>1, <2>1 DEF AsMac
<1> QED BY <1>3, <1>4, <1>5 DEF Known

LEMMA KnownReturn ==
  ASSUME GetAfterReturn, Lexed, Known
  PROVE  Known'
<1>1. /\ in # <<>> /\ Head(in) # "n" /\ in' = Tail(in) /\ buf' = <<Head(in)>>
      /\ got' = Append(got, ReadLine(buf)) /\ input' = input /\ Converts' = Converts
      /\ format' = IF format \in {0, 1} THEN format + 2 ELSE format
  BY DEF GetAfterReturn, Converts
<1>2. in \in Line /\ buf \in Line /\ got \in Lines
  BY DEF Lexed
<1>3. Converts /\ EndsInReturn(buf)
  BY DEF GetAfterReturn, MayConvert
<1>4. AsNix'
  <2>1. ~(~Converts \/ Lacks(input, "r"))
    <3>1. Lacks(buf, "r") => ~EndsInReturn(buf)
      BY <1>2, LacksReturn
    <3> QED BY <1>3, <3>1 DEF Known, AsNix
  <2> QED BY <1>1, <2>1 DEF AsNix
<1>5. AsDos'
  <2>1. ~(Converts /\ Alternates(input))
    <3>1. Alternates(buf \o in) => ~EndsInReturn(buf)
      BY <1>1, <1>2, NewlineHere
    <3> QED BY <1>3, <3>1 DEF Known, AsDos
  <2> QED BY <1>1, <2>1 DEF AsDos
<1>6. AsMac'
  <2> SUFFICES ASSUME Converts, Lacks(input, "n")
      PROVE /\ format' = (IF got' = <<>> THEN 0 ELSE 2)
            /\ Write(Append(got', buf'), "MAC") \o in' = input
            /\ Lacks(in', "n") /\ buf' # <<>>
    BY <1>1 DEF AsMac, WrittenAs
  <2>1. /\ format = (IF got = <<>> THEN 0 ELSE 2) /\ WrittenAs("MAC")
        /\ Lacks(in, "n")
    BY DEF Known, AsMac
  <2> DEFINE b == ReadLine(buf)
  <2>2. b \in Line /\ buf = b \o <<"r">>
    BY <1>3, ReadLineStrips
  <2> HIDE DEF b
  <2>3. Append(got, b) # <<>>
    BY <1>2, <2>2, AppendText DEF Texts
  <2>4. Write(Append(Append(got, b), <<Head(in)>>), "MAC") \o Tail(in)
        = Write(Append(got, b \o <<"r">>), "MAC") \o in
    BY <1>1, <1>2, <2>2, WroteMac
  <2>5. Lacks(Tail(in), "n")
    BY <1>1, <1>2, <2>1, LacksTail
  <2>6. format' = 2
    BY <1>1, <2>1
  <2>7. got' = Append(got, b)
    BY <1>1 DEF b
  <2>8. Write(Append(got, b \o <<"r">>), "MAC") \o in = input
    BY <2>1, <2>2 DEF WrittenAs
  <2> QED BY <1>1, <2>3, <2>4, <2>5, <2>6, <2>7, <2>8
<1> QED BY <1>4, <1>5, <1>6 DEF Known

LEMMA KnownChar ==
  ASSUME GetChar, Lexed, Known
  PROVE  Known'
<1>1. /\ in # <<>> /\ Head(in) # "n" /\ in' = Tail(in) /\ buf' = Append(buf, Head(in))
      /\ got' = got /\ input' = input /\ Converts' = Converts /\ format' = format
  BY DEF GetChar, Converts
<1>2. in \in Line /\ buf \in Line /\ got \in Lines
  BY DEF Lexed
<1>3. Head(in) \in Char
  BY <1>1, <1>2, HeadApart
<1>4. Append(buf, Head(in)) # <<>>
  BY <1>2, <1>3, AppendProperties DEF Line
<1>5. ASSUME NEW f, WrittenAs(f)
      PROVE  Write(Append(got', buf'), f) \o in' = input
  <2>1. Write(Append(got, Append(buf, Head(in))), f) \o Tail(in) = Write(Append(got, buf), f) \o in
    BY <1>1, <1>2, WroteChar
  <2> QED BY <1>1, <1>5, <2>1 DEF WrittenAs
<1>6. AsNix'
  <2> SUFFICES ASSUME ~Converts \/ Lacks(input, "r")
      PROVE /\ format' = 0 /\ Write(Append(got', buf'), "NIX") \o in' = input
            /\ Converts => Lacks(buf', "r") /\ Lacks(in', "r")
    BY <1>1 DEF AsNix, WrittenAs
  <2>1. /\ format = 0 /\ WrittenAs("NIX")
        /\ Converts => Lacks(buf, "r") /\ Lacks(in, "r")
    BY DEF Known, AsNix
  <2>2. Converts => Head(in) # "r" /\ Lacks(Tail(in), "r")
    BY <1>1, <1>2, <2>1, LacksTail
  <2>3. Converts => Lacks(Append(buf, Head(in)), "r")
    BY <1>2, <1>3, <2>1, <2>2, LacksAppend
  <2> QED BY <1>1, <1>5, <2>1, <2>2, <2>3
<1>7. AsDos'
  <2> SUFFICES ASSUME Converts, Alternates(input)
      PROVE /\ format' = (IF got' = <<>> THEN 0 ELSE 1)
            /\ Write(Append(got', buf'), "DOS") \o in' = input
            /\ Alternates(buf' \o in')
    BY <1>1 DEF AsDos, WrittenAs
  <2>1. /\ format = (IF got = <<>> THEN 0 ELSE 1) /\ WrittenAs("DOS")
        /\ Alternates(buf \o in)
    BY DEF Known, AsDos
  <2>2. buf \o in = Append(buf, Head(in)) \o Tail(in)
    BY <1>1, <1>2, MovedOn
  <2> QED BY <1>1, <1>5, <2>1, <2>2
<1>8. AsMac'
  <2> SUFFICES ASSUME Converts, Lacks(input, "n")
      PROVE /\ format' = (IF got' = <<>> THEN 0 ELSE 2)
            /\ Write(Append(got', buf'), "MAC") \o in' = input
            /\ Lacks(in', "n") /\ buf' # <<>>
    BY <1>1 DEF AsMac, WrittenAs
  <2>1. /\ format = (IF got = <<>> THEN 0 ELSE 2) /\ WrittenAs("MAC")
        /\ Lacks(in, "n")
    BY DEF Known, AsMac
  <2>2. Lacks(Tail(in), "n")
    BY <1>1, <1>2, <2>1, LacksTail
  <2> QED BY <1>1, <1>4, <1>5, <2>1, <2>2
<1> QED BY <1>6, <1>7, <1>8 DEF Known

-----------------------------------------------------------------------------
(* What is written of what was read.                                       *)

LEMMA Whole ==
  ASSUME Lexed, in = <<>>, NEW f, WrittenAs(f)
  PROVE  Write(Append(got, buf), f) = input
<1>1. got \in Lines /\ buf \in Line
  BY DEF Lexed
<1>2. Write(Append(got, buf), f) \in Line
  BY <1>1, AppendText, WriteIn
<1> QED BY <1>2, ConcatEmptySeq DEF Line, WrittenAs

LEMMA SameLines ==
  ASSUME Lexed, ~Converts \/ ~EndsInReturn(buf), ~Magiclines \/ buf = <<>>
  PROVE  Piece = Append(got, buf) /\ LastFormat = format
<1>1. got \in Lines /\ buf \in Line
  BY DEF Lexed
<1>2. LinesRead = Append(got, buf)
  BY ReadLineKeeps DEF LinesRead
<1>3. LastOf(Append(got, buf)) = buf
  BY <1>1, AppendText
<1> QED BY <1>2, <1>3 DEF Piece, WithMagicline, LastFormat

LEMMA FirstLine ==
  ASSUME Lexed, got = <<>>, NEW f
  PROVE  Write(Append(got, buf), f) = buf
<1>1. Append(got, buf) = <<buf>> /\ buf \in Line
  BY DEF Lexed
<1> QED BY <1>1, WriteOne

LEMMA NixAgain ==
  ASSUME Lexed, Consumed, AsNix, in = <<>>, input # <<>>, Ended(input),
         ~Converts \/ Lacks(input, "r"), fmt = "NIX"
  PROVE  Write(Piece, NewFmt(LastFormat)) = input
<1>1. /\ format = 0 /\ WrittenAs("NIX")
      /\ Converts => Lacks(buf, "r")
  BY DEF AsNix
<1>2. buf \in Line /\ input \in Line
  BY DEF Lexed
<1>3. ~Converts \/ ~EndsInReturn(buf)
  BY <1>1, <1>2, LacksReturn
<1>4. ~(Converts /\ LastOf(input) = "r")
  <2>1. Lacks(input, "r") => ~EndsInReturn(input)
    BY <1>2, LacksReturn
  <2> QED BY <2>1 DEF EndsInReturn
<1>5. ~Magiclines \/ buf = <<>>
  <2>1. CASE LastOf(input) = "n"
    BY <2>1 DEF Consumed
  <2>2. CASE LastOf(input) # "n"
    <3>1. Magiclines = (Converts /\ LastOf(input) = "r")
      BY <2>2 DEF Ended
    <3> QED BY <1>4, <3>1
  <2> QED BY <2>1, <2>2
<1>6. Piece = Append(got, buf) /\ LastFormat = 0
  BY <1>1, <1>3, <1>5, SameLines
<1>7. NewFmt(LastFormat) = "NIX"
  BY <1>6 DEF NewFmt
<1>8. Write(Append(got, buf), "NIX") = input
  BY <1>1, Whole
<1> QED BY <1>6, <1>7, <1>8

LEMMA DosAgain ==
  ASSUME Lexed, Consumed, AsDos, in = <<>>, input # <<>>, Ended(input), Converts,
         Alternates(input), fmt = "NIX"
  PROVE  Write(Piece, NewFmt(LastFormat)) = input
<1>1. /\ format = (IF got = <<>> THEN 0 ELSE 1) /\ WrittenAs("DOS") /\ Alternates(buf \o <<>>)
  BY DEF AsDos
<1>2. buf \in Line /\ input \in Line /\ <<>> \in Line /\ input \o <<>> = input
  BY EmptySeq, ConcatEmptySeq DEF Lexed, Line
<1>3. ~EndsInReturn(buf)
  BY <1>1, <1>2, NewlineHere
<1>4. ~EndsInReturn(input)
  <2>1. Alternates(input \o <<>>)
    BY <1>2
  <2> QED BY <1>2, <2>1, NewlineHere
<1>5. ~Magiclines \/ buf = <<>>
  <2>1. CASE LastOf(input) = "n"
    BY <2>1 DEF Consumed
  <2>2. CASE LastOf(input) # "n"
    <3>1. Magiclines = (Converts /\ LastOf(input) = "r")
      BY <2>2 DEF Ended
    <3> QED BY <1>4, <3>1 DEF EndsInReturn
  <2> QED BY <2>1, <2>2
<1>6. Piece = Append(got, buf) /\ LastFormat = format
  BY <1>3, <1>5, SameLines
<1>7. Write(Append(got, buf), "DOS") = input
  BY <1>1, Whole
<1>8. CASE got # <<>>
  BY <1>1, <1>6, <1>7, <1>8 DEF NewFmt
<1>9. CASE got = <<>>
  <2>1. NewFmt(LastFormat) = "NIX"
    BY <1>1, <1>6, <1>9 DEF NewFmt
  <2>2. Write(Append(got, buf), "NIX") = buf
    BY <1>9, FirstLine
  <2>3. Write(Append(got, buf), "DOS") = buf
    BY <1>9, FirstLine
  <2> QED BY <1>6, <1>7, <2>1, <2>2, <2>3
<1> QED BY <1>8, <1>9

\* What ends in a character ends in it when it is written.
LEMMA LastWritten ==
  ASSUME NEW s \in Lines, NEW b \in Line, NEW c \in Char, NEW f
  PROVE  /\ Write(Append(s, Append(b, c)), f) = Append(Write(Append(s, b), f), c)
         /\ Write(Append(s, b), f) \in Line
<1>1. <<c>> \in Line /\ Append(b, c) = b \o <<c>>
  BY One, AppendIsConcat DEF Line
<1>2. Write(Append(s, b), f) \in Line
  BY AppendText, WriteIn
<1>3. Write(Append(s, b), f) \o <<c>> = Append(Write(Append(s, b), f), c)
  BY <1>2, AppendIsConcat DEF Line
<1>4. Write(Append(s, b \o <<c>>), f) = Write(Append(s, b), f) \o <<c>>
  <2> DEFINE m == <<c>>
  <2>1. m \in Line
    BY <1>1
  <2> HIDE DEF m
  <2>2. Write(Append(s, b \o m), f) = Write(Append(s, b), f) \o m
    BY <2>1, LongerIs
  <2> QED BY <2>2 DEF m
<1> QED BY <1>1, <1>2, <1>3, <1>4

LEMMA AppendedLast ==
  ASSUME NEW w \in Line, NEW c \in Char
  PROVE  /\ LastOf(Append(w, c)) = c /\ Append(w, c) # <<>> /\ Append(w, c) \in Line
         /\ Len(Append(w, c)) = Len(w) + 1 /\ Len(w) \in Nat
         /\ w # <<>> => Append(w, c)[Len(w)] = LastOf(w)
<1> DEFINE u == Append(w, c)
<1>1. u \in Line /\ u # <<>> /\ Len(u) = Len(w) + 1 /\ u[Len(w) + 1] = c /\ Len(w) \in Nat
      /\ \A i \in 1..Len(w) : u[i] = w[i]
  BY AppendProperties, LenNat DEF Line
<1>2. w # <<>> => Len(w) \in 1..Len(w)
  BY LenNat DEF Line
<1> HIDE DEF u
<1>3. LastOf(u) = c
  BY <1>1 DEF LastOf
<1>4. w # <<>> => u[Len(w)] = LastOf(w)
  BY <1>1, <1>2 DEF LastOf
<1> QED BY <1>1, <1>3, <1>4 DEF u

LEMMA MacAgain ==
  ASSUME Lexed, Consumed, AsMac, in = <<>>, input # <<>>, Ended(input), Converts,
         Lacks(input, "n"), fmt = "NIX"
  PROVE  \/ Write(Piece, NewFmt(LastFormat)) = input
         \/ NewFmt(LastFormat) = "MAC" /\ (Len(input) = 1 \/ input[Len(input) - 1] = "r")
<1>1. /\ format = (IF got = <<>> THEN 0 ELSE 2) /\ WrittenAs("MAC")
      /\ (buf = <<>> => got = <<>>)
  BY DEF AsMac
<1>2. buf \in Line /\ input \in Line /\ got \in Lines
  BY DEF Lexed
<1>3. Write(Append(got, buf), "MAC") = input
  BY <1>1, Whole
<1>4. buf # <<>>
  <2>1. got = <<>> => Write(Append(got, buf), "MAC") = buf
    BY FirstLine
  <2> QED BY <1>1, <1>3, <2>1
<1>5. PICK b \in Line, c \in Char : buf = Append(b, c) /\ c = buf[Len(buf)]
  BY <1>2, <1>4, LastApart DEF Line
<1> DEFINE w == Write(Append(got, b), "MAC")
<1>6. input = Append(w, c) /\ w \in Line
  <2>1. Write(Append(got, Append(b, c)), "MAC") = Append(w, c) /\ w \in Line
    BY <1>2, LastWritten
  <2> QED BY <1>3, <1>5, <2>1
<1>7. LastOf(input) = c
  <2> HIDE DEF w
  <2> QED BY <1>6, AppendedLast
<1>8. LastOf(input) # "n"
  <2>1. Len(input) \in 1..Len(input)
    BY <1>2, LenNat DEF Line
  <2> QED BY <2>1 DEF Lacks, LastOf
<1>9. Magiclines = (c = "r")
  BY <1>7, <1>8 DEF Ended
<1>10. CASE c # "r"
  <2>1. ~EndsInReturn(buf)
    BY <1>5, <1>10 DEF EndsInReturn, LastOf
  <2>2. Piece = Append(got, buf) /\ LastFormat = format
    BY <1>9, <1>10, <2>1, SameLines
  <2>3. CASE got # <<>>
    BY <1>1, <1>3, <2>2, <2>3 DEF NewFmt
  <2>4. CASE got = <<>>
    <3>1. NewFmt(LastFormat) = "NIX"
      BY <1>1, <2>2, <2>4 DEF NewFmt
    <3>2. Write(Append(got, buf), "NIX") = buf
      BY <2>4, FirstLine
    <3>3. Write(Append(got, buf), "MAC") = buf
      BY <2>4, FirstLine
    <3> QED BY <1>3, <2>2, <3>1, <3>2, <3>3
  <2> QED BY <2>3, <2>4
<1>11. CASE c = "r"
  <2>1. EndsInReturn(buf)
    BY <1>4, <1>5, <1>11 DEF EndsInReturn, LastOf
  <2>2. PICK d \in Line : buf = Append(d, "r") /\ SubSeq(buf, 1, Len(buf) - 1) = d
    BY <1>2, <2>1, Stripped
  <2>3. d = b
    BY <1>2, <1>5, <2>2, <1>11, AppendInjective DEF Line
  <2>4. ReadLine(buf) = b
    BY <2>1, <2>2, <2>3 DEF ReadLine
  <2>5. LastFormat = 2
    BY <1>1, <2>1 DEF LastFormat
  <2>6. NewFmt(LastFormat) = "MAC"
    BY <2>5 DEF NewFmt
  <2>7. LinesRead = Append(got, b) /\ Append(got, b) \in Texts /\ LastOf(Append(got, b)) = b
    BY <1>2, <2>4, AppendText DEF LinesRead
  <2>8. CASE b # <<>>
    <3>1. Piece = Append(Append(got, b), <<>>)
      BY <1>9, <1>11, <2>7, <2>8 DEF Piece, WithMagicline
    <3>2. <<>> \in Line /\ <<"r">> \in Line
      BY <1>11, One, EmptySeq DEF Line
    <3>3. Write(Piece, "MAC") = w \o <<"r">> \o <<>>
      BY <2>7, <3>1, <3>2, WriteAppend DEF LineEnd
    <3> HIDE DEF w
    <3>4. w \o <<"r">> \in Line /\ w \o <<"r">> = Append(w, c)
      BY <1>6, <1>11, <3>2, AppendIsConcat, ConcatProperties DEF Line
    <3>5. (w \o <<"r">>) \o <<>> = w \o <<"r">>
      BY <3>4, ConcatEmptySeq DEF Line
    <3> QED BY <1>6, <2>6, <3>3, <3>4, <3>5
  <2>9. CASE b = <<>>
    <3>1. CASE got = <<>>
      <4>1. w = b
        <5>1. Append(got, b) = <<b>>
          BY <3>1
        <5> QED BY <5>1, WriteOne
      <4>2. Len(input) = 1
        BY <1>6, <2>9, <4>1
      <4> QED BY <2>6, <4>2
    <3>2. CASE got # <<>>
      <4>1. got \in Texts
        BY <1>2, <3>2 DEF Texts
      <4> DEFINE v == Write(got, "MAC")
      <4>2. w = v \o <<"r">> \o <<>> /\ v \in Line
        BY <2>9, <4>1, WriteAppend, WriteIn DEF LineEnd
      <4> HIDE DEF v, w
      <4>3. v \o <<"r">> = Append(v, c) /\ v \o <<"r">> \in Line
        BY <1>11, <4>2, One, AppendIsConcat, ConcatProperties DEF Line
      <4>4. w = Append(v, c)
        <5>1. (v \o <<"r">>) \o <<>> = v \o <<"r">>
          BY <4>3, ConcatEmptySeq DEF Line
        <5> QED BY <4>2, <4>3, <5>1
      <4>5. LastOf(w) = c /\ w # <<>>
        BY <4>2, <4>4, AppendedLast
      <4>6. input[Len(w)] = LastOf(w) /\ Len(input) = Len(w) + 1 /\ Len(w) \in Nat
        BY <1>6, <4>5, AppendedLast
      <4>7. Len(input) - 1 = Len(w)
        BY <4>6
      <4> QED BY <1>11, <2>6, <4>5, <4>6, <4>7
    <3> QED BY <3>1, <3>2
  <2> QED BY <2>8, <2>9
<1> QED BY <1>10, <1>11

LEMMA Again ==
  ASSUME Lexed, Consumed, Known, in = <<>>, fmt = "NIX"
  PROVE  /\ input = <<>> => NewFmt(LastFormat) = "NIX"
         /\ input # <<>> /\ (Uniform(input) \/ ~Converts) /\ Ended(input) =>
              \/ Write(Piece, NewFmt(LastFormat)) = input
              \/ NewFmt(LastFormat) = "MAC" /\ (Len(input) = 1 \/ input[Len(input) - 1] = "r")
<1>1. AsNix /\ AsDos /\ AsMac
  BY DEF Known
<1>2. ASSUME input = <<>> PROVE NewFmt(LastFormat) = "NIX"
  <2>1. Lacks(input, "r")
    BY <1>2 DEF Lacks
  <2>2. format = 0 /\ (Converts => Lacks(buf, "r"))
    BY <1>1, <2>1 DEF AsNix
  <2>3. ~Converts \/ ~EndsInReturn(buf)
    BY <2>2, LacksReturn DEF Lexed
  <2>4. LastFormat = 0
    BY <2>2, <2>3 DEF LastFormat
  <2> QED BY <2>4 DEF NewFmt
<1>3. ASSUME input # <<>>, Uniform(input) \/ ~Converts, Ended(input)
      PROVE  \/ Write(Piece, NewFmt(LastFormat)) = input
             \/ NewFmt(LastFormat) = "MAC" /\ (Len(input) = 1 \/ input[Len(input) - 1] = "r")
  <2>1. Uniform(input) <=> Lacks(input, "r") \/ Alternates(input) \/ Lacks(input, "n")
    BY UniformIs
  <2>2. CASE ~Converts \/ Lacks(input, "r")
    BY <1>1, <1>3, <2>2, NixAgain
  <2>3. CASE Converts /\ Alternates(input)
    BY <1>1, <1>3, <2>3, DosAgain
  <2>4. CASE Converts /\ Lacks(input, "n")
    BY <1>1, <1>3, <2>4, MacAgain
  <2> QED BY <1>3, <2>1, <2>2, <2>3, <2>4
<1> QED BY <1>2, <1>3

LEMMA OpenedInit ==
  ASSUME Init
  PROVE  Opened
BY DEF Init, Opened, RoundTrip

LEMMA OpenedReads ==
  ASSUME Lexed, Opened, GetNewline \/ GetAfterReturn \/ GetChar
  PROVE  Opened'
<1>1. /\ pc = "read" /\ pc' = "read" /\ buffer' = buffer /\ undos' = undos /\ opening' = opening
      /\ input' = input
  BY DEF GetNewline, GetAfterReturn, GetChar
<1>2. fmt' = fmt /\ item' = item /\ undone' = undone /\ inserts' = inserts
  BY <1>1 DEF buffer, undos
<1>3. Known => Known'
  BY KnownNewline, KnownReturn, KnownChar
<1>4. RoundTrip'
  BY <1>1 DEF RoundTrip
<1> QED BY <1>1, <1>2, <1>3, <1>4 DEF Opened, Known

LEMMA OpenedEnds ==
  ASSUME Lexed, Consumed, Opened, EndOpening
  PROVE  Opened'
<1>1. /\ pc = "read" /\ opening /\ in = <<>> /\ text' = Piece /\ fmt' = NewFmt(LastFormat)
      /\ pc' = "main" /\ flags' = flags /\ input' = input /\ undos' = undos
  BY DEF EndOpening, Piece
<1>2. item' = item /\ undone' = undone /\ inserts' = inserts
  BY <1>1 DEF undos
<1>3. Magiclines' = Magiclines /\ Converts' = Converts
  BY <1>1 DEF Magiclines, Converts
<1> SUFFICES ASSUME inserts = 0
             PROVE  (input = <<>> => fmt' = "NIX") /\ RoundTrip'
  BY <1>1, <1>2 DEF Opened
<1>4. Known /\ fmt = "NIX"
  BY <1>1 DEF Opened, Known
<1>5. /\ input = <<>> => NewFmt(LastFormat) = "NIX"
      /\ input # <<>> /\ (Uniform(input) \/ ~Converts) /\ Ended(input) =>
           \/ Write(Piece, NewFmt(LastFormat)) = input
           \/ NewFmt(LastFormat) = "MAC" /\ (Len(input) = 1 \/ input[Len(input) - 1] = "r")
  BY <1>1, <1>4, Again
<1>6. Ended(input)' = Ended(input)
  BY <1>1, <1>3 DEF Ended
<1>7. Uniform(input)' = Uniform(input)
  BY <1>1
<1>8. Write(text, fmt)' = Write(Piece, NewFmt(LastFormat))
  BY <1>1
<1> QED BY <1>1, <1>3, <1>5, <1>6, <1>7, <1>8 DEF RoundTrip

LEMMA OpenedStarts ==
  ASSUME Opened, NEW f \in Files, OpenBuffer(f)
  PROVE  Opened'
<1>1. /\ StartReading(f, TRUE) /\ flags' = flags /\ f \in Line /\ inserts = 0 /\ input = <<>>
      /\ buffer' = buffer /\ undos' = undos
  BY FilesOK DEF OpenBuffer
<1>2. fmt' = fmt /\ item' = item /\ undone' = undone /\ inserts' = inserts
  BY <1>1 DEF buffer, undos
<1>3. pc' = "read" /\ opening' = TRUE
  BY <1>1 DEF StartReading
<1>4. Known'
  BY <1>1, KnownFirst
<1>5. RoundTrip'
  BY <1>3 DEF RoundTrip
<1> QED BY <1>1, <1>2, <1>3, <1>4, <1>5 DEF Opened, Known

LEMMA OpenedInserts ==
  ASSUME Opened, (\E f \in Inserts : InsertFile(f)) \/ EndInsertion \/ UndoInsert \/ RedoInsert
  PROVE  Opened'
<1>1. inserts' \in Nat /\ inserts' # 0
  <2>1. inserts \in Nat
    BY DEF Opened
  <2>2. CASE \E f \in Inserts : InsertFile(f)
    <3>1. inserts' = inserts + 1
      BY <2>2 DEF InsertFile
    <3> QED BY <2>1, <3>1
  <2>3. CASE EndInsertion
    BY <2>1, <2>3 DEF EndInsertion, Opened
  <2>4. CASE UndoInsert \/ RedoInsert
    <3>1. inserts' = inserts
      BY <2>4 DEF UndoInsert, RedoInsert
    <3>2. item # NoItem \/ undone
      BY <2>4 DEF UndoInsert, RedoInsert
    <3> QED BY <2>1, <3>1, <3>2 DEF Opened
  <2> QED BY <2>2, <2>3, <2>4
<1> QED BY <1>1 DEF Opened

LEMMA OpenedKept ==
  ASSUME Opened, text' = text, fmt' = fmt, pc' = pc, reader' = reader, undos' = undos, flags' = flags
  PROVE  Opened'
<1>1. /\ in' = in /\ buf' = buf /\ got' = got /\ format' = format /\ input' = input
      /\ opening' = opening
      /\ item' = item /\ undone' = undone /\ inserts' = inserts
  BY DEF reader, undos
<1>2. Magiclines' = Magiclines /\ Converts' = Converts
  BY DEF Magiclines, Converts
<1>3. AsNix' = AsNix /\ AsDos' = AsDos /\ AsMac' = AsMac
  BY <1>1, <1>2 DEF AsNix, AsDos, AsMac, WrittenAs
<1>4. RoundTrip' = RoundTrip
  <2>1. Ended(input)' = Ended(input)
    BY <1>1, <1>2 DEF Ended
  <2>2. Uniform(input)' = Uniform(input) /\ Write(text, fmt)' = Write(text, fmt)
    BY <1>1
  <2> QED BY <1>1, <1>2, <2>1, <2>2 DEF RoundTrip
<1> QED BY <1>1, <1>3, <1>4 DEF Opened

LEMMA OpenedStep ==
  ASSUME Lexed, Consumed, Opened, [Next]_vars
  PROVE  Opened'
<1>1. CASE \E f \in Files : OpenBuffer(f)
  BY <1>1, OpenedStarts
<1>2. CASE (\E f \in Inserts : InsertFile(f)) \/ EndInsertion \/ UndoInsert \/ RedoInsert
  BY <1>2, OpenedInserts
<1>3. CASE GetNewline \/ GetAfterReturn \/ GetChar
  BY <1>3, OpenedReads
<1>4. CASE EndOpening
  BY <1>4, OpenedEnds
<1>5. CASE \/ CannotInsert \/ DoMark \/ WriteFile \/ UNCHANGED vars
           \/ \E p \in PositionsOf(text) : GotoLinePosX(p)
  <2>1. text' = text /\ fmt' = fmt /\ pc' = pc /\ reader' = reader /\ undos' = undos /\ flags' = flags
    BY <1>5 DEF CannotInsert, DoMark, WriteFile, GotoLinePosX, vars, buffer
  <2> QED BY <2>1, OpenedKept
<1> QED BY <1>1, <1>2, <1>3, <1>4, <1>5 DEF Next, ReadStep

\* A file whose lines end in one way, whichever it is, is written as it was read, with
\* the exceptions that the property names: files of any length and any characters, all
\* flags, and nothing avoided (read_file, read_line, write_file).
THEOREM ReadsAndWrites == Spec => []RoundTrip
<1> DEFINE I == Lexed /\ Consumed /\ Opened
<1>1. Init => I
  BY ReadingInit, OpenedInit
<1>2. I /\ [Next]_vars => I'
  BY ReadingStep, OpenedStep
<1>3. I => RoundTrip
  BY DEF Opened, RoundTrip
<1> QED BY <1>1, <1>2, <1>3, PTL DEF Spec

================================================================================
