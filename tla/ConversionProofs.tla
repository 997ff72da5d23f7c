-------------------------- MODULE ConversionProofs --------------------------
(***************************************************************************)
(* What an encoder wrote reads back as its source, for sources of every    *)
(* length over every alphabet, whatever the heap refuses.  A text says     *)
(* what it reads as only together with what comes behind it: a backslash   *)
(* at its end would take the next character.  So what is shown of each     *)
(* character's text, and of the string after each turn of the loop, is     *)
(* that it reads as what it should before anything that may follow.        *)
(* Of src/util.c and the readers of vcalendar.c's lines: the date of every *)
(* day number is that day's and its number comes back, a time of day is    *)
(* found at its next occurrence, and every line the calendar may hold is   *)
(* read as the time, the person or the text that was written into it.      *)
(* A text of bits, or of digits, gives back what it was made from.         *)
(***************************************************************************)
EXTENDS Encode, Util, FiniteSetTheorems, SequenceTheorems, TLAPS

(* Least numbers, and induction downwards *)

\* The prefixes 1..n are ordered by strict inclusion, which is well founded.
LEMMA LeastExists ==
  ASSUME NEW T \in SUBSET Nat, T # {}
  PROVE  \E m \in T : \A n \in T : m <= n
<1> DEFINE Below == {1..n : n \in T}
           Order == StrictSubsetOrdering(Nat)
<1>1. IsWellFoundedOn(Order, FiniteSubsetsOf(Nat))
  BY FS_StrictSubsetOrderingWellFounded
<1>2. \A n \in T : 1..n \in SUBSET Nat /\ IsFiniteSet(1..n)
  BY FS_Interval
<1>3. Below \subseteq FiniteSubsetsOf(Nat)
  BY <1>2 DEF FiniteSubsetsOf
<1>4. Below # {}
  OBVIOUS
<1> HIDE DEF Below, Order
<1>5. PICK b \in Below : \A c \in Below : <<c, b>> \notin Order
  BY <1>1, <1>3, <1>4, WFMin
<1>6. PICK m \in T : b = 1..m
  BY DEF Below
<1>7. ASSUME NEW n \in T, n < m PROVE FALSE
  <2>1. 1..n \in SUBSET Nat /\ b \in SUBSET Nat /\ 1..n \subseteq b /\ 1..n # b
    <3>1. m \in 1..m /\ m \notin 1..n
      BY <1>7
    <3> QED
      BY <1>6, <1>7, <3>1
  <2>2. <<1..n, b>> \in Order
    BY <2>1 DEF Order, StrictSubsetOrdering
  <2>3. 1..n \in Below
    BY DEF Below
  <2> QED
    BY <1>5, <2>2, <2>3
<1> QED
  BY <1>7

----------------------------------------------------------------------------
(* Walks *)

\* The turns that append texts over T.
Turns(T) == [n : Nat, text : Seq(T)]

\* No turn goes beyond the end.
Paced(p) == \A i \in 1..Len(p) : p[i].n >= 1 /\ i + p[i].n <= Len(p) + 1

WalkTurn(p, f, i) == IF i > Len(p) THEN <<>> ELSE p[i].text \o f[i + p[i].n]

\* f is what is appended from each of the last places on.
WalkEnd(p, k, f) == f = [i \in (Len(p) + 1 - k)..(Len(p) + 1) |-> WalkTurn(p, f, i)]

WalkFrom(p) ==
  CHOOSE f : f = [i \in 1..(Len(p) + 1) |->
                   IF i > Len(p) THEN <<>> ELSE p[i].text \o f[i + p[i].n]]

LEMMA WalkGrows ==
  ASSUME NEW T, NEW p \in Seq(Turns(T)), Paced(p),
         NEW k \in 0..(Len(p) - 1), NEW f, WalkEnd(p, k, f)
  PROVE  \E g : WalkEnd(p, k + 1, g)
<1> DEFINE N == Len(p)
           g == [i \in (N - k)..(N + 1) |-> WalkTurn(p, f, i)]
<1>0. N \in Nat
  OBVIOUS
<1>1. \A i \in (N - k)..(N + 1) : WalkTurn(p, g, i) = WalkTurn(p, f, i)
  <2>1. ASSUME NEW i \in (N - k)..(N + 1), i <= N
        PROVE  g[i + p[i].n] = f[i + p[i].n]
    <3>2. i \in 1..Len(p)
      BY <1>0, <2>1
    <3>3. p[i].n \in Nat
      <4>1. p[i] \in Turns(T)
        BY <3>2
      <4> QED
        BY <4>1 DEF Turns
    <3>4. i + p[i].n \in (N + 1 - k)..(N + 1) /\ i + p[i].n \in (N - k)..(N + 1)
      BY <1>0, <2>1, <3>2, <3>3 DEF Paced
    <3>5. f[i + p[i].n] = WalkTurn(p, f, i + p[i].n)
      BY <3>4 DEF WalkEnd
    <3> QED
      BY <3>4, <3>5
  <2> HIDE DEF g
  <2> QED
    BY <1>0, <2>1 DEF WalkTurn
<1>2. g = [i \in (N - k)..(N + 1) |-> WalkTurn(p, g, i)]
  BY <1>1
<1>3. N + 1 - (k + 1) = N - k
  BY <1>0
<1> QED
  BY <1>2, <1>3 DEF WalkEnd

LEMMA WalkExists ==
  ASSUME NEW T, NEW p \in Seq(Turns(T)), Paced(p)
  PROVE  \E f : WalkEnd(p, Len(p), f)
<1> DEFINE N == Len(p)
           Failing == {k \in 0..N : ~\E f : WalkEnd(p, k, f)}
<1>0. N \in Nat
  OBVIOUS
<1>1. SUFFICES Failing = {}
  BY <1>0
<1>2. SUFFICES ASSUME Failing # {} PROVE FALSE
  OBVIOUS
<1>3. Failing \in SUBSET Nat
  OBVIOUS
<1>4. PICK m \in Failing : \A n \in Failing : m <= n
  <2> HIDE DEF Failing
  <2> QED
    BY <1>2, <1>3, LeastExists
<1>5. m # 0
  <2> DEFINE f == [i \in {N + 1} |-> <<>>]
  <2>1. (N + 1 - 0)..(N + 1) = {N + 1}
    BY <1>0
  <2>2. WalkEnd(p, 0, f)
    <3>1. \A i \in {N + 1} : WalkTurn(p, f, i) = <<>>
      BY <1>0 DEF WalkTurn
    <3> QED
      BY <2>1, <3>1 DEF WalkEnd
  <2> QED
    BY <2>2, <1>4
<1>6. m - 1 \in 0..(N - 1) /\ m - 1 \in 0..N /\ m - 1 \notin Failing /\ (m - 1) + 1 = m
  <2>1. m \in 0..N /\ m \in Nat
    BY <1>0, <1>4
  <2> HIDE DEF Failing, N
  <2>2. m - 1 \notin Failing
    BY <1>0, <1>4, <2>1
  <2> QED
    BY <1>0, <1>5, <2>1, <2>2
<1>7. PICK f : WalkEnd(p, m - 1, f)
  BY <1>6
<1>8. \E g : WalkEnd(p, m, g)
  <2> HIDE DEF N, Failing
  <2>1. m - 1 \in 0..(Len(p) - 1)
    BY <1>6 DEF N
  <2> QED
    BY <1>6, <1>7, <2>1, WalkGrows
<1> QED
  BY <1>4, <1>8

\* What is appended from a place on is the turn's text and what comes behind it.
LEMMA WalkIs ==
  ASSUME NEW T, NEW p \in Seq(Turns(T)), Paced(p)
  PROVE  /\ Walk(p) = WalkFrom(p)[1]
         /\ WalkFrom(p)[Len(p) + 1] = <<>>
         /\ \A i \in 1..Len(p) : WalkFrom(p)[i] = p[i].text \o WalkFrom(p)[i + p[i].n]
<1>1. PICK f : WalkEnd(p, Len(p), f)
  BY WalkExists
<1>2. Len(p) + 1 - Len(p) = 1 /\ Len(p) \in Nat
  OBVIOUS
<1>3. f = [i \in 1..(Len(p) + 1) |-> IF i > Len(p) THEN <<>> ELSE p[i].text \o f[i + p[i].n]]
  BY <1>1, <1>2 DEF WalkEnd, WalkTurn
<1>4. WalkFrom(p) = [i \in 1..(Len(p) + 1) |->
                      IF i > Len(p) THEN <<>> ELSE p[i].text \o WalkFrom(p)[i + p[i].n]]
  BY <1>3 DEF WalkFrom
<1>5. Walk(p) = WalkFrom(p)[1]
  BY DEF Walk, WalkFrom
<1> HIDE DEF WalkFrom
<1>6. Len(p) + 1 \in 1..(Len(p) + 1) /\ Len(p) + 1 > Len(p)
  BY <1>2
<1>7. \A i \in 1..Len(p) : i \in 1..(Len(p) + 1) /\ ~(i > Len(p))
  BY <1>2
<1> QED
  BY <1>4, <1>5, <1>6, <1>7

\* What holds of the end, and of a place when it holds behind it, holds everywhere.
LEMMA FromTheEnd ==
  ASSUME NEW N \in Nat, NEW S, N + 1 \in S,
         \A i \in 1..N : (\A j \in (i + 1)..(N + 1) : j \in S) => i \in S
  PROVE  \A i \in 1..(N + 1) : i \in S
<1> DEFINE Failing == {k \in 0..N : N + 1 - k \notin S}
<1>1. ASSUME Failing # {} PROVE FALSE
  <2>1. Failing \in SUBSET Nat
    OBVIOUS
  <2>2. PICK m \in Failing : \A n \in Failing : m <= n
    <3> HIDE DEF Failing
    <3> QED
      BY <1>1, <2>1, LeastExists
  <2>3. m \in 0..N /\ N + 1 - m \notin S
    BY <2>2
  <2>4. m # 0
    BY <2>3
  <2>5. ASSUME NEW j \in (N + 1 - m + 1)..(N + 1) PROVE j \in S
    <3>1. N + 1 - j \in 0..N /\ N + 1 - j < m /\ N + 1 - (N + 1 - j) = j
      BY <2>3
    <3>2. N + 1 - j \notin Failing
      <4> HIDE DEF Failing
      <4> QED
        BY <2>2, <2>3, <3>1
    <3> QED
      BY <3>1, <3>2
  <2>6. N + 1 - m \in 1..N
    BY <2>3, <2>4
  <2> QED
    BY <2>3, <2>5, <2>6
<1>2. ASSUME NEW i \in 1..(N + 1) PROVE i \in S
  <2>1. N + 1 - i \in 0..N /\ N + 1 - (N + 1 - i) = i
    OBVIOUS
  <2> QED
    BY <1>1, <2>1
<1> QED
  BY <1>2

LEMMA WalkType ==
  ASSUME NEW T, NEW p \in Seq(Turns(T)), Paced(p)
  PROVE  /\ \A i \in 1..(Len(p) + 1) : WalkFrom(p)[i] \in Seq(T)
         /\ Walk(p) \in Seq(T)
<1> DEFINE S == {i \in 1..(Len(p) + 1) : WalkFrom(p)[i] \in Seq(T)}
<1>0. Len(p) \in Nat
  OBVIOUS
<1>1. Len(p) + 1 \in S
  <2>1. WalkFrom(p)[Len(p) + 1] = <<>>
    BY WalkIs
  <2>2. <<>> \in Seq(T) /\ Len(p) + 1 \in 1..(Len(p) + 1)
    BY <1>0
  <2> QED
    BY <2>1, <2>2
<1>2. ASSUME NEW i \in 1..Len(p), \A j \in (i + 1)..(Len(p) + 1) : j \in S
      PROVE  i \in S
  <2>1. p[i] \in Turns(T)
    OBVIOUS
  <2>2. p[i].n \in Nat /\ p[i].text \in Seq(T)
    BY <2>1 DEF Turns
  <2>3. i + p[i].n \in (i + 1)..(Len(p) + 1)
    BY <1>0, <2>2 DEF Paced
  <2>4. WalkFrom(p)[i + p[i].n] \in Seq(T)
    BY <1>2, <2>3
  <2>5. WalkFrom(p)[i] = p[i].text \o WalkFrom(p)[i + p[i].n]
    BY WalkIs
  <2>6. p[i].text \o WalkFrom(p)[i + p[i].n] \in Seq(T)
    BY <2>2, <2>4, ConcatProperties
  <2>7. i \in 1..(Len(p) + 1)
    BY <1>0
  <2> QED
    BY <2>5, <2>6, <2>7
<1>3. \A i \in 1..(Len(p) + 1) : i \in S
  <2> HIDE DEF S
  <2> QED
    BY <1>0, <1>1, <1>2, FromTheEnd
<1>4. 1 \in 1..(Len(p) + 1)
  BY <1>0
<1> QED
  BY <1>3, <1>4, WalkIs

\* A walk is the same wherever it begins.
LEMMA WalkShift ==
  ASSUME NEW T, NEW p \in Seq(Turns(T)), NEW q \in Seq(Turns(T)), Paced(p), Paced(q),
         NEW m \in Nat, Len(p) = m + Len(q), \A j \in 1..Len(q) : p[m + j] = q[j]
  PROVE  \A j \in 1..(Len(q) + 1) : WalkFrom(p)[m + j] = WalkFrom(q)[j]
<1> DEFINE S == {j \in 1..(Len(q) + 1) : WalkFrom(p)[m + j] = WalkFrom(q)[j]}
<1>0. Len(p) \in Nat /\ Len(q) \in Nat
  OBVIOUS
<1>1. Len(q) + 1 \in S
  <2>1. m + (Len(q) + 1) = Len(p) + 1 /\ Len(q) + 1 \in 1..(Len(q) + 1)
    BY <1>0
  <2> QED
    BY <2>1, WalkIs
<1>2. ASSUME NEW i \in 1..Len(q), \A j \in (i + 1)..(Len(q) + 1) : j \in S
      PROVE  i \in S
  <2>1. q[i] \in Turns(T)
    OBVIOUS
  <2>a. q[i].n \in Nat
    BY <2>1 DEF Turns
  <2>b. m + i \in 1..Len(p) /\ i \in 1..(Len(q) + 1)
    BY <1>0
  <2>2. q[i].n \in Nat /\ p[m + i] = q[i] /\ m + i \in 1..Len(p) /\ i \in 1..(Len(q) + 1)
    BY <2>a, <2>b
  <2>3. i + q[i].n \in (i + 1)..(Len(q) + 1) /\ m + (i + q[i].n) = (m + i) + p[m + i].n
    <3>1. q[i].n >= 1 /\ i + q[i].n <= Len(q) + 1
      BY DEF Paced
    <3>2. i + q[i].n \in (i + 1)..(Len(q) + 1) /\ m + (i + q[i].n) = (m + i) + q[i].n
      BY <1>0, <2>a, <3>1
    <3> QED
      BY <2>2, <3>2
  <2>4. WalkFrom(p)[(m + i) + p[m + i].n] = WalkFrom(q)[i + q[i].n]
    BY <1>2, <2>3
  <2>5. WalkFrom(q)[i] = q[i].text \o WalkFrom(q)[i + q[i].n]
    BY WalkIs
  <2>6. WalkFrom(p)[m + i] = p[m + i].text \o WalkFrom(p)[(m + i) + p[m + i].n]
    BY <2>2, WalkIs
  <2> QED
    BY <2>2, <2>4, <2>5, <2>6
<1>3. \A i \in 1..(Len(q) + 1) : i \in S
  <2> HIDE DEF S
  <2> QED
    BY <1>0, <1>1, <1>2, FromTheEnd
<1> QED
  BY <1>3

\* The same with its parts folded.
LiesBehind(p, q, m) == Len(p) = m + Len(q) /\ \A j \in 1..Len(q) : p[m + j] = q[j]
WalksAlike(p, q, m) == \A j \in 1..(Len(q) + 1) : WalkFrom(p)[m + j] = WalkFrom(q)[j]

LEMMA WalkBehind ==
  ASSUME NEW T, NEW p \in Seq(Turns(T)), NEW q \in Seq(Turns(T)), Paced(p), Paced(q),
         NEW m \in Nat, LiesBehind(p, q, m)
  PROVE  WalksAlike(p, q, m)
  BY WalkShift DEF LiesBehind, WalksAlike

----------------------------------------------------------------------------
(* What a text reads as *)

ReadTurn(s, i) ==
  IF enc = "URL"
  THEN IF i + 2 <= Len(s) /\ s[i] = Percent /\ s[i + 1] \in HexDigits /\ s[i + 2] \in HexDigits
       THEN [n |-> 3, text |-> <<HexValue(s[i + 1]) * 16 + HexValue(s[i + 2])>>]
       ELSE [n |-> 1, text |-> <<s[i]>>]
  ELSE [n |-> Piece(s, i).n, text |-> <<Piece(s, i).c>>]

ReadTurns(s) == [i \in DOMAIN s |-> ReadTurn(s, i)]

LEMMA ReadIsWalk == \A s : Read(s) = Walk(ReadTurns(s))
BY ZenonT(30) DEF Read, PercentDecode, ReadTurns, ReadTurn

LEMMA HexValueType == \A d \in HexDigits : HexValue(d) \in 0..15
BY DEF HexDigits, HexValue

LEMMA PairIsInt == \A a, b \in 0..15 : a * 16 + b \in Nat
OBVIOUS

LEMMA PieceType ==
  ASSUME NEW s \in Seq(Nat), NEW i \in 1..Len(s)
  PROVE  /\ Piece(s, i).n \in 1..(Len(s) + 1 - i)
         /\ Piece(s, i).c \in Nat
<1> DEFINE Good(r) == r.n \in 1..(Len(s) + 1 - i) /\ r.c \in Nat
<1>0. Len(s) \in Nat /\ \A k \in 1..Len(s) : s[k] \in Nat
  OBVIOUS
<1>1. Good(Bad) /\ Good(Letter(s, i))
  BY <1>0 DEF Bad, Letter
<1>2. \A k \in 1..8 : At(s, i + k) # 0 => i + k <= Len(s)
  BY DEF At
<1>3. \A n \in {1, 2} : Good(Reference(s, i, n))
  <2>1. ASSUME NEW n \in {1, 2}, At(s, i + n) > Named(0), At(s, i + n + 1) = Semicolon
        PROVE  Good([n |-> n + 2, c |-> At(s, i + n) - Named(0)])
    <3>1. i + n + 1 <= Len(s) /\ i + n \in 1..Len(s)
      BY <1>0, <2>1 DEF At, Semicolon
    <3>2. At(s, i + n) \in Nat /\ n + 2 \in 1..(Len(s) + 1 - i) /\ Named(0) \in Nat
      BY <1>0, <3>1 DEF At, Named
    <3>3. At(s, i + n) - Named(0) \in Nat
      BY <2>1, <3>2
    <3> QED
      BY <3>2, <3>3
  <2> QED
    BY <1>1, <2>1 DEF Reference
<1> HIDE DEF Good
<1>4. Good(XmlPiece(s, i))
  BY <1>1, <1>3 DEF XmlPiece
<1>5. Good(SqlPiece(s, i))
  <2>1. At(s, i + 1) = Apostrophe => Good([n |-> 2, c |-> Apostrophe])
    BY <1>0 DEF Good, At, Apostrophe
  <2> QED
    BY <1>1, <2>1, Zenon DEF SqlPiece
<1>6. Good(RegexPiece(s, i))
  <2>1. 0 \notin RegexOperators \cup {45}
    BY DEF RegexOperators, Backslash
  <2>2. At(s, i + 1) \in RegexOperators \cup {45} => Good([n |-> 2, c |-> s[i + 1]])
    BY <1>0, <2>1 DEF Good, At
  <2> QED
    BY <1>1, <2>2, Zenon DEF RegexPiece
<1>7. Good(JsonEscape(s, i))
  <2>1. At(s, i + 1) \in {Backslash, Quote} => Good([n |-> 2, c |-> s[i + 1]])
    BY <1>0 DEF Good, At, Backslash, Quote
  <2>2. ASSUME \A k \in 2..5 : At(s, i + k) \in HexDigits
        PROVE  Good([n |-> 6, c |-> HexValue(s[i + 4]) * 16 + HexValue(s[i + 5])])
    <3>1. At(s, i + 4) \in HexDigits /\ At(s, i + 5) \in HexDigits /\ 0 \notin HexDigits
      BY <2>2 DEF HexDigits
    <3>2. i + 5 <= Len(s) /\ s[i + 4] \in HexDigits /\ s[i + 5] \in HexDigits
      BY <1>0, <3>1 DEF At
    <3>3. HexValue(s[i + 4]) \in 0..15 /\ HexValue(s[i + 5]) \in 0..15
      BY <3>2, HexValueType
    <3>4. HexValue(s[i + 4]) * 16 + HexValue(s[i + 5]) \in Nat
      BY <3>3, PairIsInt
    <3>5. 6 \in 1..(Len(s) + 1 - i)
      BY <1>0, <3>2
    <3> QED
      BY <3>4, <3>5 DEF Good
  <2> QED
    BY <1>1, <2>1, <2>2, Zenon DEF JsonEscape
<1>8. Good(JsonPiece(s, i))
  BY <1>1, <1>7, Zenon DEF JsonPiece
<1>9. Good(Piece(s, i))
  BY <1>1, <1>4, <1>5, <1>6, <1>8, Zenon DEF Piece
<1> QED
  BY <1>9 DEF Good

LEMMA ReadTurnsType ==
  ASSUME NEW s \in Seq(Nat)
  PROVE  /\ ReadTurns(s) \in Seq(Turns(Nat))
         /\ Len(ReadTurns(s)) = Len(s)
         /\ Paced(ReadTurns(s))
         /\ \A i \in 1..Len(s) : ReadTurns(s)[i] = ReadTurn(s, i)
<1>1. ASSUME NEW i \in 1..Len(s)
      PROVE  ReadTurn(s, i) \in Turns(Nat) /\ ReadTurn(s, i).n >= 1 /\ i + ReadTurn(s, i).n <= Len(s) + 1
  <2>1. Piece(s, i).n \in 1..(Len(s) + 1 - i) /\ Piece(s, i).c \in Nat
    BY PieceType
  <2>2. CASE enc = "URL"
    <3>1. s[i] \in Nat
      OBVIOUS
    <3>2. CASE i + 2 <= Len(s) /\ s[i] = Percent /\ s[i + 1] \in HexDigits /\ s[i + 2] \in HexDigits
      <4>1. HexValue(s[i + 1]) \in 0..15 /\ HexValue(s[i + 2]) \in 0..15
        BY <3>2, HexValueType
      <4>2. ReadTurn(s, i) = [n |-> 3, text |-> <<HexValue(s[i + 1]) * 16 + HexValue(s[i + 2])>>]
        BY <2>2, <3>2 DEF ReadTurn
      <4>3. HexValue(s[i + 1]) * 16 + HexValue(s[i + 2]) \in Nat
        BY <4>1, PairIsInt
      <4> QED
        BY <3>2, <4>2, <4>3 DEF Turns
    <3>3. CASE ~(i + 2 <= Len(s) /\ s[i] = Percent /\ s[i + 1] \in HexDigits /\ s[i + 2] \in HexDigits)
      <4>1. ReadTurn(s, i) = [n |-> 1, text |-> <<s[i]>>]
        BY <2>2, <3>3 DEF ReadTurn
      <4> QED
        BY <3>1, <4>1 DEF Turns
    <3> QED
      BY <3>2, <3>3
  <2>3. CASE enc # "URL"
    <3>1. ReadTurn(s, i) = [n |-> Piece(s, i).n, text |-> <<Piece(s, i).c>>]
      BY <2>3 DEF ReadTurn
    <3> QED
      BY <2>1, <3>1 DEF Turns
  <2> QED
    BY <2>2, <2>3
<1>2. DOMAIN s = 1..Len(s) /\ Len(s) \in Nat
  OBVIOUS
<1>3. ReadTurns(s) = [i \in 1..Len(s) |-> ReadTurn(s, i)]
  BY <1>2 DEF ReadTurns
<1>4. ReadTurns(s) \in Seq(Turns(Nat)) /\ Len(ReadTurns(s)) = Len(s)
  BY <1>1, <1>2, <1>3
<1> QED
  BY <1>1, <1>2, <1>3, <1>4 DEF Paced

\* What is read at a place depends on nothing before it.
LEMMA ReadTurnSuffix ==
  ASSUME NEW t \in Seq(Nat), NEW u \in Seq(Nat), NEW j \in 1..Len(u)
  PROVE  ReadTurn(t \o u, Len(t) + j) = ReadTurn(u, j)
<1> DEFINE m == Len(t)
           s == t \o u
<1>1. Len(s) = m + Len(u) /\ m \in Nat /\ Len(u) \in Nat
  BY ConcatProperties
<1>2. \A k \in 0..5 : j + k <= Len(u) => s[(m + j) + k] = u[j + k]
  <2>1. \A i \in 1..(m + Len(u)) : s[i] = IF i <= m THEN t[i] ELSE u[i - m]
    BY ConcatProperties
  <2> HIDE DEF s, m
  <2> QED
    BY <1>1, <2>1
<1>3. \A k \in 0..5 : (m + j) + k <= Len(s) <=> j + k <= Len(u)
  BY <1>1
<1>4. s[m + j] = u[j] /\ (m + j < Len(s) <=> j < Len(u)) /\ m + j \in Nat
  <2>1. j + 0 <= Len(u) /\ j + 0 = j /\ (m + j) + 0 = m + j
    BY <1>1
  <2>2. (m + j < Len(s) <=> j < Len(u)) /\ m + j \in Nat
    BY <1>1
  <2> HIDE DEF s, m
  <2> QED
    BY <1>2, <2>1, <2>2
<1> HIDE DEF s, m
<1>a. \A k \in 0..5 : At(s, (m + j) + k) = At(u, j + k)
  BY <1>2, <1>3 DEF At
<1>b. Letter(s, m + j) = Letter(u, j)
  BY <1>4 DEF Letter
<1>c. \A n \in {1, 2} : Reference(s, m + j, n) = Reference(u, j, n)
  <2>1. \A n \in {1, 2} : At(s, (m + j) + n) = At(u, j + n) /\ At(s, (m + j) + n + 1) = At(u, j + n + 1)
    <3>1. ASSUME NEW n \in {1, 2}
          PROVE  n \in 0..5 /\ n + 1 \in 0..5 /\ (m + j) + n + 1 = (m + j) + (n + 1) /\ j + n + 1 = j + (n + 1)
      BY <1>4
    <3> QED
      BY <1>a, <3>1
  <2> QED
    BY <2>1 DEF Reference
<1>d. At(s, (m + j) + 1) = At(u, j + 1) /\ \A k \in 2..5 : At(s, (m + j) + k) = At(u, j + k)
  BY <1>a
<1>e. XmlPiece(s, m + j) = XmlPiece(u, j)
  BY <1>4, <1>b, <1>c, <1>d DEF XmlPiece
<1>f. SqlPiece(s, m + j) = SqlPiece(u, j)
  BY <1>4, <1>b, <1>d, Zenon DEF SqlPiece
<1>g. j + 1 <= Len(u) => s[(m + j) + 1] = u[j + 1]
  BY <1>2
<1>h. RegexPiece(s, m + j) = RegexPiece(u, j)
  <2>1. 0 \notin RegexOperators \cup {45}
    BY DEF RegexOperators, Backslash
  <2>2. At(u, j + 1) \in RegexOperators \cup {45} => s[(m + j) + 1] = u[j + 1]
    BY <1>g, <2>1 DEF At
  <2> QED
    BY <1>4, <1>b, <1>d, <2>2, Zenon DEF RegexPiece
<1>i. JsonEscape(s, m + j) = JsonEscape(u, j)
  <2>1. At(u, j + 1) \in {Backslash, Quote} => s[(m + j) + 1] = u[j + 1]
    BY <1>g DEF At, Backslash, Quote
  <2>2. ASSUME \A k \in 2..5 : At(u, j + k) \in HexDigits
        PROVE  s[(m + j) + 4] = u[j + 4] /\ s[(m + j) + 5] = u[j + 5]
    <3>1. At(u, j + 4) \in HexDigits /\ At(u, j + 5) \in HexDigits /\ 0 \notin HexDigits
      BY <2>2 DEF HexDigits
    <3>2. At(u, j + 4) # 0 /\ At(u, j + 5) # 0
      BY <3>1, Zenon
    <3>3. j + 4 <= Len(u)
      BY <3>2, Zenon DEF At
    <3>4. j + 5 <= Len(u)
      BY <3>2, Zenon DEF At
    <3>a. 4 \in 0..5 /\ 5 \in 0..5
      OBVIOUS
    <3>5. s[(m + j) + 4] = u[j + 4]
      BY <1>2, <3>3, <3>a, Zenon
    <3>6. s[(m + j) + 5] = u[j + 5]
      BY <1>2, <3>4, <3>a, Zenon
    <3> QED
      BY <3>5, <3>6
  <2>3. CASE At(u, j + 1) \in {Backslash, Quote}
    <3>1. JsonEscape(u, j) = [n |-> 2, c |-> u[j + 1]]
      BY <2>3, SMTT(30) DEF JsonEscape, Backslash, Quote
    <3>2. JsonEscape(s, m + j) = [n |-> 2, c |-> s[(m + j) + 1]]
      BY <1>d, <2>3, SMTT(30) DEF JsonEscape, Backslash, Quote
    <3> QED
      BY <2>1, <2>3, <3>1, <3>2
  <2>4. CASE At(u, j + 1) \notin {Backslash, Quote} /\ \A k \in 2..5 : At(u, j + k) \in HexDigits
    <3>1. \A k \in 2..5 : At(s, (m + j) + k) \in HexDigits
      BY <1>d, <2>4
    <3> QED
      BY <1>d, <2>2, <2>4, <3>1 DEF JsonEscape
  <2>5. CASE At(u, j + 1) \notin {Backslash, Quote} /\ ~\A k \in 2..5 : At(u, j + k) \in HexDigits
    <3>1. ~\A k \in 2..5 : At(s, (m + j) + k) \in HexDigits
      BY <1>d, <2>5
    <3> QED
      BY <1>d, <2>5, <3>1 DEF JsonEscape
  <2> QED
    BY <2>3, <2>4, <2>5
<1>j. JsonPiece(s, m + j) = JsonPiece(u, j)
  BY <1>4, <1>b, <1>i DEF JsonPiece
<1>5. Piece(s, m + j) = Piece(u, j)
  BY <1>b, <1>e, <1>f, <1>h, <1>j DEF Piece
<1>6. ReadTurn(s, m + j) = ReadTurn(u, j)
  <2>1. j + 2 <= Len(u) => s[(m + j) + 1] = u[j + 1] /\ s[(m + j) + 2] = u[j + 2]
    <3>1. j + 2 <= Len(u) => j + 1 <= Len(u)
      BY <1>1
    <3> QED
      BY <1>2, <3>1
  <2>2. (m + j) + 2 <= Len(s) <=> j + 2 <= Len(u)
    BY <1>3
  <2> QED
    BY <1>4, <1>5, <2>1, <2>2 DEF ReadTurn
<1> QED
  BY <1>6 DEF s, m

----------------------------------------------------------------------------
(* Texts that say something wherever they stand *)

\* Whatever is behind it, o reads as r.
Says(o, r) == \A u \in Seq(Nat) : Read(o \o u) = r \o Read(u)

LEMMA ReadType == ASSUME NEW s \in Seq(Nat) PROVE Read(s) \in Seq(Nat)
  BY ReadIsWalk, ReadTurnsType, WalkType

LEMMA ReadEmpty == Read(<<>>) = <<>>
<1>1. <<>> \in Seq(Nat) /\ Len(<<>>) = 0
  OBVIOUS
<1>2. ReadTurns(<<>>) \in Seq(Turns(Nat)) /\ Len(ReadTurns(<<>>)) = 0 /\ Paced(ReadTurns(<<>>))
  BY <1>1, ReadTurnsType
<1>3. Walk(ReadTurns(<<>>)) = WalkFrom(ReadTurns(<<>>))[1] /\ WalkFrom(ReadTurns(<<>>))[0 + 1] = <<>>
  BY <1>2, WalkIs
<1> QED
  BY <1>3, ReadIsWalk

\* A text that is taken in one turn, whatever is behind it.
LEMMA OneTurnSays ==
  ASSUME NEW t \in Seq(Nat), t # <<>>, NEW c \in Nat,
         \A u \in Seq(Nat) : ReadTurn(t \o u, 1) = [n |-> Len(t), text |-> <<c>>]
  PROVE  Says(t, <<c>>)
<1> SUFFICES ASSUME NEW u \in Seq(Nat) PROVE Read(t \o u) = <<c>> \o Read(u)
  BY DEF Says
<1> DEFINE s == t \o u
           p == ReadTurns(s)
           q == ReadTurns(u)
<1>1. s \in Seq(Nat) /\ Len(s) = Len(t) + Len(u) /\ Len(t) \in Nat /\ Len(u) \in Nat
  BY ConcatProperties
<1>2. Len(t) >= 1 /\ 1 \in 1..Len(s) /\ 1 \in 1..(Len(u) + 1)
  BY <1>1, EmptySeq
<1>3. /\ p \in Seq(Turns(Nat)) /\ Len(p) = Len(s) /\ Paced(p)
      /\ q \in Seq(Turns(Nat)) /\ Len(q) = Len(u) /\ Paced(q)
      /\ \A i \in 1..Len(s) : p[i] = ReadTurn(s, i)
      /\ \A i \in 1..Len(u) : q[i] = ReadTurn(u, i)
  BY <1>1, ReadTurnsType
<1>4. \A j \in 1..Len(u) : p[Len(t) + j] = q[j]
  <2>1. \A j \in 1..Len(u) : Len(t) + j \in 1..Len(s)
    BY <1>1
  <2> HIDE DEF p, q
  <2> QED
    BY <1>3, <2>1, ReadTurnSuffix DEF s
<1>5. p[1] = [n |-> Len(t), text |-> <<c>>]
  <2> HIDE DEF p, q
  <2> QED
    BY <1>2, <1>3 DEF s
<1>6. Read(s) = WalkFrom(p)[1] /\ Read(u) = WalkFrom(q)[1]
  BY <1>3, ReadIsWalk, WalkIs
<1> HIDE DEF p, q, s
<1>7. WalkFrom(p)[1] = <<c>> \o WalkFrom(p)[1 + Len(t)]
  <2>1. WalkFrom(p)[1] = p[1].text \o WalkFrom(p)[1 + p[1].n]
    BY <1>2, <1>3, WalkIs
  <2> QED
    BY <1>5, <2>1
<1>8. WalkFrom(p)[Len(t) + 1] = WalkFrom(q)[1]
  <2>1. Len(p) = Len(t) + Len(q) /\ \A j \in 1..Len(q) : p[Len(t) + j] = q[j]
    BY <1>1, <1>3, <1>4
  <2>2. \A j \in 1..(Len(q) + 1) : WalkFrom(p)[Len(t) + j] = WalkFrom(q)[j]
    <3>1. p \in Seq(Turns(Nat)) /\ q \in Seq(Turns(Nat)) /\ Paced(p) /\ Paced(q) /\ Len(t) \in Nat
      BY <1>1, <1>3
    <3> HIDE DEF p, q
    <3>2. LiesBehind(p, q, Len(t))
      BY <2>1 DEF LiesBehind
    <3>3. WalksAlike(p, q, Len(t))
      BY <3>1, <3>2, WalkBehind
    <3> QED
      BY <3>3 DEF WalksAlike
  <2>3. 1 \in 1..(Len(q) + 1)
    BY <1>2, <1>3
  <2> QED
    BY <2>2, <2>3
<1>9. 1 + Len(t) = Len(t) + 1
  BY <1>1
<1> QED
  BY <1>6, <1>7, <1>8, <1>9 DEF s


\* Kept folded, for the provers not to regroup on and on.
Regroups(r, v, w) == (r \o v) \o w = r \o (v \o w)
Joins(r, v) == r \o v \in Seq(Nat) /\ Len(r \o v) = Len(r) + Len(v)

LEMMA Regrouping ==
  ASSUME NEW r \in Seq(Nat), NEW v \in Seq(Nat), NEW w \in Seq(Nat)
  PROVE  Regroups(r, v, w)
  BY DEF Regroups

LEMMA Joining ==
  ASSUME NEW r \in Seq(Nat), NEW v \in Seq(Nat)
  PROVE  Joins(r, v)
  BY DEF Joins

LEMMA NothingSays == Says(<<>>, <<>>)
<1>1. ASSUME NEW u \in Seq(Nat) PROVE Read(<<>> \o u) = <<>> \o Read(u)
  <2>1. Read(u) \in Seq(Nat)
    BY ReadType
  <2>2. <<>> \o u = u /\ <<>> \o Read(u) = Read(u)
    BY <2>1, ConcatEmptySeq
  <2> QED
    BY <2>2
<1> QED
  BY <1>1 DEF Says

LEMMA SaysConcat ==
  ASSUME NEW o \in Seq(Nat), NEW r \in Seq(Nat), Says(o, r),
         NEW t \in Seq(Nat), NEW v \in Seq(Nat), Says(t, v)
  PROVE  Says(o \o t, r \o v)
<1> SUFFICES ASSUME NEW u \in Seq(Nat) PROVE Read((o \o t) \o u) = (r \o v) \o Read(u)
  BY DEF Says
<1>1. Regroups(o, t, u) /\ Joins(t, u)
  BY Regrouping, Joining, Zenon
<1>2. Read(o \o (t \o u)) = r \o Read(t \o u) /\ Read(t \o u) = v \o Read(u)
  BY <1>1, Zenon DEF Says, Joins
<1>3. Read(u) \in Seq(Nat)
  BY ReadType
<1>4. Regroups(r, v, Read(u))
  BY <1>3, Regrouping, Zenon
<1> QED
  BY <1>1, <1>2, <1>4, Zenon DEF Regroups

LEMMA SaysRead ==
  ASSUME NEW o \in Seq(Nat), NEW r \in Seq(Nat), Says(o, r)
  PROVE  Read(o) = r
<1>1. Read(o \o <<>>) = r \o Read(<<>>)
  <2>1. <<>> \in Seq(Nat)
    OBVIOUS
  <2> QED
    BY <2>1 DEF Says
<1>2. o \o <<>> = o /\ r \o <<>> = r
  BY ConcatEmptySeq
<1> QED
  BY <1>1, <1>2, ReadEmpty

----------------------------------------------------------------------------
(* Flattened sequences *)

LEMMA FromTheStart ==
  ASSUME NEW N \in Nat, NEW S,
         \A i \in 1..N : (\A j \in 1..(i - 1) : j \in S) => i \in S
  PROVE  \A i \in 1..N : i \in S
<1> DEFINE Failing == {k \in 1..N : k \notin S}
<1>1. ASSUME Failing # {} PROVE FALSE
  <2>1. Failing \in SUBSET Nat
    OBVIOUS
  <2>2. PICK m \in Failing : \A n \in Failing : m <= n
    <3> HIDE DEF Failing
    <3> QED
      BY <1>1, <2>1, LeastExists
  <2>3. m \in 1..N /\ m \notin S
    BY <2>2
  <2>4. ASSUME NEW j \in 1..(m - 1) PROVE j \in S
    <3>1. j \in 1..N /\ j < m
      BY <2>3
    <3>2. j \notin Failing
      <4> HIDE DEF Failing
      <4> QED
        BY <2>2, <2>3, <3>1
    <3> QED
      BY <3>1, <3>2
  <2> QED
    BY <2>3, <2>4
<1> QED
  BY <1>1

FlattenTurn(ss, f, i) == IF i = 1 THEN ss[i] ELSE f[i - 1] \o ss[i]
FlattenTo(ss, k, f) == f = [i \in 1..k |-> FlattenTurn(ss, f, i)]
FlattenFrom(ss) == CHOOSE f : f = [i \in 1..Len(ss) |-> IF i = 1 THEN ss[i] ELSE f[i - 1] \o ss[i]]

LEMMA FlattenExists ==
  ASSUME NEW T, NEW ss \in Seq(Seq(T))
  PROVE  \E f : FlattenTo(ss, Len(ss), f)
<1> DEFINE N == Len(ss)
           S == {k \in 0..N : \E f : FlattenTo(ss, k, f)}
<1>0. N \in Nat
  OBVIOUS
<1>1. 0 \in S
  <2> DEFINE f == [i \in {} |-> <<>>]
  <2>1. 1..0 = {}
    OBVIOUS
  <2>2. FlattenTo(ss, 0, f)
    BY <2>1 DEF FlattenTo
  <2> QED
    BY <1>0, <2>2
<1>2. ASSUME NEW k \in 1..N, k - 1 \in S PROVE k \in S
  <2>1. PICK f : FlattenTo(ss, k - 1, f)
    BY <1>2
  <2> DEFINE g == [i \in 1..k |-> FlattenTurn(ss, f, i)]
  <2>2. ASSUME NEW i \in 1..k, i # 1 PROVE g[i - 1] = f[i - 1]
    <3>1. i - 1 \in 1..k /\ i - 1 \in 1..(k - 1)
      BY <1>0, <2>2
    <3>2. f[i - 1] = FlattenTurn(ss, f, i - 1)
      BY <2>1, <3>1 DEF FlattenTo
    <3> QED
      BY <3>1, <3>2
  <2>3. \A i \in 1..k : FlattenTurn(ss, g, i) = FlattenTurn(ss, f, i)
    <3> HIDE DEF g
    <3> QED
      BY <2>2 DEF FlattenTurn
  <2>4. g = [i \in 1..k |-> FlattenTurn(ss, g, i)]
    BY <2>3
  <2>5. k \in 0..N
    BY <1>0
  <2> QED
    BY <2>4, <2>5 DEF FlattenTo
<1> HIDE DEF S
<1>3. ASSUME NEW i \in 1..(N + 1), \A j \in 1..(i - 1) : j - 1 \in S PROVE i - 1 \in S
  <2>1. CASE i = 1
    BY <1>1, <2>1
  <2>2. CASE i # 1
    <3>1. i - 1 \in 1..N /\ i - 1 \in 1..(i - 1)
      BY <1>0, <2>2
    <3> QED
      BY <1>2, <1>3, <3>1
  <2> QED
    BY <2>1, <2>2
<1>4. \A i \in 1..(N + 1) : i - 1 \in S
  <2> DEFINE U == {i \in 1..(N + 1) : i - 1 \in S}
  <2>1. \A i \in 1..(N + 1) : (\A j \in 1..(i - 1) : j \in U) => i \in U
    BY <1>0, <1>3
  <2>2. N + 1 \in Nat
    BY <1>0
  <2> HIDE DEF U
  <2>3. \A i \in 1..(N + 1) : i \in U
    BY <2>1, <2>2, FromTheStart
  <2> QED
    BY <2>3 DEF U
<1>5. N + 1 \in 1..(N + 1) /\ (N + 1) - 1 = N
  BY <1>0
<1>6. N \in S
  BY <1>4, <1>5
<1> QED
  BY <1>6 DEF S

LEMMA FlattenIs ==
  ASSUME NEW T, NEW ss \in Seq(Seq(T))
  PROVE  /\ ss = <<>> => Seqs!FlattenSeq(ss) = <<>>
         /\ ss # <<>> => Seqs!FlattenSeq(ss) = FlattenFrom(ss)[Len(ss)]
         /\ \A i \in 1..Len(ss) : FlattenFrom(ss)[i] = FlattenTurn(ss, FlattenFrom(ss), i)
<1>1. PICK f : FlattenTo(ss, Len(ss), f)
  BY FlattenExists
<1>2. f = [i \in 1..Len(ss) |-> IF i = 1 THEN ss[i] ELSE f[i - 1] \o ss[i]]
  BY <1>1 DEF FlattenTo, FlattenTurn
<1>3. FlattenFrom(ss) = [i \in 1..Len(ss) |-> IF i = 1 THEN ss[i] ELSE FlattenFrom(ss)[i - 1] \o ss[i]]
  BY <1>2 DEF FlattenFrom
<1>4. Len(ss) = 0 <=> ss = <<>>
  BY EmptySeq
<1>5. Seqs!FlattenSeq(ss) = IF Len(ss) = 0 THEN ss ELSE FlattenFrom(ss)[Len(ss)]
  BY DEF Seqs!FlattenSeq, FlattenFrom
<1> HIDE DEF FlattenFrom
<1> QED
  BY <1>3, <1>4, <1>5 DEF FlattenTurn

LEMMA FlattenType ==
  ASSUME NEW T, NEW ss \in Seq(Seq(T))
  PROVE  /\ \A i \in 1..Len(ss) : FlattenFrom(ss)[i] \in Seq(T)
         /\ Seqs!FlattenSeq(ss) \in Seq(T)
<1> DEFINE S == {i \in 1..Len(ss) : FlattenFrom(ss)[i] \in Seq(T)}
<1>0. Len(ss) \in Nat
  OBVIOUS
<1>1. ASSUME NEW i \in 1..Len(ss), \A j \in 1..(i - 1) : j \in S PROVE i \in S
  <2>1. ss[i] \in Seq(T)
    OBVIOUS
  <2>2. FlattenFrom(ss)[i] = FlattenTurn(ss, FlattenFrom(ss), i)
    BY FlattenIs
  <2>3. CASE i = 1
    BY <2>1, <2>2, <2>3 DEF FlattenTurn
  <2>4. CASE i # 1
    <3>1. i - 1 \in 1..(i - 1)
      BY <2>4
    <3>2. FlattenFrom(ss)[i - 1] \in Seq(T)
      BY <1>1, <3>1
    <3>3. FlattenFrom(ss)[i] = FlattenFrom(ss)[i - 1] \o ss[i]
      BY <2>2, <2>4 DEF FlattenTurn
    <3> QED
      BY <2>1, <3>2, <3>3, ConcatProperties
  <2> QED
    BY <2>3, <2>4
<1>2. \A i \in 1..Len(ss) : i \in S
  <2> HIDE DEF S
  <2> QED
    BY <1>0, <1>1, FromTheStart
<1>3. ss # <<>> => Len(ss) \in 1..Len(ss)
  BY EmptySeq
<1>4. <<>> \in Seq(T)
  BY EmptySeq
<1> QED
  BY <1>2, <1>3, <1>4, FlattenIs

\* What is appended to a sequence is appended to what it flattens to.
LEMMA FlattenAppend ==
  ASSUME NEW T, NEW ss \in Seq(Seq(T)), NEW t \in Seq(T)
  PROVE  Seqs!FlattenSeq(Append(ss, t)) = Seqs!FlattenSeq(ss) \o t
<1> DEFINE tt == Append(ss, t)
           S == {i \in 1..Len(ss) : FlattenFrom(tt)[i] = FlattenFrom(ss)[i]}
<1>1. /\ tt \in Seq(Seq(T)) /\ tt # <<>> /\ Len(tt) = Len(ss) + 1
      /\ \A i \in 1..Len(ss) : tt[i] = ss[i]
      /\ tt[Len(ss) + 1] = t /\ Len(ss) \in Nat
  BY AppendProperties
<1> HIDE DEF tt
<1>2. ASSUME NEW i \in 1..Len(ss), \A j \in 1..(i - 1) : j \in S PROVE i \in S
  <2>1. FlattenFrom(ss)[i] = FlattenTurn(ss, FlattenFrom(ss), i)
    BY FlattenIs
  <2>2. i \in 1..Len(tt) /\ tt[i] = ss[i]
    BY <1>1
  <2>3. FlattenFrom(tt)[i] = FlattenTurn(tt, FlattenFrom(tt), i)
    BY <1>1, <2>2, FlattenIs
  <2>4. i # 1 => i - 1 \in 1..(i - 1)
    OBVIOUS
  <2>5. i # 1 => FlattenFrom(tt)[i - 1] = FlattenFrom(ss)[i - 1]
    BY <1>2, <2>4
  <2> QED
    BY <2>1, <2>2, <2>3, <2>5 DEF FlattenTurn
<1>3. \A i \in 1..Len(ss) : i \in S
  <2> HIDE DEF S
  <2> QED
    BY <1>1, <1>2, FromTheStart
<1>4. Len(tt) \in 1..Len(tt) /\ Len(tt) - 1 = Len(ss)
  BY <1>1
<1>5. FlattenFrom(tt)[Len(tt)] = FlattenTurn(tt, FlattenFrom(tt), Len(tt)) /\ Seqs!FlattenSeq(tt) = FlattenFrom(tt)[Len(tt)]
  BY <1>1, <1>4, FlattenIs
<1>6. CASE ss = <<>>
  <2>1. Len(ss) = 0 /\ Seqs!FlattenSeq(ss) = <<>> /\ <<>> \o t = t
    BY <1>6, FlattenIs, ConcatEmptySeq
  <2> QED
    BY <1>1, <1>5, <2>1 DEF FlattenTurn, tt
<1>7. CASE ss # <<>>
  <2>1. Len(ss) \in 1..Len(ss) /\ Len(tt) # 1
    BY <1>1, <1>7, EmptySeq
  <2>2. FlattenFrom(tt)[Len(ss)] = FlattenFrom(ss)[Len(ss)]
    BY <1>3, <2>1
  <2>3. Seqs!FlattenSeq(ss) = FlattenFrom(ss)[Len(ss)]
    BY <1>7, FlattenIs
  <2> QED
    BY <1>1, <1>4, <1>5, <2>1, <2>2, <2>3 DEF FlattenTurn, tt
<1> QED
  BY <1>6, <1>7

\* What the first k of a sequence of texts flatten to.
Upto(ss, k) == Seqs!FlattenSeq(SubSeq(ss, 1, k))

LEMMA UptoIs ==
  ASSUME NEW ss \in Seq(Seq(Nat))
  PROVE  /\ Upto(ss, 0) = <<>>
         /\ Upto(ss, Len(ss)) = Seqs!FlattenSeq(ss)
         /\ \A k \in 0..Len(ss) : Upto(ss, k) \in Seq(Nat)
         /\ \A k \in 0..(Len(ss) - 1) : Upto(ss, k + 1) = Upto(ss, k) \o ss[k + 1]
<1>0. Len(ss) \in Nat /\ \A i \in 1..Len(ss) : ss[i] \in Seq(Nat)
  OBVIOUS
<1>1. \A k \in 0..Len(ss) : SubSeq(ss, 1, k) \in Seq(Seq(Nat))
  <2>1. ASSUME NEW k \in 0..Len(ss) PROVE SubSeq(ss, 1, k) \in Seq(Seq(Nat))
    <3>1. \A i \in 1..k : ss[i] \in Seq(Nat)
      BY <1>0
    <3> QED
      BY <3>1, SubSeqProperties
  <2> QED
    BY <2>1
<1>2. SubSeq(ss, 1, 0) = <<>> /\ <<>> \in Seq(Seq(Nat))
  OBVIOUS
<1>3. Upto(ss, 0) = <<>>
  BY <1>2, FlattenIs DEF Upto
<1>4. Upto(ss, Len(ss)) = Seqs!FlattenSeq(ss)
  BY SubSeqFull DEF Upto
<1>5. \A k \in 0..Len(ss) : Upto(ss, k) \in Seq(Nat)
  BY <1>1, FlattenType DEF Upto
<1>6. ASSUME NEW k \in 0..(Len(ss) - 1) PROVE Upto(ss, k + 1) = Upto(ss, k) \o ss[k + 1]
  <2>1. k + 1 \in 1..Len(ss) /\ k \in 0..Len(ss) /\ ss[k + 1] \in Seq(Nat)
    BY <1>0
  <2>2. SubSeq(ss, 1, k + 1) = Append(SubSeq(ss, 1, k), ss[k + 1])
    BY <1>0, <2>1
  <2> QED
    BY <1>1, <2>1, <2>2, FlattenAppend DEF Upto
<1> QED
  BY <1>3, <1>4, <1>5, <1>6

LEMMA UptoRest ==
  ASSUME NEW ss \in Seq(Seq(Nat)), NEW k \in 0..Len(ss)
  PROVE  \E w \in Seq(Nat) : Seqs!FlattenSeq(ss) = Upto(ss, k) \o w
<1> DEFINE S == {i \in 1..(Len(ss) + 1) : \E w \in Seq(Nat) : Seqs!FlattenSeq(ss) = Upto(ss, i - 1) \o w}
<1>0. Len(ss) \in Nat
  OBVIOUS
<1>1. Len(ss) + 1 \in S
  <2>1. Len(ss) + 1 \in 1..(Len(ss) + 1) /\ (Len(ss) + 1) - 1 = Len(ss)
    BY <1>0
  <2>2. Upto(ss, Len(ss)) = Seqs!FlattenSeq(ss) /\ Upto(ss, Len(ss)) \in Seq(Nat)
    BY <1>0, UptoIs
  <2>3. <<>> \in Seq(Nat) /\ Upto(ss, Len(ss)) = Upto(ss, Len(ss)) \o <<>>
    BY <2>2, ConcatEmptySeq
  <2> QED
    BY <2>1, <2>2, <2>3
<1>2. ASSUME NEW i \in 1..Len(ss), \A j \in (i + 1)..(Len(ss) + 1) : j \in S PROVE i \in S
  <2>1. i + 1 \in (i + 1)..(Len(ss) + 1) /\ (i + 1) - 1 = i
    BY <1>0
  <2>2. PICK w \in Seq(Nat) : Seqs!FlattenSeq(ss) = Upto(ss, i) \o w
    BY <1>2, <2>1
  <2>3. i - 1 \in 0..(Len(ss) - 1) /\ i - 1 \in 0..Len(ss) /\ (i - 1) + 1 = i /\ i \in 1..(Len(ss) + 1)
    BY <1>0
  <2>4. Upto(ss, i) = Upto(ss, i - 1) \o ss[i] /\ Upto(ss, i - 1) \in Seq(Nat) /\ ss[i] \in Seq(Nat)
    <3>1. Upto(ss, i - 1) \in Seq(Nat) /\ ss[i] \in Seq(Nat)
      BY <2>3, UptoIs
    <3>2. Upto(ss, (i - 1) + 1) = Upto(ss, i - 1) \o ss[(i - 1) + 1]
      BY <2>3, UptoIs
    <3> QED
      BY <2>3, <3>1, <3>2
  <2>5. Regroups(Upto(ss, i - 1), ss[i], w) /\ Joins(ss[i], w)
    BY <2>4, Regrouping, Joining
  <2>6. Seqs!FlattenSeq(ss) = Upto(ss, i - 1) \o (ss[i] \o w) /\ ss[i] \o w \in Seq(Nat)
    BY <2>2, <2>4, <2>5, Zenon DEF Regroups, Joins
  <2> QED
    BY <2>3, <2>6
<1>3. \A i \in 1..(Len(ss) + 1) : i \in S
  <2> HIDE DEF S
  <2> QED
    BY <1>0, <1>1, <1>2, FromTheEnd
<1>4. k + 1 \in 1..(Len(ss) + 1) /\ (k + 1) - 1 = k
  BY <1>0
<1> QED
  BY <1>3, <1>4

----------------------------------------------------------------------------
(* Parts of sequences *)

LEMMA NothingIsPart == ASSUME NEW s \in Seq(Nat) PROVE PartOf(<<>>, s)
<1> DEFINE f == [i \in {} |-> 0]
<1>1. DOMAIN <<>> = {} /\ f \in [{} -> DOMAIN s]
  OBVIOUS
<1> QED
  BY <1>1 DEF PartOf

LEMMA AllIsPart == ASSUME NEW s \in Seq(Nat) PROVE PartOf(s, s)
<1> DEFINE f == [i \in DOMAIN s |-> i]
<1>1. f \in [DOMAIN s -> DOMAIN s] /\ \A i \in DOMAIN s : f[i] = i
  OBVIOUS
<1> QED
  BY <1>1 DEF PartOf

LEMMA PartOfMore ==
  ASSUME NEW r \in Seq(Nat), NEW s \in Seq(Nat), NEW t \in Seq(Nat), PartOf(r, s)
  PROVE  PartOf(r, s \o t)
<1>1. PICK f \in [DOMAIN r -> DOMAIN s] :
        \A i, j \in DOMAIN r : r[i] = s[f[i]] /\ (i < j => f[i] < f[j])
  BY DEF PartOf
<1>2. DOMAIN s \subseteq DOMAIN (s \o t) /\ \A k \in DOMAIN s : (s \o t)[k] = s[k]
  OBVIOUS
<1>3. f \in [DOMAIN r -> DOMAIN (s \o t)] /\ \A i \in DOMAIN r : f[i] \in DOMAIN s
  BY <1>1, <1>2
<1>4. \A i, j \in DOMAIN r : r[i] = (s \o t)[f[i]] /\ (i < j => f[i] < f[j])
  BY <1>1, <1>2, <1>3
<1> QED
  BY <1>3, <1>4 DEF PartOf

LEMMA PartOfBoth ==
  ASSUME NEW r \in Seq(Nat), NEW s \in Seq(Nat), NEW c \in Nat, PartOf(r, s)
  PROVE  PartOf(r \o <<c>>, s \o <<c>>)
<1> DEFINE n == Len(r)
           m == Len(s)
           rr == r \o <<c>>
           ss == s \o <<c>>
<1>0. n \in Nat /\ m \in Nat /\ DOMAIN r = 1..n /\ DOMAIN s = 1..m
  OBVIOUS
<1>1. /\ DOMAIN rr = 1..(n + 1) /\ rr[n + 1] = c /\ \A k \in 1..n : rr[k] = r[k]
      /\ DOMAIN ss = 1..(m + 1) /\ ss[m + 1] = c /\ \A k \in 1..m : ss[k] = s[k]
  OBVIOUS
<1>2. PICK f \in [1..n -> 1..m] :
        \A i, j \in 1..n : r[i] = s[f[i]] /\ (i < j => f[i] < f[j])
  BY <1>0 DEF PartOf
<1> DEFINE g == [i \in 1..(n + 1) |-> IF i = n + 1 THEN m + 1 ELSE f[i]]
<1> HIDE DEF n, m, rr, ss
<1>3. \A i \in 1..(n + 1) : i # n + 1 => i \in 1..n /\ g[i] = f[i] /\ f[i] \in 1..m
  BY <1>0, <1>2
<1>4. g[n + 1] = m + 1
  BY <1>0
<1>5. g \in [1..(n + 1) -> 1..(m + 1)]
  BY <1>0, <1>3, <1>4
<1>6. ASSUME NEW i \in 1..(n + 1) PROVE rr[i] = ss[g[i]]
  <2>1. CASE i = n + 1
    BY <1>1, <1>4, <2>1
  <2>2. CASE i # n + 1
    BY <1>1, <1>2, <1>3, <2>2
  <2> QED
    BY <2>1, <2>2
<1> HIDE DEF g
<1>7. ASSUME NEW i \in 1..(n + 1), NEW j \in 1..(n + 1), i < j PROVE g[i] < g[j]
  <2>1. i # n + 1
    BY <1>0, <1>7
  <2>2. CASE j = n + 1
    BY <1>0, <1>3, <1>4, <2>1, <2>2
  <2>3. CASE j # n + 1
    BY <1>2, <1>3, <1>7, <2>1, <2>3
  <2> QED
    BY <2>2, <2>3
<1>8. \A i, j \in DOMAIN rr : rr[i] = ss[g[i]] /\ (i < j => g[i] < g[j])
  BY <1>1, <1>6, <1>7
<1>9. g \in [DOMAIN rr -> DOMAIN ss]
  BY <1>1, <1>5
<1>10. PartOf(rr, ss)
  BY <1>8, <1>9 DEF PartOf
<1> QED
  BY <1>10 DEF rr, ss

----------------------------------------------------------------------------
(* Each character's escape *)

LEMMA FlattenFew ==
  ASSUME NEW t \in Seq(Nat), NEW v \in Seq(Nat)
  PROVE  /\ Seqs!FlattenSeq(<<t>>) = t
         /\ Seqs!FlattenSeq(<<t, v>>) = t \o v
         /\ Seqs!FlattenSeq(<<>>) = <<>>
<1>1. /\ <<>> \in Seq(Seq(Nat)) /\ <<t>> = Append(<<>>, t)
      /\ <<t>> \in Seq(Seq(Nat)) /\ <<t, v>> = Append(<<t>>, v)
  OBVIOUS
<1>2. Seqs!FlattenSeq(<<>>) = <<>>
  BY <1>1, FlattenIs
<1>3. Seqs!FlattenSeq(<<t>>) = <<>> \o t
  BY <1>1, <1>2, FlattenAppend
<1>4. Seqs!FlattenSeq(<<t>>) = t
  BY <1>3, ConcatEmptySeq
<1>5. Seqs!FlattenSeq(<<t, v>>) = t \o v
  BY <1>1, <1>4, FlattenAppend
<1> QED
  BY <1>2, <1>4, <1>5

\* A character that stands for itself.
LEMMA LetterSays ==
  ASSUME NEW c \in Nat,
         \A s \in Seq(Nat) : Len(s) > 0 /\ s[1] = c => ReadTurn(s, 1) = [n |-> 1, text |-> <<c>>]
  PROVE  Says(<<c>>, <<c>>)
<1>1. <<c>> \in Seq(Nat) /\ <<c>> # <<>> /\ Len(<<c>>) = 1
  OBVIOUS
<1>2. ASSUME NEW u \in Seq(Nat) PROVE ReadTurn(<<c>> \o u, 1) = [n |-> Len(<<c>>), text |-> <<c>>]
  <2>1. <<c>> \o u \in Seq(Nat) /\ Len(<<c>> \o u) > 0 /\ (<<c>> \o u)[1] = c
    OBVIOUS
  <2> QED
    BY <1>1, <2>1
<1> QED
  BY <1>1, <1>2, OneTurnSays

LEMMA PairSays ==
  ASSUME NEW a \in Nat, NEW b \in Nat, NEW c \in Nat,
         \A s \in Seq(Nat) : Len(s) > 1 /\ s[1] = a /\ s[2] = b => ReadTurn(s, 1) = [n |-> 2, text |-> <<c>>]
  PROVE  Says(<<a, b>>, <<c>>)
<1>1. <<a, b>> \in Seq(Nat) /\ <<a, b>> # <<>> /\ Len(<<a, b>>) = 2
  OBVIOUS
<1>2. ASSUME NEW u \in Seq(Nat) PROVE ReadTurn(<<a, b>> \o u, 1) = [n |-> Len(<<a, b>>), text |-> <<c>>]
  <2>1. <<a, b>> \o u \in Seq(Nat) /\ Len(<<a, b>> \o u) > 1 /\ (<<a, b>> \o u)[1] = a /\ (<<a, b>> \o u)[2] = b
    OBVIOUS
  <2> QED
    BY <1>1, <2>1
<1> QED
  BY <1>1, <1>2, OneTurnSays

LEMMA TripleSays ==
  ASSUME NEW a \in Nat, NEW b \in Nat, NEW d \in Nat, NEW c \in Nat,
         \A s \in Seq(Nat) : Len(s) > 2 /\ s[1] = a /\ s[2] = b /\ s[3] = d =>
                               ReadTurn(s, 1) = [n |-> 3, text |-> <<c>>]
  PROVE  Says(<<a, b, d>>, <<c>>)
<1> DEFINE t == <<a, b, d>>
<1>1. t \in Seq(Nat) /\ t # <<>> /\ Len(t) = 3 /\ t[1] = a /\ t[2] = b /\ t[3] = d
  OBVIOUS
<1> HIDE DEF t
<1>2. ASSUME NEW u \in Seq(Nat) PROVE ReadTurn(t \o u, 1) = [n |-> Len(t), text |-> <<c>>]
  <2>1. t \o u \in Seq(Nat) /\ Len(t \o u) > 2 /\ (t \o u)[1] = a /\ (t \o u)[2] = b /\ (t \o u)[3] = d
    <3>1. /\ t \o u \in Seq(Nat) /\ Len(t \o u) = Len(t) + Len(u) /\ Len(u) \in Nat
          /\ \A i \in 1..(Len(t) + Len(u)) : (t \o u)[i] = IF i <= Len(t) THEN t[i] ELSE u[i - Len(t)]
      <4>1. t \in Seq(Nat)
        BY <1>1
      <4> QED
        BY <4>1, ConcatProperties
    <3>2. \A i \in 1..Len(t) : (t \o u)[i] = t[i]
      BY <1>1, <3>1
    <3> QED
      BY <1>1, <3>1, <3>2
  <2> QED
    BY <1>1, <2>1
<1>3. Says(t, <<c>>)
  BY <1>1, <1>2, OneTurnSays
<1> QED
  BY <1>3 DEF t

LEMMA FourSay ==
  ASSUME NEW a \in Nat, NEW b \in Nat, NEW d \in Nat, NEW e \in Nat, NEW c \in Nat,
         \A s \in Seq(Nat) : Len(s) > 3 /\ s[1] = a /\ s[2] = b /\ s[3] = d /\ s[4] = e =>
                               ReadTurn(s, 1) = [n |-> 4, text |-> <<c>>]
  PROVE  Says(<<a, b, d, e>>, <<c>>)
<1> DEFINE t == <<a, b, d, e>>
<1>1. t \in Seq(Nat) /\ t # <<>> /\ Len(t) = 4 /\ t[1] = a /\ t[2] = b /\ t[3] = d /\ t[4] = e
  OBVIOUS
<1> HIDE DEF t
<1>2. ASSUME NEW u \in Seq(Nat) PROVE ReadTurn(t \o u, 1) = [n |-> Len(t), text |-> <<c>>]
  <2>1. t \o u \in Seq(Nat) /\ Len(t \o u) > 3 /\ (t \o u)[1] = a /\ (t \o u)[2] = b /\ (t \o u)[3] = d /\ (t \o u)[4] = e
    <3>1. /\ t \o u \in Seq(Nat) /\ Len(t \o u) = Len(t) + Len(u) /\ Len(u) \in Nat
          /\ \A i \in 1..(Len(t) + Len(u)) : (t \o u)[i] = IF i <= Len(t) THEN t[i] ELSE u[i - Len(t)]
      <4>1. t \in Seq(Nat)
        BY <1>1
      <4> QED
        BY <4>1, ConcatProperties
    <3>2. \A i \in 1..Len(t) : (t \o u)[i] = t[i]
      BY <1>1, <3>1
    <3> QED
      BY <1>1, <3>1, <3>2
  <2> QED
    BY <1>1, <2>1
<1>3. Says(t, <<c>>)
  BY <1>1, <1>2, OneTurnSays
<1> QED
  BY <1>3 DEF t

LEMMA AmpIs == Amp \notin {Lt, Gt}
BY DEF Amp, Lt, Gt

\* A turn of each language.
LEMMA XmlTurn ==
  enc \in {"XML", "HTML"} =>
    \A s : ReadTurn(s, 1) = [n |-> XmlPiece(s, 1).n, text |-> <<XmlPiece(s, 1).c>>]
BY DEF ReadTurn, Piece

LEMMA SqlTurn ==
  enc = "SQL" => \A s : ReadTurn(s, 1) = [n |-> SqlPiece(s, 1).n, text |-> <<SqlPiece(s, 1).c>>]
BY DEF ReadTurn, Piece

LEMMA RegexTurn ==
  enc = "regex" => \A s : ReadTurn(s, 1) = [n |-> RegexPiece(s, 1).n, text |-> <<RegexPiece(s, 1).c>>]
BY DEF ReadTurn, Piece

LEMMA JsonTurn ==
  enc = "JSON" => \A s : ReadTurn(s, 1) = [n |-> JsonPiece(s, 1).n, text |-> <<JsonPiece(s, 1).c>>]
BY DEF ReadTurn, Piece

\* A character's name or number as XML and HTML have it.
LEMMA ReferenceSays ==
  ASSUME enc \in {"XML", "HTML"}, NEW c \in Nat, c > 0
  PROVE  /\ Says(<<Amp, Named(c), Semicolon>>, <<c>>)
         /\ Says(<<Amp, Hash, Named(c), Semicolon>>, <<c>>)
<1>0. Amp \in Nat /\ Named(c) \in Nat /\ Semicolon \in Nat /\ Hash \in Nat /\ Named(0) \in Nat
      /\ Named(c) > Named(0) /\ Named(c) # Hash /\ Named(c) - Named(0) = c
  BY DEF Amp, Named, Semicolon, Hash
<1>1. ASSUME NEW s \in Seq(Nat), Len(s) > 2, s[1] = Amp, s[2] = Named(c), s[3] = Semicolon
      PROVE  ReadTurn(s, 1) = [n |-> 3, text |-> <<c>>]
  <2>1. At(s, 1 + 1) = Named(c) /\ At(s, 1 + 1 + 1) = Semicolon
    BY <1>1 DEF At
  <2>2. XmlPiece(s, 1) = Reference(s, 1, 1)
    BY <1>0, <1>1, <2>1, AmpIs DEF XmlPiece
  <2>3. Reference(s, 1, 1) = [n |-> 3, c |-> c]
    BY <1>0, <2>1 DEF Reference
  <2> QED
    BY <2>2, <2>3, XmlTurn
<1>2. ASSUME NEW s \in Seq(Nat), Len(s) > 3, s[1] = Amp, s[2] = Hash, s[3] = Named(c), s[4] = Semicolon
      PROVE  ReadTurn(s, 1) = [n |-> 4, text |-> <<c>>]
  <2>1. At(s, 1 + 1) = Hash /\ At(s, 1 + 2) = Named(c) /\ At(s, 1 + 2 + 1) = Semicolon
    BY <1>2 DEF At
  <2>2. XmlPiece(s, 1) = Reference(s, 1, 2)
    BY <1>0, <1>2, <2>1, AmpIs DEF XmlPiece
  <2>3. Reference(s, 1, 2) = [n |-> 4, c |-> c]
    BY <1>0, <2>1 DEF Reference
  <2> QED
    BY <2>2, <2>3, XmlTurn
<1> QED
  BY <1>0, <1>1, <1>2, TripleSays, FourSay

LEMMA XmlLetterSays ==
  ASSUME enc \in {"XML", "HTML"}, NEW c \in Nat, c \notin {Amp, Lt, Gt}
  PROVE  Says(<<c>>, <<c>>)
<1>1. ASSUME NEW s \in Seq(Nat), Len(s) > 0, s[1] = c
      PROVE  ReadTurn(s, 1) = [n |-> 1, text |-> <<c>>]
  <2>1. XmlPiece(s, 1) = Letter(s, 1)
    BY <1>1 DEF XmlPiece
  <2> QED
    BY <1>1, <2>1 DEF ReadTurn, Piece, Letter
<1> QED
  BY <1>1, LetterSays

LEMMA XmlSays ==
  ASSUME enc = "XML", NEW c \in 1..255
  PROVE  \E t \in Seq(Nat) : XmlCalls(c) = <<t>> /\ Says(t, <<c>>)
<1>1. CASE c \in {Quote, Apostrophe, Lt, Gt, Amp}
  <2>0. c \in Nat /\ c > 0
    OBVIOUS
  <2>1. <<Amp, Named(c), Semicolon>> \in Seq(Nat)
    BY DEF Amp, Named, Semicolon
  <2>2. Says(<<Amp, Named(c), Semicolon>>, <<c>>)
    BY <2>0, ReferenceSays
  <2> QED
    BY <1>1, <2>1, <2>2 DEF XmlCalls
<1>2. CASE c \notin {Quote, Apostrophe, Lt, Gt, Amp}
  <2>1. Says(<<c>>, <<c>>) /\ <<c>> \in Seq(Nat)
    BY <1>2, XmlLetterSays
  <2> QED
    BY <1>2, <2>1 DEF XmlCalls
<1> QED
  BY <1>1, <1>2

LEMMA HexDigitIs == \A n \in 0..15 : HexDigit(n) \in HexDigits /\ HexDigit(n) \in Nat /\ HexValue(HexDigit(n)) = n
BY DEF HexDigit, HexDigits, HexValue

LEMMA UrlSays ==
  ASSUME enc = "URL", NEW c \in 1..255, c # Percent
  PROVE  \E t \in Seq(Nat) : UrlCalls(c) = <<t>> /\ Says(t, <<c>>)
<1>1. CASE c \in UrlSpecial
  <2> DEFINE a == HexDigit(c \div 16)
             b == HexDigit(c % 16)
  <2>1. (c \div 16) \in 0..15 /\ (c % 16) \in 0..15 /\ (c \div 16) * 16 + (c % 16) = c
    OBVIOUS
  <2>2. a \in HexDigits /\ b \in HexDigits /\ a \in Nat /\ b \in Nat /\ HexValue(a) * 16 + HexValue(b) = c
    BY <2>1, HexDigitIs
  <2> HIDE DEF a, b
  <2>3. \A s \in Seq(Nat) : Len(s) > 2 /\ s[1] = Percent /\ s[2] = a /\ s[3] = b =>
                               ReadTurn(s, 1) = [n |-> 3, text |-> <<c>>]
    <3>1. ASSUME NEW s \in Seq(Nat), Len(s) > 2, s[1] = Percent, s[2] = a, s[3] = b
          PROVE  ReadTurn(s, 1) = [n |-> 3, text |-> <<c>>]
      BY <2>2, <3>1 DEF ReadTurn
    <3> QED
      BY <3>1, Zenon
  <2>4. Percent \in Nat /\ c \in Nat
    BY DEF Percent
  <2>5. Says(<<Percent, a, b>>, <<c>>) /\ <<Percent, a, b>> \in Seq(Nat)
    <3>1. Says(<<Percent, a, b>>, <<c>>)
      BY <2>2, <2>3, <2>4, TripleSays, Zenon
    <3>2. <<Percent, a, b>> \in Seq(Nat)
      BY <2>2, <2>4
    <3> QED
      BY <3>1, <3>2
  <2>6. UrlCalls(c) = << <<Percent, a, b>> >>
    BY <1>1 DEF UrlCalls, HexPair, a, b
  <2> QED
    BY <2>5, <2>6
<1>2. CASE c \notin UrlSpecial
  <2>1. ASSUME NEW s \in Seq(Nat), Len(s) > 0, s[1] = c
        PROVE  ReadTurn(s, 1) = [n |-> 1, text |-> <<c>>]
    BY <2>1 DEF ReadTurn
  <2>2. Says(<<c>>, <<c>>) /\ <<c>> \in Seq(Nat)
    BY <2>1, LetterSays
  <2> QED
    BY <1>2, <2>2 DEF UrlCalls
<1> QED
  BY <1>1, <1>2

LEMMA JsonSays ==
  ASSUME enc = "JSON", NEW c \in 1..255, ~Control(c)
  PROVE  \E t \in Seq(Nat) : JsonCalls(c) = <<t>> /\ Says(t, <<c>>)
<1>1. CASE c \in {Backslash, Quote}
  <2>1. ASSUME NEW s \in Seq(Nat), Len(s) > 1, s[1] = Backslash, s[2] = c
        PROVE  ReadTurn(s, 1) = [n |-> 2, text |-> <<c>>]
    <3>1. At(s, 1 + 1) = c /\ s[1 + 1] = c
      BY <2>1 DEF At
    <3>2. JsonEscape(s, 1) = [n |-> 2, c |-> c]
      <4>1. c # 117
        BY <1>1 DEF Backslash, Quote
      <4> QED
        BY <1>1, <3>1, <4>1, Zenon DEF JsonEscape
    <3>3. Backslash # Quote /\ ~Control(Backslash)
      BY DEF Backslash, Quote, Control
    <3>4. JsonPiece(s, 1) = JsonEscape(s, 1)
      BY <2>1, <3>3, Zenon DEF JsonPiece
    <3> QED
      BY <3>2, <3>4, JsonTurn
  <2>2. Backslash \in Nat
    BY DEF Backslash
  <2>3. Says(<<Backslash, c>>, <<c>>) /\ <<Backslash, c>> \in Seq(Nat)
    BY <2>1, <2>2, PairSays
  <2> QED
    BY <1>1, <2>3 DEF JsonCalls
<1>2. CASE c \notin {Backslash, Quote}
  <2>1. ASSUME NEW s \in Seq(Nat), Len(s) > 0, s[1] = c
        PROVE  ReadTurn(s, 1) = [n |-> 1, text |-> <<c>>]
    <3>1. JsonPiece(s, 1) = Letter(s, 1)
      BY <1>2, <2>1, Zenon DEF JsonPiece
    <3> QED
      BY <2>1, <3>1, JsonTurn DEF Letter
  <2>2. Says(<<c>>, <<c>>) /\ <<c>> \in Seq(Nat)
    BY <2>1, LetterSays
  <2>3. JsonCalls(c) = << <<c>> >>
    BY <1>2 DEF JsonCalls
  <2> QED
    BY <2>2, <2>3
<1> QED
  BY <1>1, <1>2

\* Two calls, or one.
LEMMA AppendOne == ASSUME NEW S, NEW a \in S, NEW b \in S PROVE Append(<<a>>, b) = <<a, b>>
<1>1. /\ <<a>> \in Seq(S) /\ Len(<<a>>) = 1 /\ <<a>>[1] = a
      /\ <<a, b>> \in Seq(S) /\ Len(<<a, b>>) = 2 /\ <<a, b>>[1] = a /\ <<a, b>>[2] = b
  OBVIOUS
<1>2. /\ Append(<<a>>, b) \in Seq(S) /\ Len(Append(<<a>>, b)) = 2
      /\ Append(<<a>>, b)[1] = a /\ Append(<<a>>, b)[2] = b
  BY <1>1, AppendProperties
<1>3. \A i \in 1..2 : Append(<<a>>, b)[i] = <<a, b>>[i]
  BY <1>1, <1>2
<1> QED
  BY <1>1, <1>2, <1>3, SeqEqual

LEMMA PairOfCalls ==
  ASSUME NEW a \in Nat, NEW b \in Nat
  PROVE  /\ << <<a>>, <<b>> >> \in Seq(Seq(Nat))
         /\ Seqs!FlattenSeq(<< <<a>>, <<b>> >>) = <<a, b>>
<1>1. <<a>> \in Seq(Nat) /\ <<b>> \in Seq(Nat)
  OBVIOUS
<1>2. <<a>> \o <<b>> = <<a, b>>
  <2>1. Append(<<a>>, b) = <<a>> \o <<b>>
    BY <1>1, AppendIsConcat
  <2>2. Append(<<a>>, b) = <<a, b>>
    BY AppendOne
  <2> QED
    BY <2>1, <2>2
<1>3. << <<a>>, <<b>> >> \in Seq(Seq(Nat))
  BY <1>1
<1> QED
  BY <1>1, <1>2, <1>3, FlattenFew

LEMMA OneCall ==
  ASSUME NEW a \in Nat
  PROVE  << <<a>> >> \in Seq(Seq(Nat)) /\ Seqs!FlattenSeq(<< <<a>> >>) = <<a>>
<1>1. <<a>> \in Seq(Nat)
  OBVIOUS
<1>2. << <<a>> >> \in Seq(Seq(Nat))
  BY <1>1
<1> QED
  BY <1>1, <1>2, FlattenFew

\* STR_escapeRegex escapes the operators, but for those it misses, and a letter.
LEMMA RegexSpecialIs ==
  /\ RegexSpecial \subseteq RegexOperators \cup {45}
  /\ RegexOperators \subseteq RegexSpecial \cup RegexMissed
  /\ Backslash \in RegexOperators /\ Backslash \in RegexSpecial /\ Backslash \in Nat
BY DEF RegexSpecial, RegexOperators, RegexMissed, Backslash

LEMMA RegexSays ==
  ASSUME enc = "regex", NEW c \in 1..255, c \notin RegexMissed
  PROVE  /\ RegexCalls(c) \in Seq(Seq(Nat))
         /\ Says(Seqs!FlattenSeq(RegexCalls(c)), <<c>>)
<1>0. Backslash \in Nat
  BY RegexSpecialIs
<1>1. CASE c \in RegexSpecial
  <2>1. ASSUME NEW s \in Seq(Nat), Len(s) > 1, s[1] = Backslash, s[2] = c
        PROVE  ReadTurn(s, 1) = [n |-> 2, text |-> <<c>>]
    <3>1. At(s, 1 + 1) = c /\ s[1 + 1] = c
      BY <2>1 DEF At
    <3>2. c \in RegexOperators \cup {45} /\ s[1] \in RegexOperators
      BY <1>1, <2>1, RegexSpecialIs
    <3>3. RegexPiece(s, 1) = [n |-> 2, c |-> c]
      BY <2>1, <3>1, <3>2, Zenon DEF RegexPiece
    <3> QED
      BY <3>3, RegexTurn
  <2>2. Says(<<Backslash, c>>, <<c>>)
    BY <1>0, <2>1, PairSays
  <2>3. RegexCalls(c) = << <<Backslash>>, <<c>> >>
    BY <1>1 DEF RegexCalls
  <2> QED
    BY <1>0, <2>2, <2>3, PairOfCalls
<1>2. CASE c \notin RegexSpecial
  <2>1. ASSUME NEW s \in Seq(Nat), Len(s) > 0, s[1] = c
        PROVE  ReadTurn(s, 1) = [n |-> 1, text |-> <<c>>]
    <3>1. s[1] \notin RegexOperators
      BY <1>2, <2>1, RegexSpecialIs
    <3>2. RegexPiece(s, 1) = Letter(s, 1)
      BY <3>1, RegexSpecialIs, Zenon DEF RegexPiece
    <3> QED
      BY <2>1, <3>2, RegexTurn DEF Letter
  <2>2. Says(<<c>>, <<c>>) /\ <<c>> \in Seq(Nat)
    BY <2>1, LetterSays
  <2>3. RegexCalls(c) = << <<c>> >>
    BY <1>2 DEF RegexCalls
  <2> QED
    BY <2>2, <2>3, OneCall
<1> QED
  BY <1>1, <1>2

LEMMA SqlSays ==
  ASSUME enc = "SQL", NEW c \in 1..255
  PROVE  /\ SqlCalls(c) \in Seq(Seq(Nat))
         /\ Says(Seqs!FlattenSeq(SqlCalls(c)), <<c>>)
<1>1. CASE c = Apostrophe
  <2>1. ASSUME NEW s \in Seq(Nat), Len(s) > 1, s[1] = c, s[2] = c
        PROVE  ReadTurn(s, 1) = [n |-> 2, text |-> <<c>>]
    <3>1. At(s, 1 + 1) = Apostrophe
      BY <1>1, <2>1 DEF At
    <3>2. SqlPiece(s, 1) = [n |-> 2, c |-> c]
      BY <1>1, <2>1, <3>1, Zenon DEF SqlPiece
    <3> QED
      BY <3>2, SqlTurn
  <2>2. Says(<<c, c>>, <<c>>)
    BY <2>1, PairSays
  <2>3. SqlCalls(c) = << <<c>>, <<c>> >>
    BY <1>1 DEF SqlCalls
  <2> QED
    BY <2>2, <2>3, PairOfCalls
<1>2. CASE c # Apostrophe
  <2>1. ASSUME NEW s \in Seq(Nat), Len(s) > 0, s[1] = c
        PROVE  ReadTurn(s, 1) = [n |-> 1, text |-> <<c>>]
    <3>1. SqlPiece(s, 1) = Letter(s, 1)
      BY <1>2, <2>1, Zenon DEF SqlPiece
    <3> QED
      BY <2>1, <3>1, SqlTurn DEF Letter
  <2>2. Says(<<c>>, <<c>>) /\ <<c>> \in Seq(Nat)
    BY <2>1, LetterSays
  <2>3. SqlCalls(c) = << <<c>> >>
    BY <1>2 DEF SqlCalls
  <2> QED
    BY <2>2, <2>3, OneCall
<1> QED
  BY <1>1, <1>2

LEMMA TripleIs == \A a, b, d \in Nat : <<a, b, d>> \in Seq(Nat)
OBVIOUS

LEMMA FourIs == \A a, b, d, e \in Nat : <<a, b, d, e>> \in Seq(Nat)
OBVIOUS

LEMMA MarksAre ==
  /\ Amp \in Nat /\ Hash \in Nat /\ Semicolon \in Nat
  /\ \A c \in Nat : Named(c) \in Nat
  /\ MaxCodePoint \in Nat
<1>1. MaxCodePoint \in Nat
  BY DEF MaxCodePoint
<1> QED
  BY <1>1 DEF Amp, Hash, Semicolon, Named

LEMMA HtmlSays ==
  ASSUME enc = "HTML", NEW c \in 1..MaxCodePoint, c # 226, c # Replacement
  PROVE  \E t \in Seq(Nat) : HtmlCalls(c) = <<t>> /\ Says(t, <<c>>)
<1> DEFINE Entities == {Quote, Lt, Gt, Amp, Euro} \cup (160..255 \ {226})
<1>0. c \in Nat /\ c > 0
  BY MarksAre
<1>1. CASE c \in Entities
  <2>1. <<Amp, Named(c), Semicolon>> \in Seq(Nat)
    BY <1>0, MarksAre, TripleIs
  <2>2. Says(<<Amp, Named(c), Semicolon>>, <<c>>)
    BY <1>0, ReferenceSays
  <2>3. ~(Printable(c) /\ c \notin {Quote, Lt, Gt, Amp})
    BY <1>1 DEF Printable, Euro
  <2>4. HtmlCalls(c) = << <<Amp, Named(c), Semicolon>> >>
    BY <1>1, <2>3, Zenon DEF HtmlCalls
  <2> QED
    BY <2>1, <2>2, <2>4
<1>2. CASE c \notin Entities /\ Printable(c)
  <2>1. Says(<<c>>, <<c>>) /\ <<c>> \in Seq(Nat)
    BY <1>0, <1>2, XmlLetterSays
  <2>2. HtmlCalls(c) = << <<c>> >>
    BY <1>2, Zenon DEF HtmlCalls
  <2> QED
    BY <2>1, <2>2
<1>3. CASE c \notin Entities /\ ~Printable(c)
  <2>1. <<Amp, Hash, Named(c), Semicolon>> \in Seq(Nat)
    BY <1>0, MarksAre, FourIs
  <2>2. Says(<<Amp, Hash, Named(c), Semicolon>>, <<c>>)
    BY <1>0, ReferenceSays
  <2>3. HtmlCalls(c) = << <<Amp, Hash, Named(c), Semicolon>> >>
    BY <1>3, Zenon DEF HtmlCalls
  <2> QED
    BY <2>1, <2>2, <2>3
<1> QED
  BY <1>1, <1>2, <1>3

----------------------------------------------------------------------------
(* UTF-8 *)

\* The sizes of characters.
OneByte(c)    == c < 128
TwoBytes(c)   == 128 <= c /\ c < 2048
ThreeBytes(c) == 2048 <= c /\ c < 65536
FourBytes(c)  == c >= 65536

LEMMA CodePointsAre == \A c \in 1..MaxCodePoint : c \in Nat /\ c >= 1 /\ c < 17 * 65536
<1>1. MaxCodePoint \in Nat /\ MaxCodePoint < 17 * 65536
  BY SMT DEF MaxCodePoint
<1> QED
  BY <1>1, SMT

LEMMA SizesAre ==
  ASSUME NEW c \in 1..MaxCodePoint
  PROVE  OneByte(c) \/ TwoBytes(c) \/ ThreeBytes(c) \/ FourBytes(c)
  BY CodePointsAre, SMT DEF OneByte, TwoBytes, ThreeBytes, FourBytes

Six(n) == 128 + (n % 64)

LEMMA Utf8Arms ==
  ASSUME NEW c \in 1..MaxCodePoint
  PROVE  /\ OneByte(c) => Utf8(c) = <<c>>
         /\ TwoBytes(c) => Utf8(c) = <<192 + c \div 64, Six(c)>>
         /\ ThreeBytes(c) => Utf8(c) = <<224 + c \div 4096, Six(c \div 64), Six(c)>>
         /\ FourBytes(c) => Utf8(c) = <<240 + c \div 262144, Six(c \div 4096), Six(c \div 64), Six(c)>>
  BY CodePointsAre, SMT DEF OneByte, TwoBytes, ThreeBytes, FourBytes, Utf8, Six

LEMMA SixIs == \A n \in Nat : Six(n) \in Nat /\ Six(n) % 64 = n % 64
BY SMT DEF Six

LEMMA BytesAre ==
  ASSUME NEW c \in 1..MaxCodePoint
  PROVE  /\ c \in Nat /\ c \div 64 \in Nat /\ c \div 4096 \in Nat /\ c \div 262144 \in Nat
         /\ TwoBytes(c) => c \div 64 < 32
         /\ ThreeBytes(c) => c \div 4096 < 16
         /\ c \div 262144 < 5
         /\ Six(c) \in Nat /\ Six(c \div 64) \in Nat /\ Six(c \div 4096) \in Nat
<1>1. c \in Nat /\ c < 17 * 65536
  BY CodePointsAre
<1>2. c \div 64 \in Nat /\ c \div 4096 \in Nat /\ c \div 262144 \in Nat
  BY <1>1, SMT
<1>3. /\ c < 2048 => c \div 64 < 32
      /\ c < 65536 => c \div 4096 < 16
      /\ c \div 262144 < 5
  BY <1>1, SMT
<1> QED
  BY <1>1, <1>2, <1>3, SixIs DEF TwoBytes, ThreeBytes

LEMMA Utf8Is ==
  ASSUME NEW c \in 1..MaxCodePoint
  PROVE  /\ Utf8(c) \in Seq(Nat)
         /\ Len(Utf8(c)) \in 1..4
         /\ Follow(Utf8(c)[1]) = Len(Utf8(c)) - 1
<1>1. CASE OneByte(c)
  <2>1. Utf8(c) = <<c>> /\ c \in Nat /\ c < 128
    BY <1>1, Utf8Arms, CodePointsAre DEF OneByte
  <2>2. Follow(c) = 0
    BY <2>1 DEF Follow
  <2> QED
    BY <2>1, <2>2
<1>2. CASE TwoBytes(c)
  <2> DEFINE b == 192 + (c \div 64)
  <2>1. b \in Nat /\ 192 <= b /\ b < 224 /\ Six(c) \in Nat
    BY <1>2, BytesAre
  <2>2. Utf8(c) = <<b, Six(c)>>
    BY <1>2, Utf8Arms
  <2> HIDE DEF b
  <2>3. Follow(b) = 1
    BY <2>1 DEF Follow
  <2> QED
    BY <2>1, <2>2, <2>3
<1>3. CASE ThreeBytes(c)
  <2> DEFINE b == 224 + (c \div 4096)
  <2>1. b \in Nat /\ 224 <= b /\ b < 240 /\ Six(c) \in Nat /\ Six(c \div 64) \in Nat
    BY <1>3, BytesAre
  <2>2. Utf8(c) = <<b, Six(c \div 64), Six(c)>>
    BY <1>3, Utf8Arms
  <2> HIDE DEF b
  <2>3. Follow(b) = 2
    BY <2>1 DEF Follow
  <2> QED
    BY <2>1, <2>2, <2>3
<1>4. CASE FourBytes(c)
  <2> DEFINE b == 240 + (c \div 262144)
  <2>1. b \in Nat /\ 240 <= b /\ b < 245 /\ Six(c) \in Nat /\ Six(c \div 64) \in Nat /\ Six(c \div 4096) \in Nat
    BY <1>4, BytesAre
  <2>2. Utf8(c) = <<b, Six(c \div 4096), Six(c \div 64), Six(c)>>
    BY <1>4, Utf8Arms
  <2> HIDE DEF b
  <2>3. Follow(b) = 3
    BY <2>1 DEF Follow
  <2> QED
    BY <2>1, <2>2, <2>3
<1> QED
  BY <1>1, <1>2, <1>3, <1>4, SizesAre

\* The code points of several bytes.
CodeOfTwo(a, b)        == (a % 32) * 64 + (b % 64)
CodeOfThree(a, b, d)   == (a % 16) * 4096 + (b % 64) * 64 + (d % 64)
CodeOfFour(a, b, d, e) == (a % 8) * 262144 + (b % 64) * 4096 + (d % 64) * 64 + (e % 64)

LEMMA CodeArms ==
  ASSUME NEW i \in Nat
  PROVE  /\ src[i] < 128 => CodeAt(i, 0) = src[i]
         /\ CodeAt(i, 1) = CodeOfTwo(src[i], src[i + 1])
         /\ CodeAt(i, 2) = CodeOfThree(src[i], src[i + 1], src[i + 2])
         /\ CodeAt(i, 3) = CodeOfFour(src[i], src[i + 1], src[i + 2], src[i + 3])
BY SMT DEF CodeAt, CodeOfTwo, CodeOfThree, CodeOfFour

LEMMA BitsMakeTwo ==
  ASSUME NEW c \in Nat, TwoBytes(c)
  PROVE  CodeOfTwo(192 + (c \div 64), Six(c)) = c
<1>1. ((192 + (c \div 64)) % 32) * 64 + (c % 64) = c
  BY SMT DEF TwoBytes
<1>2. Six(c) % 64 = c % 64
  BY SixIs
<1> QED
  BY <1>1, <1>2 DEF CodeOfTwo

LEMMA BitsMakeThree ==
  ASSUME NEW c \in Nat, ThreeBytes(c)
  PROVE  CodeOfThree(224 + (c \div 4096), Six(c \div 64), Six(c)) = c
<1>1. ((224 + (c \div 4096)) % 16) * 4096 + ((c \div 64) % 64) * 64 + (c % 64) = c
  BY SMT DEF ThreeBytes
<1>2. c \div 64 \in Nat
  BY SMT
<1>3. Six(c) % 64 = c % 64 /\ Six(c \div 64) % 64 = (c \div 64) % 64
  BY <1>2, SixIs
<1>4. CodeOfThree(224 + (c \div 4096), Six(c \div 64), Six(c))
        = ((224 + (c \div 4096)) % 16) * 4096 + ((c \div 64) % 64) * 64 + (c % 64)
  BY <1>2, <1>3, SixIs, SMT DEF CodeOfThree
<1> QED
  BY <1>1, <1>4

LEMMA BitsMakeFour ==
  ASSUME NEW c \in Nat, c < 17 * 65536
  PROVE  CodeOfFour(240 + (c \div 262144), Six(c \div 4096), Six(c \div 64), Six(c)) = c
<1>1. ((240 + (c \div 262144)) % 8) * 262144 + ((c \div 4096) % 64) * 4096
        + ((c \div 64) % 64) * 64 + (c % 64) = c
  BY SMT
<1>2. c \div 64 \in Nat /\ c \div 4096 \in Nat
  BY SMT
<1>3. /\ Six(c) % 64 = c % 64
      /\ Six(c \div 64) % 64 = (c \div 64) % 64
      /\ Six(c \div 4096) % 64 = (c \div 4096) % 64
  BY <1>2, SixIs
<1>4. CodeOfFour(240 + (c \div 262144), Six(c \div 4096), Six(c \div 64), Six(c))
        = ((240 + (c \div 262144)) % 8) * 262144 + ((c \div 4096) % 64) * 4096
            + ((c \div 64) % 64) * 64 + (c % 64)
  BY <1>2, <1>3, SixIs, SMT DEF CodeOfFour
<1> QED
  BY <1>1, <1>4

\* The text u is in the source at the place i.
Lies(u, i) == \A j \in 0..(Len(u) - 1) : src[i + j] = u[j + 1]

LEMMA LiesOne ==
  ASSUME NEW a, NEW i \in Nat, Lies(<<a>>, i)
  PROVE  src[i] = a
<1>1. i + 0 = i
  OBVIOUS
<1>2. /\ 0 \in 0..(Len(<<a>>) - 1) /\ <<a>>[0 + 1] = a
  OBVIOUS
<1> QED
  BY <1>1, <1>2 DEF Lies

LEMMA LiesTwo ==
  ASSUME NEW a, NEW b, NEW i \in Nat, Lies(<<a, b>>, i)
  PROVE  src[i] = a /\ src[i + 1] = b
<1>1. i + 0 = i
  OBVIOUS
<1>2. /\ 0 \in 0..(Len(<<a, b>>) - 1) /\ <<a, b>>[0 + 1] = a
      /\ 1 \in 0..(Len(<<a, b>>) - 1) /\ <<a, b>>[1 + 1] = b
  OBVIOUS
<1> QED
  BY <1>1, <1>2 DEF Lies

LEMMA LiesThree ==
  ASSUME NEW a, NEW b, NEW d, NEW i \in Nat, Lies(<<a, b, d>>, i)
  PROVE  src[i] = a /\ src[i + 1] = b /\ src[i + 2] = d
<1>1. i + 0 = i
  OBVIOUS
<1>2. /\ 0 \in 0..(Len(<<a, b, d>>) - 1) /\ <<a, b, d>>[0 + 1] = a
      /\ 1 \in 0..(Len(<<a, b, d>>) - 1) /\ <<a, b, d>>[1 + 1] = b
      /\ 2 \in 0..(Len(<<a, b, d>>) - 1) /\ <<a, b, d>>[2 + 1] = d
  OBVIOUS
<1> QED
  BY <1>1, <1>2 DEF Lies

LEMMA LiesFour ==
  ASSUME NEW a, NEW b, NEW d, NEW e, NEW i \in Nat, Lies(<<a, b, d, e>>, i)
  PROVE  src[i] = a /\ src[i + 1] = b /\ src[i + 2] = d /\ src[i + 3] = e
<1>1. i + 0 = i
  OBVIOUS
<1>2. /\ 0 \in 0..(Len(<<a, b, d, e>>) - 1) /\ <<a, b, d, e>>[0 + 1] = a
      /\ 1 \in 0..(Len(<<a, b, d, e>>) - 1) /\ <<a, b, d, e>>[1 + 1] = b
      /\ 2 \in 0..(Len(<<a, b, d, e>>) - 1) /\ <<a, b, d, e>>[2 + 1] = d
      /\ 3 \in 0..(Len(<<a, b, d, e>>) - 1) /\ <<a, b, d, e>>[3 + 1] = e
  OBVIOUS
<1> QED
  BY <1>1, <1>2 DEF Lies

\* The bits of the bytes are the code point.
LEMMA CodeIs ==
  ASSUME NEW c \in 1..MaxCodePoint, NEW i \in Nat, Lies(Utf8(c), i)
  PROVE  CodeAt(i, Len(Utf8(c)) - 1) = c
<1>0. c \in Nat /\ c < 17 * 65536
  BY CodePointsAre
<1>1. CASE OneByte(c)
  <2>1. Utf8(c) = <<c>>
    BY <1>1, Utf8Arms
  <2>2. Len(Utf8(c)) - 1 = 0
    BY <2>1
  <2>3. Lies(<<c>>, i)
    BY <2>1, Zenon
  <2>4. src[i] = c
    BY <2>3, LiesOne
  <2>5. CodeAt(i, 0) = c
    <3>1. src[i] < 128
      BY <1>1, <2>4 DEF OneByte
    <3> QED
      BY <2>4, <3>1, CodeArms
  <2> QED
    BY <2>2, <2>5
<1>2. CASE TwoBytes(c)
  <2> DEFINE a == 192 + (c \div 64)
  <2>1. Utf8(c) = <<a, Six(c)>>
    BY <1>2, Utf8Arms
  <2>2. CodeOfTwo(a, Six(c)) = c
    BY <1>2, BytesAre, BitsMakeTwo
  <2> HIDE DEF a
  <2>3. Len(Utf8(c)) - 1 = 1
    BY <2>1
  <2>4. Lies(<<a, Six(c)>>, i)
    BY <2>1, Zenon
  <2>5. src[i] = a /\ src[i + 1] = Six(c)
    BY <2>4, LiesTwo
  <2>6. CodeAt(i, 1) = CodeOfTwo(src[i], src[i + 1])
    BY CodeArms
  <2> QED
    BY <2>2, <2>3, <2>5, <2>6
<1>3. CASE ThreeBytes(c)
  <2> DEFINE a == 224 + (c \div 4096)
             b == c \div 64
  <2>1. Utf8(c) = <<a, Six(b), Six(c)>>
    BY <1>3, Utf8Arms
  <2>2. CodeOfThree(a, Six(b), Six(c)) = c
    BY <1>3, BytesAre, BitsMakeThree
  <2> HIDE DEF a, b
  <2>3. Len(Utf8(c)) - 1 = 2
    BY <2>1
  <2>4. Lies(<<a, Six(b), Six(c)>>, i)
    BY <2>1, Zenon
  <2>5. src[i] = a /\ src[i + 1] = Six(b) /\ src[i + 2] = Six(c)
    BY <2>4, LiesThree
  <2>6. CodeAt(i, 2) = CodeOfThree(src[i], src[i + 1], src[i + 2])
    BY CodeArms
  <2> QED
    BY <2>2, <2>3, <2>5, <2>6
<1>4. CASE FourBytes(c)
  <2> DEFINE a == 240 + (c \div 262144)
             b == c \div 4096
             d == c \div 64
  <2>1. Utf8(c) = <<a, Six(b), Six(d), Six(c)>>
    BY <1>4, Utf8Arms
  <2>2. CodeOfFour(a, Six(b), Six(d), Six(c)) = c
    BY <1>0, <1>4, BitsMakeFour
  <2> HIDE DEF a, b, d
  <2>3. Len(Utf8(c)) - 1 = 3
    BY <2>1
  <2>4. Lies(<<a, Six(b), Six(d), Six(c)>>, i)
    BY <2>1, Zenon
  <2>5. src[i] = a /\ src[i + 1] = Six(b) /\ src[i + 2] = Six(d) /\ src[i + 3] = Six(c)
    BY <2>4, LiesFour
  <2>6. CodeAt(i, 3) = CodeOfFour(src[i], src[i + 1], src[i + 2], src[i + 3])
    BY CodeArms
  <2> QED
    BY <2>2, <2>3, <2>5, <2>6
<1> QED
  BY <1>1, <1>2, <1>3, <1>4, SizesAre

----------------------------------------------------------------------------
(* The source and its characters *)

\* The bytes of each character, and what each means.
Texts == [i \in DOMAIN chars |-> IF enc = "HTML" THEN Utf8(chars[i]) ELSE <<chars[i]>>]
Means == [i \in DOMAIN chars |->
           IF enc = "HTML" /\ chars[i] = Replacement THEN <<>> ELSE <<chars[i]>>]

Inputs ==
  /\ enc \in Encoder
  /\ chars \in Seq(Alphabet[enc])
  /\ \E tail \in Tails(enc) : src = Whole \o tail

LEMMA CharIs ==
  ASSUME Inputs
  PROVE  /\ \A i \in 1..Len(chars) : chars[i] \in Nat /\ chars[i] >= 1
         /\ enc = "HTML" => \A i \in 1..Len(chars) : chars[i] \in 1..MaxCodePoint
         /\ enc # "HTML" => \A i \in 1..Len(chars) : chars[i] \in 1..255
<1>1. \A i \in 1..Len(chars) : chars[i] \in Alphabet[enc]
  BY DEF Inputs
<1>2. Alphabet[enc] \subseteq 1..(IF enc = "HTML" THEN MaxCodePoint ELSE 255)
  BY AlphabetAssumption, Zenon DEF Inputs
<1>3. CASE enc = "HTML"
  BY <1>1, <1>2, <1>3, CodePointsAre
<1>4. CASE enc # "HTML"
  <2>1. Alphabet[enc] \subseteq 1..255
    BY <1>2, <1>4, Zenon
  <2>2. \A i \in 1..Len(chars) : chars[i] \in 1..255
    BY <1>1, <2>1, Zenon
  <2>3. \A n \in 1..255 : n \in Nat /\ n >= 1
    OBVIOUS
  <2> QED
    BY <1>4, <2>2, <2>3, Zenon
<1> QED
  BY <1>3, <1>4

LEMMA TextsAre ==
  ASSUME Inputs
  PROVE  /\ Len(chars) \in Nat /\ Len(Texts) = Len(chars) /\ Len(Means) = Len(chars)
         /\ Texts \in Seq(Seq(Nat)) /\ Means \in Seq(Seq(Nat))
         /\ Whole = Seqs!FlattenSeq(Texts) /\ Meant = Seqs!FlattenSeq(Means)
         /\ \A i \in 1..Len(chars) : Texts[i] \in Seq(Nat) /\ Len(Texts[i]) \in Nat /\ Len(Texts[i]) >= 1
<1>0. Len(chars) \in Nat /\ DOMAIN chars = 1..Len(chars)
  BY DEF Inputs
<1>1. Len(Texts) = Len(chars) /\ Len(Means) = Len(chars)
  BY <1>0 DEF Texts, Means
<1>2. ASSUME NEW i \in 1..Len(chars)
      PROVE  /\ Texts[i] \in Seq(Nat) /\ Len(Texts[i]) \in Nat /\ Len(Texts[i]) >= 1
             /\ Means[i] \in Seq(Nat)
  <2>1. <<chars[i]>> \in Seq(Nat) /\ Len(<<chars[i]>>) = 1 /\ <<>> \in Seq(Nat)
    BY CharIs
  <2>2. enc = "HTML" => /\ Utf8(chars[i]) \in Seq(Nat) /\ Len(Utf8(chars[i])) \in Nat
                        /\ Len(Utf8(chars[i])) >= 1
    <3>1. \A n \in 1..4 : n \in Nat /\ n >= 1
      OBVIOUS
    <3> QED
      BY <3>1, CharIs, Utf8Is, Zenon
  <2>3. Means[i] \in Seq(Nat)
    BY <1>0, <2>1, Zenon DEF Means
  <2>4. CASE enc = "HTML"
    <3>1. Texts[i] = Utf8(chars[i])
      BY <1>0, <2>4, Zenon DEF Texts
    <3> QED
      BY <2>2, <2>3, <2>4, <3>1, Zenon
  <2>5. CASE enc # "HTML"
    <3>1. Texts[i] = <<chars[i]>>
      BY <1>0, <2>5, Zenon DEF Texts
    <3> QED
      BY <2>1, <2>3, <3>1
  <2> QED
    BY <2>3, <2>4, <2>5
<1>3. Texts \in Seq(Seq(Nat)) /\ Means \in Seq(Seq(Nat))
  <2>1. Texts = [i \in 1..Len(chars) |-> Texts[i]] /\ Means = [i \in 1..Len(chars) |-> Means[i]]
    BY <1>0 DEF Texts, Means
  <2>2. \A i \in 1..Len(chars) : Texts[i] \in Seq(Nat) /\ Means[i] \in Seq(Nat)
    BY <1>2
  <2> HIDE DEF Texts, Means
  <2> QED
    BY <1>0, <2>1, <2>2
<1>4. Whole = Seqs!FlattenSeq(Texts) /\ Meant = Seqs!FlattenSeq(Means)
  BY Zenon DEF Whole, Meant, Texts, Means
<1> QED
  BY <1>0, <1>1, <1>2, <1>3, <1>4

LEMMA TailsAre ==
  ASSUME Inputs, NEW t \in Tails(enc)
  PROVE  /\ t \in Seq(Nat)
         /\ t \notin {<<>>, <<128>>} =>
              enc = "HTML" /\ \E cp \in 1..MaxCodePoint :
                \E n \in 1..(Len(Utf8(cp)) - 1) : t = SubSeq(Utf8(cp), 1, n)
         /\ enc # "HTML" => t = <<>>
<1>0. <<>> \in Seq(Nat) /\ <<128>> \in Seq(Nat) /\ (enc # "HTML" => t = <<>>)
  BY DEF Tails
<1>1. CASE t = <<>> \/ (t = <<128>> /\ enc = "HTML")
  BY <1>0, <1>1, Zenon
<1>2. CASE enc = "HTML" /\ t \notin {<<>>, <<128>>}
  <2>1. PICK cp \in Alphabet[enc] : \E n \in 1..(Len(Utf8(cp)) - 1) : t = SubSeq(Utf8(cp), 1, n)
    BY <1>2 DEF Tails
  <2>2. cp \in 1..MaxCodePoint
    BY <1>2, AlphabetAssumption, Zenon DEF Inputs
  <2>3. Utf8(cp) \in Seq(Nat) /\ Len(Utf8(cp)) \in 1..4
    BY <2>2, Utf8Is
  <2>4. PICK n \in 1..(Len(Utf8(cp)) - 1) : t = SubSeq(Utf8(cp), 1, n)
    BY <2>1
  <2>5. SubSeq(Utf8(cp), 1, n) \in Seq(Nat)
    <3> DEFINE u == Utf8(cp)
    <3>1. u \in Seq(Nat) /\ n \in 1..Len(u)
      BY <2>3
    <3> HIDE DEF u
    <3>2. SubSeq(u, 1, n) \in Seq(Nat)
      BY <3>1
    <3> QED
      BY <3>2 DEF u
  <2> QED
    BY <1>2, <2>1, <2>2, <2>4, <2>5
<1>3. CASE enc # "HTML"
  <2>1. t = <<>>
    BY <1>3 DEF Tails
  <2> QED
    BY <1>0, <1>3, <2>1, Zenon
<1> QED
  BY <1>1, <1>2, <1>3

\* The source: what is before the character at k + 1, that character's bytes, and the rest.
LEMMA MiddleIs ==
  ASSUME NEW a \in Seq(Nat), NEW b \in Seq(Nat), NEW w \in Seq(Nat)
  PROVE  /\ Len(a \o (b \o w)) = Len(a) + Len(b) + Len(w)
         /\ \A j \in 1..Len(b) : (a \o (b \o w))[Len(a) + j] = b[j]
  OBVIOUS

LEMMA SourceIs ==
  ASSUME Inputs
  PROVE  \E tail \in Tails(enc) : /\ src = Whole \o tail /\ tail \in Seq(Nat) /\ Whole \in Seq(Nat)
                                  /\ src \in Seq(Nat) /\ Len(src) = Len(Whole) + Len(tail)
                                  /\ Whole = Upto(Texts, Len(chars))
<1>1. PICK tail \in Tails(enc) : src = Whole \o tail
  BY Zenon DEF Inputs
<1>2. tail \in Seq(Nat)
  BY TailsAre
<1>3. Whole = Upto(Texts, Len(chars))
  BY TextsAre, UptoIs
<1>4. Whole \in Seq(Nat)
  BY TextsAre, FlattenType
<1>5. src \in Seq(Nat) /\ Len(src) = Len(Whole) + Len(tail)
  BY <1>1, <1>2, <1>4, ConcatProperties
<1> QED
  BY <1>1, <1>2, <1>3, <1>4, <1>5

LEMMA SourceAt ==
  ASSUME Inputs, NEW k \in 0..(Len(chars) - 1)
  PROVE  \E w \in Seq(Nat) : src = Upto(Texts, k) \o (Texts[k + 1] \o w)
<1>1. PICK tail \in Tails(enc) : /\ src = Whole \o tail /\ tail \in Seq(Nat) /\ Whole \in Seq(Nat)
  BY SourceIs
<1>2. /\ Texts \in Seq(Seq(Nat)) /\ Len(Texts) = Len(chars) /\ Len(chars) \in Nat
      /\ Whole = Seqs!FlattenSeq(Texts)
  BY TextsAre
<1>3. k \in Nat /\ k + 1 \in 0..Len(Texts) /\ k \in 0..Len(Texts) /\ k \in 0..(Len(Texts) - 1) /\ k + 1 \in 1..Len(Texts)
  BY <1>2
<1>4. PICK v \in Seq(Nat) : Whole = Upto(Texts, k + 1) \o v
  BY <1>2, <1>3, UptoRest
<1>5. Upto(Texts, k + 1) = Upto(Texts, k) \o Texts[k + 1]
  BY <1>2, <1>3, UptoIs
<1>6. Upto(Texts, k) \in Seq(Nat) /\ Texts[k + 1] \in Seq(Nat) /\ Upto(Texts, k + 1) \in Seq(Nat)
  BY <1>2, <1>3, UptoIs
<1>7. /\ Regroups(Upto(Texts, k + 1), v, tail) /\ Joins(v, tail)
      /\ Regroups(Upto(Texts, k), Texts[k + 1], v \o tail)
  <2>1. v \o tail \in Seq(Nat)
    BY <1>1, ConcatProperties
  <2> QED
    BY <1>1, <1>6, <2>1, Regrouping, Joining
<1>8. src = Upto(Texts, k) \o (Texts[k + 1] \o (v \o tail)) /\ v \o tail \in Seq(Nat)
  BY <1>1, <1>4, <1>5, <1>7, Zenon DEF Regroups, Joins
<1> QED
  BY <1>8

LEMMA PlaceSums ==
  \A l, m, w, p \in Nat : p = l + 1 /\ m >= 1 =>
    /\ p >= 1 /\ p + m = l + m + 1 /\ p + m <= l + m + w + 1 /\ p = l + 1 /\ 1 \in 1..m
    /\ \A j \in 0..(m - 1) : p + j = l + (j + 1) /\ j + 1 \in 1..m
OBVIOUS

\* The place where the character at k + 1 begins, and its bytes.
LEMMA PlaceIs ==
  ASSUME Inputs, NEW k \in 0..(Len(chars) - 1), NEW p, p = Len(Upto(Texts, k)) + 1
  PROVE  /\ p \in Nat /\ p >= 1
         /\ Lies(Texts[k + 1], p)
         /\ p + Len(Texts[k + 1]) = Len(Upto(Texts, k + 1)) + 1
         /\ p + Len(Texts[k + 1]) <= Len(src) + 1
         /\ src[p] = Texts[k + 1][1]
<1> DEFINE a == Upto(Texts, k)
           b == Texts[k + 1]
<1>1. PICK w \in Seq(Nat) : src = a \o (b \o w)
  BY SourceAt
<1>2. /\ Texts \in Seq(Seq(Nat)) /\ Len(Texts) = Len(chars) /\ Len(chars) \in Nat
      /\ \A i \in 1..Len(chars) : Texts[i] \in Seq(Nat) /\ Len(Texts[i]) \in Nat /\ Len(Texts[i]) >= 1
  BY TextsAre
<1>3. k + 1 \in 1..Len(chars) /\ k \in 0..Len(Texts) /\ k \in 0..(Len(Texts) - 1)
  BY <1>2
<1>4. a \in Seq(Nat) /\ Upto(Texts, k + 1) = a \o b
  BY <1>2, <1>3, UptoIs
<1>5. b \in Seq(Nat) /\ Len(b) \in Nat /\ Len(b) >= 1
  BY <1>2, <1>3
<1>6. p = Len(a) + 1 /\ Len(a) \in Nat /\ p \in Nat
  BY <1>4
<1> HIDE DEF a, b
<1>7. Len(src) = Len(a) + Len(b) + Len(w) /\ \A j \in 1..Len(b) : src[Len(a) + j] = b[j]
  BY <1>1, <1>4, <1>5, MiddleIs
<1>8. Len(a \o b) = Len(a) + Len(b) /\ Len(w) \in Nat
  BY <1>4, <1>5, ConcatProperties
<1>9. Lies(b, p)
  <2>1. ASSUME NEW j \in 0..(Len(b) - 1) PROVE src[p + j] = b[j + 1]
    <3>1. p + j = Len(a) + (j + 1) /\ j + 1 \in 1..Len(b)
      BY <1>5, <1>6, <1>8, PlaceSums
    <3> QED
      BY <1>7, <3>1
  <2> QED
    BY <2>1 DEF Lies
<1>10. src[p] = b[1]
  BY <1>5, <1>6, <1>7
<1>11. /\ p \in Nat /\ p >= 1 /\ p + Len(b) = Len(a \o b) + 1 /\ p + Len(b) <= Len(src) + 1
  <2>1. p >= 1 /\ p + Len(b) = Len(a) + Len(b) + 1 /\ p + Len(b) <= Len(a) + Len(b) + Len(w) + 1
    <3> DEFINE l == Len(a)
               m == Len(b)
               n == Len(w)
    <3>1. l \in Nat /\ m \in Nat /\ n \in Nat /\ p = l + 1 /\ m >= 1
      BY <1>5, <1>6, <1>8
    <3> HIDE DEF l, m, n
    <3>2. p >= 1 /\ p + m = l + m + 1 /\ p + m <= l + m + n + 1
      BY <3>1
    <3> QED
      BY <3>2 DEF l, m, n
  <2> QED
    BY <1>6, <1>7, <1>8, <2>1, Zenon
<1> QED
  BY <1>4, <1>9, <1>10, <1>11, Zenon DEF b

----------------------------------------------------------------------------
(* Appending *)

LEMMA AppendedIs ==
  ASSUME NEW calls \in Seq(Seq(Nat)), out \in Seq(Nat), Appended(calls)
  PROVE  \E x \in Seq(Nat) :
           /\ out' = out \o x
           /\ ~lost' => ~lost /\ x = Seqs!FlattenSeq(calls)
           /\ Len(calls) <= 1 => x \in {<<>>, Seqs!FlattenSeq(calls)}
<1> DEFINE Kept(kept) == [i \in DOMAIN calls |-> IF i \in kept THEN calls[i] ELSE <<>>]
<1>0. Len(calls) \in Nat /\ DOMAIN calls = 1..Len(calls) /\ \A i \in 1..Len(calls) : calls[i] \in Seq(Nat)
  OBVIOUS
<1>1. PICK kept \in SUBSET DOMAIN calls :
        /\ out' = out \o Seqs!FlattenSeq(Kept(kept))
        /\ lost' = (lost \/ kept # DOMAIN calls)
  BY Zenon DEF Appended
<1> DEFINE x == Seqs!FlattenSeq(Kept(kept))
<1>2. Kept(kept) \in Seq(Seq(Nat))
  <2>1. \A i \in 1..Len(calls) : (IF i \in kept THEN calls[i] ELSE <<>>) \in Seq(Nat)
    BY <1>0
  <2> QED
    BY <1>0, <2>1
<1>3. kept = DOMAIN calls => Kept(kept) = calls
  BY <1>0
<1>4. x \in Seq(Nat)
  BY <1>2, FlattenType
<1>5. ASSUME Len(calls) <= 1 PROVE x \in {<<>>, Seqs!FlattenSeq(calls)}
  <2>1. CASE kept = DOMAIN calls
    BY <1>3, <2>1
  <2>2. CASE kept # DOMAIN calls
    <3>1. Len(calls) = 1 /\ kept = {}
      <4> DEFINE n == Len(calls)
      <4>1. n \in {0, 1} /\ kept \subseteq 1..n /\ kept # 1..n
        BY <1>0, <1>5, <2>2
      <4> HIDE DEF n
      <4>2. 1..0 = {} /\ 1..1 = {1}
        OBVIOUS
      <4>3. n # 0
        BY <4>1, <4>2
      <4>4. n = 1 /\ kept = {}
        BY <4>1, <4>2, <4>3
      <4> QED
        BY <4>4 DEF n
    <3>2. Kept(kept) = <<<<>>>>
      BY <1>0, <3>1
    <3>3. <<>> \in Seq(Nat)
      OBVIOUS
    <3>4. x = <<>>
      BY <3>2, <3>3, FlattenFew
    <3> QED
      BY <3>4
  <2> QED
    BY <2>1, <2>2
<1>6. ~lost' => ~lost /\ x = Seqs!FlattenSeq(calls)
  BY <1>1, <1>3
<1> HIDE DEF x
<1>7. out' = out \o x
  BY <1>1 DEF x
<1> QED
  BY <1>4, <1>5, <1>6, <1>7

\* What is known of the text o, after the first k characters, when l tells whether an
\* append was refused: for the encoders that append each escape in one call, it reads as
\* some of their meanings however it goes on; and as all of them when none was refused.
InOneCall == {"XML", "URL", "JSON", "HTML"}

Reads(o, l, k) ==
  /\ o \in Seq(Nat)
  /\ ~l => Says(o, Upto(Means, k))
  /\ enc \in InOneCall => \E r \in Seq(Nat) : Says(o, r) /\ PartOf(r, Upto(Means, k))

LEMMA ReadsMore ==
  ASSUME Inputs, NEW k \in 0..(Len(chars) - 1), Reads(out, lost, k),
         NEW calls \in Seq(Seq(Nat)), Appended(calls), enc \in InOneCall => Len(calls) <= 1,
         Says(Seqs!FlattenSeq(calls), Means[k + 1])
  PROVE  Reads(out', lost', k + 1)
<1> DEFINE m == Upto(Means, k)
           v == Means[k + 1]
           t == Seqs!FlattenSeq(calls)
<1>1. /\ m \in Seq(Nat) /\ v \in Seq(Nat) /\ Upto(Means, k + 1) = m \o v
      /\ v = <<>> \/ (v = <<chars[k + 1]>> /\ chars[k + 1] \in Nat)
  <2>1. Means \in Seq(Seq(Nat)) /\ Len(Means) = Len(chars) /\ Len(chars) \in Nat
    BY TextsAre
  <2>2. k \in 0..Len(Means) /\ k \in 0..(Len(Means) - 1) /\ k + 1 \in 1..Len(Means) /\ k + 1 \in DOMAIN chars
    BY <2>1 DEF Inputs
  <2>3. Upto(Means, k) \in Seq(Nat) /\ Upto(Means, k + 1) = Upto(Means, k) \o Means[k + 1]
    BY <2>1, <2>2, UptoIs
  <2>4. Means[k + 1] \in Seq(Nat)
    BY <2>1, <2>2
  <2>5. Means[k + 1] = <<>> \/ (Means[k + 1] = <<chars[k + 1]>> /\ chars[k + 1] \in Nat)
    BY <2>1, <2>2, CharIs DEF Means
  <2> QED
    BY <2>3, <2>4, <2>5
<1>2. PICK x \in Seq(Nat) :
           /\ out' = out \o x
           /\ ~lost' => ~lost /\ x = t
           /\ Len(calls) <= 1 => x \in {<<>>, t}
  BY AppendedIs DEF Reads
<1>3. t \in Seq(Nat) /\ Says(t, v)
  BY FlattenType
<1> HIDE DEF m, v, t
<1>4. out' \in Seq(Nat)
  BY <1>2, ConcatProperties DEF Reads
<1>5. ASSUME ~lost' PROVE Says(out', m \o v)
  <2>1. Says(out, m) /\ out \in Seq(Nat)
    BY <1>2, <1>5 DEF Reads, m
  <2>2. Says(out \o t, m \o v)
    BY <1>1, <1>3, <2>1, SaysConcat
  <2> QED
    BY <1>2, <1>5, <2>2
<1>6. ASSUME enc \in InOneCall
      PROVE  \E r \in Seq(Nat) : Says(out', r) /\ PartOf(r, m \o v)
  <2>1. PICK r \in Seq(Nat) : Says(out, r) /\ PartOf(r, m)
    BY <1>6 DEF Reads, m
  <2>2. out \in Seq(Nat)
    BY DEF Reads
  <2>3. CASE x = <<>>
    <3>1. out' = out
      BY <1>2, <2>2, <2>3, ConcatEmptySeq
    <3> QED
      BY <1>1, <2>1, <3>1, PartOfMore
  <2>4. CASE x = t /\ v = <<>>
    <3>1. Says(out \o t, r \o v)
      BY <1>1, <1>3, <2>1, <2>2, SaysConcat
    <3>2. r \o v = r /\ m \o v = m
      BY <1>1, <2>4, ConcatEmptySeq
    <3> QED
      BY <1>2, <2>1, <2>4, <3>1, <3>2
  <2>5. CASE x = t /\ v = <<chars[k + 1]>> /\ chars[k + 1] \in Nat
    <3>1. Says(out \o t, r \o v)
      BY <1>1, <1>3, <2>1, <2>2, SaysConcat
    <3>2. PartOf(r \o v, m \o v)
      BY <1>1, <2>1, <2>5, PartOfBoth
    <3>3. r \o v \in Seq(Nat)
      BY <1>1, <2>1, ConcatProperties
    <3> QED
      BY <1>2, <2>5, <3>1, <3>2, <3>3
  <2> QED
    BY <1>1, <1>2, <1>6, <2>3, <2>4, <2>5
<1> QED
  BY <1>1, <1>4, <1>5, <1>6, Zenon DEF Reads, m, v

----------------------------------------------------------------------------
(* The turns *)

LEMMA OneText ==
  ASSUME NEW calls, NEW v, \E t \in Seq(Nat) : calls = <<t>> /\ Says(t, v)
  PROVE  calls \in Seq(Seq(Nat)) /\ Len(calls) <= 1 /\ Says(Seqs!FlattenSeq(calls), v)
<1>1. PICK t \in Seq(Nat) : calls = <<t>> /\ Says(t, v)
  OBVIOUS
<1>2. <<t>> \in Seq(Seq(Nat)) /\ Len(<<t>>) <= 1
  OBVIOUS
<1>3. Seqs!FlattenSeq(<<t>>) = t
  BY FlattenFew
<1> QED
  BY <1>1, <1>2, <1>3, Zenon

LEMMA CallsSay ==
  ASSUME Inputs, Claimed, enc # "HTML", NEW i \in 1..Len(chars)
  PROVE  /\ Calls(chars[i]) \in Seq(Seq(Nat))
         /\ enc \in InOneCall => Len(Calls(chars[i])) <= 1
         /\ Says(Seqs!FlattenSeq(Calls(chars[i])), <<chars[i]>>)
<1> DEFINE c == chars[i]
<1>1. c \in 1..255
  BY CharIs
<1>2. (enc = "URL" => c # Percent) /\ (enc = "JSON" => ~Control(c)) /\ (enc = "regex" => c \notin RegexMissed)
  <2>1. c \in Seqs!Range(chars)
    BY DEF Inputs, Seqs!Range
  <2> HIDE DEF c
  <2> QED
    BY <2>1 DEF Claimed
<1>3. enc \in {"XML", "URL", "JSON", "regex", "SQL"}
  BY EncoderAssumption DEF Inputs, Encoders, Claimed
<1> HIDE DEF c
<1>4. CASE enc = "XML"
  <2>1. Calls(c) = XmlCalls(c)
    BY <1>4 DEF Calls
  <2> QED
    BY <1>1, <1>4, <2>1, XmlSays, OneText DEF c
<1>5. CASE enc = "URL"
  <2>1. Calls(c) = UrlCalls(c)
    BY <1>5 DEF Calls
  <2> QED
    BY <1>1, <1>2, <1>5, <2>1, UrlSays, OneText DEF c
<1>6. CASE enc = "JSON"
  <2>1. Calls(c) = JsonCalls(c)
    BY <1>6 DEF Calls
  <2> QED
    BY <1>1, <1>2, <1>6, <2>1, JsonSays, OneText DEF c
<1>7. CASE enc = "regex"
  <2>1. Calls(c) = RegexCalls(c) /\ enc \notin InOneCall
    BY <1>7 DEF Calls, InOneCall
  <2> QED
    BY <1>1, <1>2, <1>7, <2>1, RegexSays DEF c
<1>8. CASE enc = "SQL"
  <2>1. Calls(c) = SqlCalls(c) /\ enc \notin InOneCall
    BY <1>8 DEF Calls, InOneCall
  <2> QED
    BY <1>1, <1>8, <2>1, SqlSays DEF c
<1> QED
  BY <1>3, <1>4, <1>5, <1>6, <1>7, <1>8

LEMMA HtmlCallsSay ==
  ASSUME Inputs, Claimed, enc = "HTML", NEW i \in 1..Len(chars)
  PROVE  /\ HtmlCalls(chars[i]) \in Seq(Seq(Nat))
         /\ Len(HtmlCalls(chars[i])) <= 1
         /\ Says(Seqs!FlattenSeq(HtmlCalls(chars[i])), Means[i])
<1> DEFINE c == chars[i]
<1>1. c \in 1..MaxCodePoint /\ i \in DOMAIN chars
  BY CharIs DEF Inputs
<1>2. c # 226
  <2>1. c \in Seqs!Range(chars)
    BY <1>1 DEF Seqs!Range
  <2> HIDE DEF c
  <2> QED
    BY <2>1, Zenon DEF Claimed
<1>3. CASE c = Replacement
  <2>1. Means[i] = <<>>
    BY <1>1, <1>3, Zenon DEF Means
  <2>2. HtmlCalls(c) = <<>>
    <3>1. c \notin {Quote, Lt, Gt, Amp, Euro} \cup (160..255 \ {226}) /\ ~Printable(c)
      BY <1>3 DEF Replacement, Quote, Lt, Gt, Amp, Euro, Printable
    <3> HIDE DEF c
    <3> QED
      BY <1>2, <1>3, <3>1, Zenon DEF HtmlCalls
  <2>3. <<>> \in Seq(Seq(Nat)) /\ Len(<<>>) <= 1 /\ Seqs!FlattenSeq(<<>>) = <<>>
    <3>1. <<>> \in Seq(Nat) /\ <<>> \in Seq(Seq(Nat)) /\ Len(<<>>) <= 1
      OBVIOUS
    <3> QED
      BY <3>1, FlattenFew
  <2> QED
    BY <2>1, <2>2, <2>3, NothingSays, Zenon
<1>4. CASE c # Replacement
  <2>1. Means[i] = <<c>>
    BY <1>1, <1>4, Zenon DEF Means
  <2>2. \E t \in Seq(Nat) : HtmlCalls(c) = <<t>> /\ Says(t, <<c>>)
    BY <1>1, <1>2, <1>4, HtmlSays
  <2> HIDE DEF c
  <2>3. HtmlCalls(c) \in Seq(Seq(Nat)) /\ Len(HtmlCalls(c)) <= 1 /\ Says(Seqs!FlattenSeq(HtmlCalls(c)), <<c>>)
    BY <2>2, OneText
  <2> QED
    BY <2>1, <2>3 DEF c
<1> QED
  BY <1>3, <1>4

\* The next character, or the end of its source, is at pos.
Reached(k) ==
  \/ pos = Len(Upto(Texts, k)) + 1
  \/ k = Len(chars) /\ enc = "HTML" /\ src = Whole \o <<128>> /\ pos = Len(src) + 1

\* What it answers.
Ended ==
  \/ ret = "none"
  \/ ret = "str" /\ pos = Len(src) + 1 /\ ~EndsCut
  \/ ret = "NULL" /\ EndsCut

EncInv ==
  /\ Inputs
  /\ \E k \in 0..Len(chars) : Reached(k) /\ (Claimed => Reads(out, lost, k))
  /\ Ended

LEMMA UptoStarts == \A ss : Upto(ss, 0) = <<>>
<1>1. SUFFICES ASSUME NEW ss PROVE Upto(ss, 0) = <<>>
  OBVIOUS
<1>2. SubSeq(ss, 1, 0) = <<>> /\ <<>> \in Seq(Seq(Nat))
  OBVIOUS
<1> QED
  BY <1>2, FlattenIs DEF Upto

\* pos is never beyond the byte that ends the source.
LEMMA ReachedIs ==
  ASSUME Inputs, NEW k \in 0..Len(chars), Reached(k)
  PROVE  /\ Len(src) \in Nat /\ pos \in 1..(Len(src) + 1)
         /\ k < Len(chars) => pos <= Len(src) /\ pos = Len(Upto(Texts, k)) + 1
<1>0. Len(chars) \in Nat
  BY TextsAre
<1>1. PICK tail \in Tails(enc) : /\ src = Whole \o tail /\ tail \in Seq(Nat) /\ Whole \in Seq(Nat)
                                  /\ src \in Seq(Nat) /\ Len(src) = Len(Whole) + Len(tail)
                                  /\ Whole = Upto(Texts, Len(chars))
  BY SourceIs
<1>2. Len(src) \in Nat /\ Len(Whole) \in Nat /\ Len(tail) \in Nat
  BY <1>1
<1>3. CASE k < Len(chars)
  <2>1. k \in 0..(Len(chars) - 1) /\ k + 1 \in 1..Len(chars)
    BY <1>0, <1>3
  <2>2. pos = Len(Upto(Texts, k)) + 1
    BY <1>0, <1>3 DEF Reached
  <2>3. pos \in Nat /\ pos >= 1 /\ pos + Len(Texts[k + 1]) <= Len(src) + 1
    BY <2>1, <2>2, PlaceIs
  <2>4. Len(Texts[k + 1]) \in Nat /\ Len(Texts[k + 1]) >= 1
    BY <2>1, TextsAre
  <2>5. pos <= Len(src)
    BY <1>2, <2>3, <2>4
  <2> QED
    BY <1>2, <2>2, <2>3, <2>5
<1>4. CASE k = Len(chars)
  <2>1. pos = Len(Whole) + 1 \/ pos = Len(src) + 1
    BY <1>1, <1>4 DEF Reached
  <2>2. pos \in 1..(Len(src) + 1)
    <3> DEFINE l == Len(src)
               m == Len(Whole)
               n == Len(tail)
    <3>1. l \in Nat /\ m \in Nat /\ n \in Nat /\ l = m + n /\ (pos = m + 1 \/ pos = l + 1)
      BY <1>1, <1>2, <2>1
    <3> HIDE DEF l, m, n
    <3>2. pos \in 1..(l + 1)
      BY <3>1
    <3> QED
      BY <3>2 DEF l
  <2> QED
    BY <1>0, <1>2, <1>4, <2>2
<1> QED
  BY <1>0, <1>3, <1>4

LEMMA InitReaches == EncoderInit => EncInv
<1> SUFFICES ASSUME EncoderInit PROVE EncInv
  OBVIOUS
<1>1. Inputs
  <2>1. chars \in Seq(Alphabet[enc])
    BY AlphabetAssumption DEF EncoderInit, Seqs!BoundedSeq, Seqs!SeqOf
  <2> QED
    BY <2>1, Zenon DEF EncoderInit, Inputs
<1>2. 0 \in 0..Len(chars)
  BY <1>1, TextsAre
<1>3. Reached(0)
  <2>1. Len(Upto(Texts, 0)) = 0
    BY UptoStarts
  <2> QED
    BY <2>1 DEF Reached, EncoderInit
<1>4. Reads(out, lost, 0)
  <2>1. out = <<>> /\ Upto(Means, 0) = <<>> /\ <<>> \in Seq(Nat)
    BY UptoStarts DEF EncoderInit
  <2> QED
    BY <2>1, NothingSays, NothingIsPart DEF Reads
<1>5. Ended
  BY DEF EncoderInit, Ended
<1> QED
  BY <1>1, <1>2, <1>3, <1>4, <1>5 DEF EncInv

LEMMA SameInputs ==
  ASSUME UNCHANGED input
  PROVE  /\ Inputs' <=> Inputs
         /\ Claimed' <=> Claimed
         /\ EndsCut' <=> EndsCut
         /\ Texts' = Texts /\ Whole' = Whole /\ src' = src /\ chars' = chars /\ enc' = enc
<1>1. enc' = enc /\ chars' = chars /\ src' = src
  BY DEF input
<1>2. Texts' = Texts /\ Whole' = Whole
  BY <1>1 DEF Texts, Whole
<1>3. Inputs' <=> Inputs
  BY <1>1, <1>2 DEF Inputs
<1>4. Claimed' <=> Claimed
  BY <1>1, <1>2 DEF Claimed
<1>5. EndsCut' <=> EndsCut
  BY <1>1, <1>2 DEF EndsCut
<1> QED
  BY <1>1, <1>2, <1>3, <1>4, <1>5

\* What is known of the string where nothing is appended.
LEMMA StaysRead ==
  ASSUME UNCHANGED <<input, pos, out, lost>>, Inputs,
         NEW k \in 0..Len(chars), Reached(k), Claimed => Reads(out, lost, k)
  PROVE  Inputs' /\ \E j \in 0..Len(chars') : Reached(j)' /\ (Claimed => Reads(out, lost, j))'
<1>1. UNCHANGED input /\ pos' = pos /\ out' = out /\ lost' = lost
  OBVIOUS
<1>2. Inputs' /\ (Claimed' <=> Claimed) /\ chars' = chars
  BY <1>1, SameInputs
<1>3. Reached(k)'
  BY <1>1, SameInputs DEF Reached
<1>4. Reads(out, lost, k)' <=> Reads(out, lost, k)
  <2>1. enc' = enc /\ chars' = chars
    BY DEF input
  <2>2. \A s, r : Says(s, r)' <=> Says(s, r)
    BY <2>1 DEF Says, Read, Piece
  <2>3. Means' = Means
    BY <2>1 DEF Means
  <2> QED
    BY <1>1, <2>1, <2>2, <2>3 DEF Reads
<1> QED
  BY <1>2, <1>3, <1>4

\* The invariant after a turn of a loop that goes on.
LEMMA GoesOn ==
  ASSUME Inputs, Ended, UNCHANGED <<input, ret>>, ret = "none",
         NEW k \in 0..Len(chars), Reached(k)', Claimed => Reads(out', lost', k)
  PROVE  EncInv'
<1>1. UNCHANGED input /\ ret' = "none"
  OBVIOUS
<1>2. Inputs' /\ (Claimed' <=> Claimed) /\ chars' = chars
  BY <1>1, SameInputs
<1>3. Claimed' => Reads(out, lost, k)'
  <2>1. Reads(out, lost, k)' <=> Reads(out', lost', k)
    <3>1. enc' = enc /\ chars' = chars
      BY DEF input
    <3>2. \A s, r : Says(s, r)' <=> Says(s, r)
      BY <3>1 DEF Says, Read, Piece
    <3>3. Means' = Means
      BY <3>1 DEF Means
    <3> QED
      BY <3>1, <3>2, <3>3 DEF Reads
  <2> QED
    BY <1>2, <2>1
<1>4. Ended'
  BY <1>1 DEF Ended
<1> QED
  BY <1>2, <1>3, <1>4 DEF EncInv

\* What a turn finds: a character, or the tail.
LEMMA TurnIs ==
  ASSUME Inputs, enc # "HTML", Turn, NEW k \in 0..Len(chars), Reached(k)
  PROVE  k < Len(chars) /\ src[pos] = chars[k + 1] /\ pos' = Len(Upto(Texts, k + 1)) + 1
<1>0. Len(chars) \in Nat
  BY TextsAre
<1>1. k < Len(chars)
  <2>1. PICK tail \in Tails(enc) : /\ src = Whole \o tail /\ tail \in Seq(Nat) /\ Whole \in Seq(Nat)
                                    /\ Whole = Upto(Texts, Len(chars))
    BY SourceIs
  <2>2. tail = <<>>
    BY TailsAre
  <2>3. src = Whole
    BY <2>1, <2>2, ConcatEmptySeq
  <2>4. pos <= Len(src)
    BY DEF Turn
  <2>5. Len(src) \in Nat
    BY <2>1, <2>3
  <2>6. pos # Len(src) + 1
    BY <2>4, <2>5, ReachedIs
  <2>7. k # Len(chars)
    BY <2>1, <2>3, <2>6, Zenon DEF Reached
  <2> QED
    BY <1>0, <2>7
<1>2. k \in 0..(Len(chars) - 1) /\ k + 1 \in 1..Len(chars) /\ pos = Len(Upto(Texts, k)) + 1
  BY <1>0, <1>1, ReachedIs
<1>3. src[pos] = Texts[k + 1][1] /\ pos + Len(Texts[k + 1]) = Len(Upto(Texts, k + 1)) + 1
  BY <1>2, PlaceIs
<1>4. Texts[k + 1] = <<chars[k + 1]>>
  <2>1. k + 1 \in DOMAIN chars
    BY <1>2 DEF Inputs
  <2> QED
    BY <2>1, Zenon DEF Texts
<1>5. Texts[k + 1][1] = chars[k + 1] /\ Len(Texts[k + 1]) = 1
  BY <1>4
<1> QED
  BY <1>1, <1>3, <1>5 DEF Turn

LEMMA TurnReads == EncInv /\ Turn => EncInv'
<1> SUFFICES ASSUME EncInv, Turn PROVE EncInv'
  OBVIOUS
<1>1. Inputs /\ Ended /\ enc # "HTML" /\ ret = "none" /\ UNCHANGED <<input, ret>>
  BY DEF EncInv, Turn
<1>2. PICK k \in 0..Len(chars) : Reached(k) /\ (Claimed => Reads(out, lost, k))
  BY DEF EncInv
<1>3. k < Len(chars) /\ src[pos] = chars[k + 1] /\ pos' = Len(Upto(Texts, k + 1)) + 1
  BY <1>1, <1>2, TurnIs
<1>4. k + 1 \in 0..Len(chars) /\ k \in 0..(Len(chars) - 1) /\ k + 1 \in 1..Len(chars)
  BY <1>1, <1>3, TextsAre
<1>5. Reached(k + 1)'
  BY <1>1, <1>3, SameInputs DEF Reached
<1>6. ASSUME Claimed PROVE Reads(out', lost', k + 1)
  <2>1. /\ Calls(chars[k + 1]) \in Seq(Seq(Nat))
        /\ enc \in InOneCall => Len(Calls(chars[k + 1])) <= 1
        /\ Says(Seqs!FlattenSeq(Calls(chars[k + 1])), <<chars[k + 1]>>)
    BY <1>1, <1>4, <1>6, CallsSay
  <2>2. Appended(Calls(chars[k + 1]))
    BY <1>3 DEF Turn
  <2>3. Means[k + 1] = <<chars[k + 1]>>
    <3>1. k + 1 \in DOMAIN chars
      BY <1>1, <1>4 DEF Inputs
    <3> QED
      BY <1>1, <3>1, Zenon DEF Means
  <2> QED
    BY <1>1, <1>2, <1>4, <1>6, <2>1, <2>2, <2>3, ReadsMore
<1> QED
  BY <1>1, <1>4, <1>5, <1>6, GoesOn

\* The ends of a source that are the first bytes of a character.
CutTails == Tails(enc) \ {<<>>, <<128>>}

\* The bytes of a character that is cut short say that more follow.
LEMMA CutSays ==
  ASSUME Inputs, NEW tail \in CutTails
  PROVE  Follow(tail[1]) \in Nat /\ Follow(tail[1]) >= Len(tail)
<1>1. PICK cp \in 1..MaxCodePoint : \E n \in 1..(Len(Utf8(cp)) - 1) : tail = SubSeq(Utf8(cp), 1, n)
  <2>1. tail \in Tails(enc) /\ tail \notin {<<>>, <<128>>}
    BY DEF CutTails
  <2> QED
    BY <2>1, TailsAre
<1>2. PICK n \in 1..(Len(Utf8(cp)) - 1) : tail = SubSeq(Utf8(cp), 1, n)
  BY <1>1
<1> DEFINE u == Utf8(cp)
<1>3. u \in Seq(Nat) /\ Len(u) \in 1..4 /\ Follow(u[1]) = Len(u) - 1
  BY Utf8Is
<1>4. n \in 1..(Len(u) - 1) /\ tail = SubSeq(u, 1, n)
  BY <1>2
<1> HIDE DEF u
<1>5. tail[1] = u[1] /\ Len(tail) = n
  BY <1>3, <1>4
<1> QED
  BY <1>3, <1>4, <1>5

\* What a turn of STR_utf8toHTML's loop finds at the end: nothing, the byte that begins
\* no character, or the first bytes of one.
LEMMA TailIs ==
  ASSUME Inputs, Reached(Len(chars)), pos <= Len(src)
  PROVE  \E tail \in Tails(enc) : /\ src = Whole \o tail /\ tail # <<>> /\ src[pos] = tail[1]
                                  /\ pos + Len(tail) = Len(src) + 1
                                  /\ Len(tail) \in Nat /\ tail \in Seq(Nat)
<1>1. PICK tail \in Tails(enc) : /\ src = Whole \o tail /\ tail \in Seq(Nat) /\ Whole \in Seq(Nat)
                                  /\ src \in Seq(Nat) /\ Len(src) = Len(Whole) + Len(tail)
                                  /\ Whole = Upto(Texts, Len(chars))
  BY SourceIs
<1>2. Len(src) \in Nat /\ Len(Whole) \in Nat /\ Len(tail) \in Nat
  BY <1>1
<1>3. pos = Len(Whole) + 1
  BY <1>1, <1>2 DEF Reached
<1>4. Len(tail) >= 1
  BY <1>1, <1>2, <1>3
<1>5. tail # <<>>
  BY <1>4
<1>6. (Whole \o tail)[Len(Whole) + 1] = tail[1]
  BY <1>1, <1>4
<1>7. pos + Len(tail) = Len(src) + 1
  BY <1>1, <1>2, <1>3
<1> QED
  BY <1>1, <1>2, <1>3, <1>5, <1>6, <1>7

LEMMA HtmlFinds ==
  ASSUME Inputs, enc = "HTML", NEW k \in 0..(Len(chars) - 1), pos = Len(Upto(Texts, k)) + 1
  PROVE  /\ Follow(src[pos]) = Len(Utf8(chars[k + 1])) - 1
         /\ CodeAt(pos, Follow(src[pos])) = chars[k + 1]
         /\ Follow(src[pos]) \in Nat /\ pos \in Nat
         /\ pos + Follow(src[pos]) + 1 = Len(Upto(Texts, k + 1)) + 1
         /\ pos + Follow(src[pos]) <= Len(src)
<1>0. Len(chars) \in Nat /\ k + 1 \in 1..Len(chars) /\ k + 1 \in DOMAIN chars
  BY TextsAre DEF Inputs
<1> DEFINE c == chars[k + 1]
           u == Utf8(c)
<1>1. c \in 1..MaxCodePoint
  BY <1>0, CharIs
<1>2. Texts[k + 1] = u
  BY <1>0, Zenon DEF Texts
<1>3. /\ pos \in Nat /\ Lies(Texts[k + 1], pos)
      /\ pos + Len(Texts[k + 1]) = Len(Upto(Texts, k + 1)) + 1
      /\ pos + Len(Texts[k + 1]) <= Len(src) + 1
      /\ src[pos] = Texts[k + 1][1]
  BY PlaceIs
<1>4. Len(u) \in 1..4 /\ Follow(u[1]) = Len(u) - 1
  BY <1>1, Utf8Is
<1>5. CodeAt(pos, Len(u) - 1) = c
  <2>1. Lies(Utf8(c), pos)
    BY <1>2, <1>3, Zenon
  <2> HIDE DEF c
  <2> QED
    BY <1>1, <1>3, <2>1, CodeIs
<1>6. Follow(src[pos]) = Len(u) - 1
  BY <1>2, <1>3, <1>4, Zenon
<1>7. Len(src) \in Nat
  BY SourceIs
<1> HIDE DEF c, u
<1>8. CodeAt(pos, Follow(src[pos])) = c
  BY <1>5, <1>6, Zenon
<1> DEFINE n == Len(u)
<1>9. n \in 1..4 /\ pos + n = Len(Upto(Texts, k + 1)) + 1 /\ pos + n <= Len(src) + 1
  BY <1>2, <1>3, <1>4, Zenon
<1> HIDE DEF n
<1>10. n - 1 \in Nat /\ pos + (n - 1) + 1 = Len(Upto(Texts, k + 1)) + 1 /\ pos + (n - 1) <= Len(src)
  BY <1>3, <1>7, <1>9
<1> QED
  BY <1>3, <1>6, <1>8, <1>10, Zenon DEF c, u, n

LEMMA TurnHTMLReads == EncInv /\ TurnHTML => EncInv'
<1> SUFFICES ASSUME EncInv, TurnHTML PROVE EncInv'
  OBVIOUS
<1>1. Inputs /\ Ended /\ enc = "HTML" /\ ret = "none" /\ UNCHANGED <<input, ret>>
  BY DEF EncInv, TurnHTML
<1>2. PICK k \in 0..Len(chars) : Reached(k) /\ (Claimed => Reads(out, lost, k))
  BY DEF EncInv
<1> DEFINE n == Follow(src[pos])
<1>3. /\ pos <= Len(src) /\ pos + n <= Len(src) /\ pos' = pos + n + 1
      /\ code' = CodeAt(pos, n) /\ Appended(HtmlCalls(code'))
  BY DEF TurnHTML
<1>4. Len(chars) \in Nat /\ Len(src) \in Nat
  BY <1>1, TextsAre, SourceIs
<1>5. CASE k < Len(chars)
  <2>1. k + 1 \in 0..Len(chars) /\ k \in 0..(Len(chars) - 1) /\ k + 1 \in 1..Len(chars)
    BY <1>4, <1>5
  <2>2. pos = Len(Upto(Texts, k)) + 1
    BY <1>1, <1>2, <1>5, ReachedIs
  <2>3. CodeAt(pos, n) = chars[k + 1] /\ pos + n + 1 = Len(Upto(Texts, k + 1)) + 1
    BY <1>1, <2>1, <2>2, HtmlFinds
  <2> HIDE DEF n
  <2>4. code' = chars[k + 1] /\ pos' = Len(Upto(Texts, k + 1)) + 1
    BY <1>3, <2>3, Zenon
  <2>5. Reached(k + 1)'
    BY <1>1, <2>4, SameInputs DEF Reached
  <2>6. ASSUME Claimed PROVE Reads(out', lost', k + 1)
    <3>1. /\ HtmlCalls(chars[k + 1]) \in Seq(Seq(Nat))
          /\ Len(HtmlCalls(chars[k + 1])) <= 1
          /\ Says(Seqs!FlattenSeq(HtmlCalls(chars[k + 1])), Means[k + 1])
      BY <1>1, <2>1, <2>6, HtmlCallsSay
    <3>2. Appended(HtmlCalls(chars[k + 1]))
      BY <1>3, <2>4, Zenon
    <3> QED
      BY <1>1, <1>2, <2>1, <2>6, <3>1, <3>2, ReadsMore
  <2> QED
    BY <1>1, <2>1, <2>5, <2>6, GoesOn
<1>6. CASE k = Len(chars)
  <2>1. PICK tail \in Tails(enc) : /\ src = Whole \o tail /\ tail # <<>> /\ src[pos] = tail[1]
                                   /\ pos + Len(tail) = Len(src) + 1
                                   /\ Len(tail) \in Nat
    BY <1>1, <1>2, <1>3, <1>6, TailIs
  <2>2. pos \in Nat
    BY <1>1, <1>2, <1>4, ReachedIs
  <2>3. tail = <<128>>
    <3>1. ASSUME tail \in CutTails PROVE FALSE
      <4>1. n \in Nat /\ n >= Len(tail)
        BY <1>1, <2>1, <3>1, CutSays
      <4> HIDE DEF n
      <4> QED
        BY <1>3, <1>4, <2>1, <2>2, <4>1
    <3> QED
      BY <2>1, <3>1, Zenon DEF CutTails
  <2>4. n = 0
    <3>1. src[pos] = 128
      BY <2>1, <2>3
    <3> QED
      BY <3>1 DEF Follow
  <2> HIDE DEF n
  <2>5. pos' = Len(src) + 1
    <3>1. Len(tail) = 1
      BY <2>3
    <3>2. pos' = pos + 1
      BY <1>3, <2>2, <2>4
    <3> QED
      BY <2>1, <3>1, <3>2
  <2>6. Reached(k)'
    BY <1>1, <1>6, <2>1, <2>3, <2>5, SameInputs DEF Reached
  <2>7. ~Claimed
    <3>1. Whole \in Seq(Nat) /\ Len(src) = Len(Whole) + Len(tail)
      <4>1. Whole \in Seq(Nat)
        BY <1>1, SourceIs
      <4>2. <<128>> \in Seq(Nat) /\ tail \in Seq(Nat)
        BY <2>3
      <4> QED
        BY <2>1, <4>1, <4>2, ConcatProperties
    <3>2. Len(tail) = 1 /\ Len(Whole) \in Nat
      BY <2>3, <3>1
    <3>3. src # Whole
      BY <3>1, <3>2
    <3> QED
      BY <1>1, <3>3, Zenon DEF Claimed
  <2> QED
    BY <1>1, <2>6, <2>7, GoesOn
<1> QED
  BY <1>4, <1>5, <1>6

LEMMA CutAnswers == EncInv /\ EndsTooSoon => EncInv'
<1> SUFFICES ASSUME EncInv, EndsTooSoon PROVE EncInv'
  OBVIOUS
<1>1. /\ Inputs /\ enc = "HTML" /\ UNCHANGED <<input, pos, out, lost>>
      /\ pos <= Len(src) /\ pos + Follow(src[pos]) > Len(src) /\ ret' = "NULL"
  BY DEF EncInv, EndsTooSoon
<1>2. PICK k \in 0..Len(chars) : Reached(k) /\ (Claimed => Reads(out, lost, k))
  BY DEF EncInv
<1>3. Len(chars) \in Nat /\ Len(src) \in Nat
  BY <1>1, TextsAre, SourceIs
<1>4. k = Len(chars)
  <2>1. SUFFICES ASSUME k # Len(chars) PROVE FALSE
    OBVIOUS
  <2>2. k < Len(chars) /\ k \in 0..(Len(chars) - 1)
    BY <1>3, <2>1
  <2>3. pos = Len(Upto(Texts, k)) + 1
    BY <1>1, <1>2, <2>2, ReachedIs
  <2>4. pos + Follow(src[pos]) <= Len(src) /\ Follow(src[pos]) \in Nat /\ pos \in Nat
    BY <1>1, <2>2, <2>3, HtmlFinds
  <2> QED
    BY <1>1, <1>3, <2>4
<1>5. PICK tail \in Tails(enc) : /\ src = Whole \o tail /\ tail # <<>> /\ src[pos] = tail[1]
                                 /\ pos + Len(tail) = Len(src) + 1
                                 /\ Len(tail) \in Nat
  BY <1>1, <1>2, <1>4, TailIs
<1>6. tail # <<128>>
  <2>1. src[pos] # 128
    <3>1. SUFFICES ASSUME src[pos] = 128 PROVE FALSE
      OBVIOUS
    <3>2. Follow(src[pos]) = 0
      BY <3>1 DEF Follow
    <3>3. pos \in Nat
      BY <1>1, <1>2, ReachedIs
    <3> QED
      BY <1>1, <1>3, <3>2, <3>3
  <2> QED
    BY <1>5, <2>1
<1>7. EndsCut
  BY <1>5, <1>6, Zenon DEF EndsCut
<1>8. Ended'
  BY <1>1, <1>7, SameInputs DEF Ended
<1> QED
  BY <1>1, <1>2, <1>8, StaysRead DEF EncInv

\* A source that ends within a character is never read to its end.
LEMMA WholeRead ==
  ASSUME Inputs, NEW k \in 0..Len(chars), Reached(k), pos > Len(src)
  PROVE  ~EndsCut /\ pos = Len(src) + 1 /\ k = Len(chars)
<1>1. Len(src) \in Nat /\ pos \in 1..(Len(src) + 1) /\ Len(chars) \in Nat
  BY ReachedIs, TextsAre
<1>2. k = Len(chars)
  BY <1>1, ReachedIs
<1>3. SUFFICES ASSUME EndsCut PROVE FALSE
  BY <1>1, <1>2
<1>4. PICK tail \in Tails(enc) : tail \notin {<<>>, <<128>>} /\ src = Whole \o tail
  BY <1>3, Zenon DEF EndsCut
<1>5. tail \in Seq(Nat) /\ Whole \in Seq(Nat) /\ Whole = Upto(Texts, Len(chars))
  BY TailsAre, SourceIs
<1>6. CASE pos = Len(Upto(Texts, k)) + 1
  <2>1. Len(src) = Len(Whole) + Len(tail) /\ Len(Whole) \in Nat /\ Len(tail) \in Nat
    BY <1>4, <1>5, ConcatProperties
  <2>2. Len(tail) # 0
    BY <1>4, <1>5, EmptySeq
  <2> QED
    BY <1>2, <1>5, <1>6, <2>1, <2>2
<1>7. CASE src = Whole \o <<128>>
  <2>1. <<128>> \in Seq(Nat) /\ Whole \o <<128>> = Whole \o tail
    BY <1>4, <1>7
  <2>2. tail = <<128>>
    <3>1. \A s, u, v \in Seq(Nat) : s \o u = s \o v => u = v
      BY ConcatSimplifications, Zenon
    <3> QED
      BY <1>5, <2>1, <3>1, Zenon
  <2> QED
    BY <1>4, <2>2
<1> QED
  BY <1>2, <1>6, <1>7 DEF Reached

LEMMA ReturnAnswers == EncInv /\ Return => EncInv'
<1> SUFFICES ASSUME EncInv, Return PROVE EncInv'
  OBVIOUS
<1>1. Inputs /\ UNCHANGED <<input, pos, out, lost>> /\ pos > Len(src) /\ ret' = "str"
  BY DEF EncInv, Return
<1>2. PICK k \in 0..Len(chars) : Reached(k) /\ (Claimed => Reads(out, lost, k))
  BY DEF EncInv
<1>3. ~EndsCut /\ pos = Len(src) + 1
  BY <1>1, <1>2, WholeRead
<1>4. Ended'
  BY <1>1, <1>3, SameInputs DEF Ended
<1> QED
  BY <1>1, <1>2, <1>4, StaysRead DEF EncInv

LEMMA NothingReads == EncInv /\ UNCHANGED encoderVars => EncInv'
<1> SUFFICES ASSUME EncInv, UNCHANGED encoderVars PROVE EncInv'
  OBVIOUS
<1>1. Inputs /\ Ended /\ UNCHANGED <<input, pos, out, lost>> /\ ret' = ret
  BY DEF EncInv, encoderVars
<1>2. PICK k \in 0..Len(chars) : Reached(k) /\ (Claimed => Reads(out, lost, k))
  BY DEF EncInv
<1>3. Ended'
  BY <1>1, SameInputs DEF Ended
<1> QED
  BY <1>1, <1>2, <1>3, StaysRead DEF EncInv

\* The source is read character by character, what was written so far reads as the
\* characters passed, and the answer tells whether the source ends within one
\* (str.c:236-651).
THEOREM EncodersHold == EncoderSpec => []EncInv
<1>1. EncInv /\ [EncoderNext]_encoderVars => EncInv'
  BY TurnReads, TurnHTMLReads, CutAnswers, ReturnAnswers, NothingReads DEF EncoderNext, Finished
<1> QED
  BY InitReaches, <1>1, PTL DEF EncoderSpec

----------------------------------------------------------------------------
(* What an encoder promises *)

\* Of any source that an encoder claims to represent, what STR_XMLencode, STR_URLencode,
\* STR_utf8toHTML, STR_escapeJSONstr, STR_escapeRegex or STR_escapeSqlStr wrote when no
\* append was refused reads back as that source, escapes already in it included; for
\* regular expressions, any source without ^ and |, operators that STR_escapeRegex
\* leaves as they are (str.c:236-651).
THEOREM EncodersReadBack == EncoderSpec => []ReadsBack
<1>1. ASSUME EncInv PROVE ReadsBack
  <2>1. SUFFICES ASSUME ret = "str", ~lost, Claimed PROVE Read(out) = Meant
    BY DEF ReadsBack
  <2>2. PICK k \in 0..Len(chars) : Reached(k) /\ Reads(out, lost, k)
    BY <1>1, <2>1 DEF EncInv
  <2>3. Inputs /\ pos = Len(src) + 1
    BY <1>1, <2>1 DEF EncInv, Ended
  <2>4. Len(src) \in Nat
    BY <2>3, SourceIs
  <2>5. k = Len(chars)
    <3>1. pos > Len(src)
      BY <2>3, <2>4
    <3> QED
      BY <2>2, <2>3, <3>1, WholeRead
  <2>6. Upto(Means, k) = Meant /\ Meant \in Seq(Nat)
    BY <2>3, <2>5, TextsAre, UptoIs, FlattenType
  <2>7. Says(out, Meant) /\ out \in Seq(Nat)
    BY <2>1, <2>2, <2>6 DEF Reads
  <2> QED
    BY <2>6, <2>7, SaysRead
<1> QED
  BY <1>1, EncodersHold, PTL

\* Whichever appends the heap refuses, and at every moment, the string of an encoder
\* that appends each escape in one call reads as some of the characters, in their
\* order (str.c:236-315, 357-590).
THEOREM EncodersInventNothing == EncoderSpec => []NothingInvented
<1>1. ASSUME EncInv PROVE NothingInvented
  <2>1. SUFFICES ASSUME enc \in {"XML", "URL", "JSON", "HTML"}, Claimed PROVE PartOf(Read(out), Meant)
    BY DEF NothingInvented
  <2>2. PICK k \in 0..Len(chars) : Reads(out, lost, k)
    BY <1>1, <2>1 DEF EncInv
  <2>3. PICK r \in Seq(Nat) : Says(out, r) /\ PartOf(r, Upto(Means, k))
    BY <2>1, <2>2 DEF Reads, InOneCall
  <2>4. /\ Means \in Seq(Seq(Nat)) /\ Len(Means) = Len(chars) /\ Meant = Seqs!FlattenSeq(Means)
    BY <1>1, TextsAre DEF EncInv
  <2>5. PICK w \in Seq(Nat) : Meant = Upto(Means, k) \o w
    BY <2>4, UptoRest
  <2>6. Upto(Means, k) \in Seq(Nat)
    BY <2>4, UptoIs
  <2>7. PartOf(r, Meant)
    BY <2>3, <2>5, <2>6, PartOfMore
  <2>8. Read(out) = r
    BY <2>2, <2>3, SaysRead DEF Reads
  <2> QED
    BY <2>7, <2>8, Zenon
<1> QED
  BY <1>1, EncodersHold, PTL

\* No encoder looks beyond the end of its source, and STR_utf8toHTML answers NULL for
\* sources that end within a character, of any length, and for no others
\* (str.c:357-558).
THEOREM EncodersTellCuts == EncoderSpec => []CutIsTold
<1>1. ASSUME EncInv PROVE CutIsTold
  <2>1. PICK k \in 0..Len(chars) : Reached(k)
    BY <1>1 DEF EncInv
  <2>2. pos \in 1..(Len(src) + 1)
    BY <1>1, <2>1, ReachedIs DEF EncInv
  <2> QED
    BY <1>1, <2>2 DEF CutIsTold, EncInv, Ended
<1> QED
  BY <1>1, EncodersHold, PTL

----------------------------------------------------------------------------
\* The days before a century and before a year of it, counted from the first of March.
Centuries(n) == (146097 * n + 3) \div 4
Years(i)     == (1461 * i) \div 4

\* The last day of a year that begins in March.
LastDay(n, i) == IF i % 4 = 3 /\ (i = 99 => n % 4 = 0) THEN 365 ELSE 364

\* The r-th day of the i-th such year of the n-th century.
DayIn(n, i, r) ==
  /\ n \in Nat /\ i \in Nat /\ i <= 99
  /\ r \in Nat /\ r <= LastDay(n, i)

MonthOf(r) == (80 * (r + 31)) \div 2447

DateOf(n, i, r) ==
  [year |-> 100 * (n - 49) + i + (MonthOf(r) \div 11), month |-> MonthOf(r) + 2 - 12 * (MonthOf(r) \div 11),
   day |-> (r + 31) - ((2447 * MonthOf(r)) \div 80)]

\* The algorithm finds the parts of a day.
LEMMA PartsAre ==
  ASSUME NEW n \in Nat, NEW i \in Nat, NEW r \in Nat, i <= 99, r <= LastDay(n, i)
  PROVE  LET ell0 == Centuries(n) + Years(i) + r
             ell1 == ell0 - Centuries(n)
         IN  /\ (4 * ell0) \div 146097 = n
             /\ (4000 * (ell1 + 1)) \div 1461001 = i
             /\ ell1 - Years(i) = r
<1>1. 0 <= Years(i) /\ Years(i) + r <= 36524 /\ (n % 4 # 0 => Years(i) + r <= 36523) /\ Years(i) \in Nat
  BY SMT DEF Years, LastDay
<1>2. Centuries(n) \in Nat
  BY SMT DEF Centuries
<1>3. (4 * (Centuries(n) + Years(i) + r)) \div 146097 = n
  <2> DEFINE k == Years(i) + r
  <2>1. k \in Nat /\ k <= 36524 /\ (n % 4 # 0 => k <= 36523)
    BY <1>1
  <2> HIDE DEF k
  <2>2. (4 * (Centuries(n) + k)) \div 146097 = n
    BY <2>1, SMT DEF Centuries
  <2>3. Centuries(n) + Years(i) + r = Centuries(n) + k
    BY <1>1, <1>2 DEF k
  <2> QED
    BY <2>2, <2>3
<1>4. (4000 * (Years(i) + r + 1)) \div 1461001 = i
  BY SMT DEF Years, LastDay
<1> QED
  BY <1>1, <1>2, <1>3, <1>4, SMT

LEMMA PartsExist ==
  ASSUME NEW d \in Nat
  PROVE  \E n, i, r \in Nat : DayIn(n, i, r) /\ d + 68569 = Centuries(n) + Years(i) + r
<1> DEFINE e == d + 68569
           n == (4 * e) \div 146097
           k == e - Centuries(n)
           i == (4000 * (k + 1)) \div 1461001
           r == k - Years(i)
<1>1. n \in Nat /\ k \in Nat /\ k <= 36524 /\ (n % 4 # 0 => k <= 36523)
  BY SMT DEF Centuries
<1> HIDE DEF k, n
<1>2. i \in Nat /\ i <= 99 /\ r \in Nat /\ r <= LastDay(n, i)
  BY <1>1, SMT DEF Years, LastDay
<1>3. e = Centuries(n) + Years(i) + r
  <2>1. Centuries(n) \in Int /\ Years(i) \in Int
    BY <1>1, <1>2, SMT DEF Centuries, Years
  <2> QED
    BY <1>1, <2>1 DEF k
<1> QED
  BY <1>1, <1>2, <1>3 DEF DayIn

\* The lengths of the months, counted from March, of which February has its leap day.
MonthDays(j) == IF j = 12 THEN 29 ELSE IF j = 2 \/ j = 4 \/ j = 7 \/ j = 9 THEN 30 ELSE 31
DayOfMonth(r) == (r + 31) - ((2447 * MonthOf(r)) \div 80)

LEMMA MonthsAre ==
  ASSUME NEW r \in Nat, r <= 365
  PROVE  /\ MonthOf(r) \in Int /\ 1 <= MonthOf(r) /\ MonthOf(r) <= 12
         /\ DayOfMonth(r) \in Int /\ 1 <= DayOfMonth(r) /\ DayOfMonth(r) <= MonthDays(MonthOf(r))
         /\ MonthOf(r) = 12 <=> r >= 337
         /\ MonthOf(r) = 12 => DayOfMonth(r) = r - 336
BY SMT DEF MonthOf, DayOfMonth, MonthDays

LEMMA MonthsGoOn ==
  ASSUME NEW r \in Nat, r < 365
  PROVE  /\ DayOfMonth(r) < MonthDays(MonthOf(r)) =>
              MonthOf(r + 1) = MonthOf(r) /\ DayOfMonth(r + 1) = DayOfMonth(r) + 1
         /\ DayOfMonth(r) = MonthDays(MonthOf(r)) =>
              MonthOf(r + 1) = MonthOf(r) + 1 /\ DayOfMonth(r + 1) = 1
BY SMT DEF MonthOf, DayOfMonth, MonthDays

LEMMA Joined ==
  ASSUME NEW d \in Int, NEW n \in Nat, NEW i \in Nat, NEW r \in Nat, DayIn(n, i, r),
         d + 68569 = Centuries(n) + Years(i) + r
  PROVE  julian_2_gregorian(d) = DateOf(n, i, r)
<1>1. LET ell0 == d + 68569
          ell1 == ell0 - Centuries(n)
      IN  /\ (4 * ell0) \div 146097 = n
          /\ (4000 * (ell1 + 1)) \div 1461001 = i
          /\ ell1 - Years(i) = r
  BY PartsAre DEF DayIn
<1>2. (146097 * n + 3) \div 4 = Centuries(n) /\ (1461 * i) \div 4 = Years(i)
  BY DEF Centuries, Years
<1>3. Centuries(n) \in Int /\ Years(i) \in Int
  BY SMT DEF Centuries, Years
<1> DEFINE Month(ell2) == (80 * ell2) \div 2447
           Year(ell2, p, q) ==
             [year |-> 100 * (p - 49) + q + (Month(ell2) \div 11),
              month |-> Month(ell2) + 2 - 12 * (Month(ell2) \div 11),
              day |-> ell2 - ((2447 * Month(ell2)) \div 80)]
           InYear(ell1, p, q) == Year((ell1 - ((1461 * q) \div 4)) + 31, p, q)
           InCentury(ell1, p) == InYear(ell1, p, (4000 * (ell1 + 1)) \div 1461001)
           Of(ell0, p) == InCentury(ell0 - ((146097 * p + 3) \div 4), p)
           ell == d + 68569
<1>4. julian_2_gregorian(d) = Of(ell, (4 * ell) \div 146097)
  BY DEF julian_2_gregorian
<1>5. Of(ell, n) = InCentury(ell - Centuries(n), n)
  BY <1>2
<1>6. InCentury(ell - Centuries(n), n) = InYear(ell - Centuries(n), n, (4000 * ((ell - Centuries(n)) + 1)) \div 1461001)
  OBVIOUS
<1>7. InYear(ell - Centuries(n), n, i) = Year(((ell - Centuries(n)) - Years(i)) + 31, n, i)
  BY <1>2
<1>8. DateOf(n, i, r) = Year(r + 31, n, i)
  BY DEF DateOf, MonthOf
<1>9. (4 * ell) \div 146097 = n /\ (4000 * ((ell - Centuries(n)) + 1)) \div 1461001 = i
      /\ (ell - Centuries(n)) - Years(i) = r
  BY <1>1
<1> HIDE DEF Of, InCentury, InYear, Year, ell
<1> QED
  BY <1>4, <1>5, <1>6, <1>7, <1>8, <1>9
\* The years that begin after a leap year's February have their leap day before it.
LEMMA LeapDay ==
  ASSUME NEW n \in Nat, NEW i \in Nat, i <= 99
  PROVE  IsLeap(100 * (n - 49) + i + 1) <=> LastDay(n, i) = 365
BY SMT DEF IsLeap, LastDay

LEMMA WayBack ==
  ASSUME NEW n \in Nat, NEW i \in Nat, NEW r \in Nat, DayIn(n, i, r), n >= 1
  PROVE  LET t == DateOf(n, i, r)
         IN  gregorian_2_julian(t.year, t.month, t.day) = Centuries(n) + Years(i) + r - 68569
<1> DEFINE j == MonthOf(r)
           s == j \div 11
           y == 100 * (n - 49) + i + s
           m == j + 2 - 12 * s
           c == DayOfMonth(r)
<1>1. r <= 365 /\ i <= 99
  BY DEF DayIn, LastDay
<1>2. j \in Int /\ 1 <= j /\ j <= 12 /\ c \in Int /\ c = r + 31 - ((2447 * j) \div 80)
  BY <1>1, MonthsAre DEF DayOfMonth
<1> HIDE DEF j, c
<1>3. s \in Int /\ Quotient(m - 14, 12) = -s
  BY <1>2, SMT DEF Quotient
<1>4. y + 4800 + (-s) = 100 * (n - 1) + i /\ y + 4900 + (-s) = 100 * n + i /\ m - 2 - 12 * (-s) = j
  BY <1>2, <1>3, SMT
<1>5. Quotient(1461 * (100 * (n - 1) + i), 4) = 36525 * (n - 1) + Years(i)
  BY <1>1, SMT DEF Quotient, Years
<1>6. Quotient(100 * n + i, 100) = n /\ Quotient(3 * n, 4) = (3 * n) \div 4
  BY <1>1, SMT DEF Quotient
<1>7. Quotient(367 * j, 12) = (2447 * j) \div 80
  BY <1>2, SMT DEF Quotient
<1>10. DateOf(n, i, r) = [year |-> y, month |-> m, day |-> c]
  BY DEF DateOf, j, c, DayOfMonth
<1>13. y \in Int /\ m \in Int
  BY <1>2, <1>3
<1> HIDE DEF s, y, m
<1>8. gregorian_2_julian(y, m, c)
        = (36525 * (n - 1) + Years(i)) + ((2447 * j) \div 80) - ((3 * n) \div 4) + c - 32075
  BY <1>2, <1>3, <1>4, <1>5, <1>6, <1>7, <1>13, SMT DEF gregorian_2_julian
<1>9. Centuries(n) = 36525 * n - ((3 * n) \div 4)
  BY SMT DEF Centuries
<1>11. (3 * n) \div 4 \in Int /\ Years(i) \in Int /\ (2447 * j) \div 80 \in Int
  BY <1>2, SMT DEF Years
<1>12. (36525 * (n - 1) + Years(i)) + ((2447 * j) \div 80) - ((3 * n) \div 4) + c - 32075
        = Centuries(n) + Years(i) + r - 68569
  BY <1>2, <1>9, <1>11, SMT
<1> QED
  BY <1>8, <1>10, <1>12

Date(y, m, c) == [year |-> y, month |-> m, day |-> c]

LEMMA NextDateIs ==
  ASSUME NEW y \in Int, NEW m \in Int, NEW c \in Int, DaysIn(y, m) \in Int
  PROVE  /\ c < DaysIn(y, m) => NextDate(Date(y, m, c)) = Date(y, m, c + 1)
         /\ c = DaysIn(y, m) /\ m < 12 => NextDate(Date(y, m, c)) = Date(y, m + 1, 1)
         /\ c = DaysIn(y, m) /\ m = 12 => NextDate(Date(y, m, c)) = Date(y + 1, 1, 1)
<1> DEFINE t == Date(y, m, c)
           D == DaysIn(y, m)
           u == Date(y, m, 1)
<1>1. t.year = y /\ t.month = m /\ t.day = c
  BY DEF Date
<1>2. [t EXCEPT !.day = t.day + 1] = Date(y, m, c + 1)
  BY DEF Date
<1>3. [t EXCEPT !.day = 1] = u /\ [u EXCEPT !.month = t.month + 1] = Date(y, m + 1, 1)
  BY DEF Date
<1> HIDE DEF t, D, u
<1>4. D \in Int
  BY DEF D
<1>5. c < D => NextDate(t) = Date(y, m, c + 1)
  BY <1>1, <1>2, <1>4, SMT DEF NextDate, D
<1>6. c = D /\ m < 12 => NextDate(t) = Date(y, m + 1, 1)
  <2>1. SUFFICES ASSUME c = D, m < 12 PROVE NextDate(t) = Date(y, m + 1, 1)
    OBVIOUS
  <2>2. ~(c < D)
    BY <1>4, <2>1
  <2>3. NextDate(t) = [t EXCEPT !.day = 1, !.month = t.month + 1]
    BY <1>1, <2>1, <2>2, Zenon DEF NextDate, D
  <2>4. [t EXCEPT !.day = 1, !.month = t.month + 1] = [u EXCEPT !.month = t.month + 1]
    BY <1>3, Zenon
  <2> QED
    BY <1>3, <2>3, <2>4, Zenon
<1>7. c = D /\ m = 12 => NextDate(t) = Date(y + 1, 1, 1)
  BY <1>1, <1>4, SMT DEF NextDate, D, Date
<1> QED
  BY <1>5, <1>6, <1>7, Zenon DEF D, t

\* The day behind each day but a year's last, the last of a year and of a century.
LEMMA Follows ==
  ASSUME NEW n \in Nat, NEW i \in Nat, NEW r \in Nat, DayIn(n, i, r)
  PROVE  NextDate(DateOf(n, i, r)) =
           IF r < LastDay(n, i) THEN DateOf(n, i, r + 1)
           ELSE IF i < 99 THEN DateOf(n, i + 1, 0) ELSE DateOf(n + 1, 0, 0)
<1> DEFINE j == MonthOf(r)
           c == DayOfMonth(r)
           s == j \div 11
           Y == 100 * (n - 49) + i
           y == Y + s
           m == j + 2 - 12 * s
<1>1. r <= 365 /\ i <= 99 /\ r <= LastDay(n, i) /\ LastDay(n, i) \in {364, 365}
  BY DEF DayIn, LastDay
<1>2. j \in Int /\ 1 <= j /\ j <= 12 /\ c \in Int /\ 1 <= c /\ c <= MonthDays(j)
      /\ (j = 12 <=> r >= 337) /\ (j = 12 => c = r - 336)
  BY <1>1, MonthsAre
<1>3. DateOf(n, i, r) = Date(y, m, c)
  BY DEF DateOf, DayOfMonth, Date
<1>4. r < 365 => /\ c < MonthDays(j) => MonthOf(r + 1) = j /\ DayOfMonth(r + 1) = c + 1
                 /\ c = MonthDays(j) => MonthOf(r + 1) = j + 1 /\ DayOfMonth(r + 1) = 1
  BY MonthsGoOn
<1>5. DateOf(n, i, r + 1) = [year |-> Y + (MonthOf(r + 1) \div 11),
                             month |-> MonthOf(r + 1) + 2 - 12 * (MonthOf(r + 1) \div 11),
                             day |-> DayOfMonth(r + 1)]
  BY DEF DateOf, DayOfMonth
<1>6. IsLeap(Y + 1) <=> LastDay(n, i) = 365
  BY <1>1, LeapDay
<1>7. Y \in Int
  OBVIOUS
<1> HIDE DEF j, c, Y
<1>8. s \in Int /\ y \in Int /\ m \in Int /\ (s = IF j >= 11 THEN 1 ELSE 0)
  BY <1>2, <1>7, SMT
<1>12. y = Y + s /\ m = j + 2 - 12 * s
  OBVIOUS
<1> HIDE DEF s, y, m
<1>9. DaysIn(y, m) = IF j = 12 THEN (IF LastDay(n, i) = 365 THEN 29 ELSE 28) ELSE MonthDays(j)
  <2>1. CASE j = 12
    BY <1>6, <1>7, <1>8, <1>12, <2>1, SMT DEF DaysIn
  <2>2. CASE j # 12
    BY <1>2, <1>8, <1>12, <2>2, SMT DEF DaysIn, MonthDays
  <2> QED
    BY <2>1, <2>2
<1>10. CASE r < LastDay(n, i)
  <2>1. CASE j < 12 /\ c = MonthDays(j)
    <3>1. MonthOf(r + 1) = j + 1 /\ DayOfMonth(r + 1) = 1
      BY <1>1, <1>4, <1>10, <2>1
    <3>2. (j + 1) \div 11 = IF j >= 10 THEN 1 ELSE 0
      BY <1>2, <2>1, SMT
    <3>3. DateOf(n, i, r + 1) = IF j = 10 THEN Date(y + 1, 1, 1)
                                ELSE Date(y, m + 1, 1)
      BY <1>2, <1>5, <1>7, <1>8, <1>12, <2>1, <3>1, <3>2, SMT DEF Date
    <3>4. DaysIn(y, m) = c
      BY <1>9, <2>1
    <3>5. m = 12 <=> j = 10
      BY <1>2, <1>8, <1>12, SMT
    <3>6. m <= 12
      BY <1>2, <1>8, <1>12, SMT
    <3>7. DaysIn(y, m) \in Int /\ y \in Int /\ m \in Int /\ c \in Int
      BY <1>2, <1>8, <3>4
    <3>8. NextDate(Date(y, m, c)) = IF j = 10 THEN Date(y + 1, 1, 1) ELSE Date(y, m + 1, 1)
      BY <3>4, <3>5, <3>6, <3>7, NextDateIs
    <3> QED
      BY <1>3, <1>10, <3>3, <3>8
  <2>2. CASE ~(j < 12 /\ c = MonthDays(j))
    <3>1. c < DaysIn(y, m) /\ c < MonthDays(j) /\ DaysIn(y, m) \in Int
      BY <1>1, <1>2, <1>9, <1>10, <2>2, SMT DEF MonthDays
    <3>2. DateOf(n, i, r + 1) = Date(y, m, c + 1)
      BY <1>1, <1>4, <1>5, <1>10, <1>12, <3>1 DEF s, Date
    <3>3. NextDate(Date(y, m, c)) = Date(y, m, c + 1)
      BY <1>2, <1>8, <3>1, NextDateIs
    <3> QED
      BY <1>3, <1>10, <3>2, <3>3
  <2> QED
    BY <2>1, <2>2
<1>11. CASE r = LastDay(n, i)
  <2>1. j = 12 /\ c = DaysIn(y, m) /\ m = 2 /\ y = Y + 1
    BY <1>1, <1>2, <1>7, <1>8, <1>9, <1>11, <1>12, SMT
  <2>2. NextDate(DateOf(n, i, r)) = Date(Y + 1, 3, 1)
    <3>1. DaysIn(y, m) \in Int /\ y \in Int /\ m \in Int /\ c \in Int
      BY <1>2, <1>8, <2>1
    <3>2. NextDate(Date(y, m, c)) = Date(y, m + 1, 1)
      BY <2>1, <3>1, NextDateIs
    <3> QED
      BY <1>3, <2>1, <3>2
  <2>3. MonthOf(0) = 1 /\ MonthOf(0) \div 11 = 0 /\ (2447 * MonthOf(0)) \div 80 = 30
    BY SMT DEF MonthOf
  <2>4. \A p, q \in Nat : DateOf(p, q, 0) = Date(100 * (p - 49) + q, 3, 1)
    BY <2>3, SMT DEF DateOf, Date
  <2>5. CASE i < 99
    BY <1>11, <2>2, <2>4, <2>5, SMT DEF Y
  <2>6. CASE i = 99
    BY <1>11, <2>2, <2>4, <2>6, SMT DEF Y
  <2> QED
    BY <1>1, <2>5, <2>6
<1> QED
  BY <1>1, <1>10, <1>11

LEMMA NextDayIs ==
  ASSUME NEW n \in Nat, NEW i \in Nat, NEW r \in Nat, DayIn(n, i, r)
  PROVE  /\ r < LastDay(n, i) => DayIn(n, i, r + 1)
         /\ r = LastDay(n, i) /\ i < 99 =>
              DayIn(n, i + 1, 0) /\ Years(i + 1) = Years(i) + r + 1
         /\ r = LastDay(n, i) /\ i = 99 =>
              DayIn(n + 1, 0, 0) /\ Centuries(n + 1) + Years(0) = Centuries(n) + Years(i) + r + 1
<1>1. CASE r < LastDay(n, i)
  BY <1>1 DEF DayIn, LastDay
<1>2. CASE r = LastDay(n, i) /\ i < 99
  BY <1>2, SMT DEF DayIn, LastDay, Years
<1>3. CASE r = LastDay(n, i) /\ i = 99
  BY <1>3, SMT DEF DayIn, LastDay, Years, Centuries
<1> QED
  BY <1>1, <1>2, <1>3 DEF DayIn

\* A day is what the calendar has behind the day before it, and the way back leads to it.
LEMMA DatesFollow ==
  ASSUME NEW d \in Nat
  PROVE  LET t == julian_2_gregorian(d)
         IN  /\ julian_2_gregorian(d + 1) = NextDate(t)
             /\ gregorian_2_julian(t.year, t.month, t.day) = d
<1>1. PICK n, i, r \in Nat : DayIn(n, i, r) /\ d + 68569 = Centuries(n) + Years(i) + r
  BY PartsExist
<1>2. Centuries(n) \in Int /\ Years(i) \in Int
  BY SMT DEF Centuries, Years
<1>3. n >= 1
  <2>1. SUFFICES ASSUME n = 0 PROVE FALSE
    OBVIOUS
  <2>2. Centuries(0) = 0
    BY SMT DEF Centuries
  <2>3. Years(i) + r <= 36525
    BY <1>1, SMT DEF DayIn, LastDay, Years
  <2> QED
    BY <1>1, <1>2, <2>1, <2>2, <2>3
<1>4. julian_2_gregorian(d) = DateOf(n, i, r)
  BY <1>1, Joined
<1>5. LET t == DateOf(n, i, r) IN gregorian_2_julian(t.year, t.month, t.day) = d
  <2>1. Centuries(n) + Years(i) + r - 68569 = d
    BY <1>1, <1>2
  <2> QED
    BY <1>1, <1>3, <2>1, WayBack
<1>6. CASE r < LastDay(n, i)
  <2>1. DayIn(n, i, r + 1) /\ (d + 1) + 68569 = Centuries(n) + Years(i) + (r + 1)
    BY <1>1, <1>2, <1>6, NextDayIs
  <2> QED
    BY <1>1, <1>4, <1>5, <1>6, <2>1, Joined, Follows
<1>7. CASE r = LastDay(n, i) /\ i < 99
  <2>1. DayIn(n, i + 1, 0) /\ (d + 1) + 68569 = Centuries(n) + Years(i + 1) + 0
    BY <1>1, <1>2, <1>7, NextDayIs
  <2>2. julian_2_gregorian(d + 1) = DateOf(n, i + 1, 0)
    BY <2>1, Joined
  <2>3. NextDate(DateOf(n, i, r)) = DateOf(n, i + 1, 0)
    BY <1>1, <1>7, Follows
  <2> QED
    BY <1>4, <1>5, <2>2, <2>3
<1>8. CASE r = LastDay(n, i) /\ i = 99
  <2>1. DayIn(n + 1, 0, 0) /\ (d + 1) + 68569 = Centuries(n + 1) + Years(0) + 0
    <3>1. Centuries(n + 1) \in Int /\ Years(0) \in Int
      BY SMT DEF Centuries, Years
    <3>2. DayIn(n + 1, 0, 0) /\ Centuries(n + 1) + Years(0) = Centuries(n) + Years(i) + r + 1
      BY <1>1, <1>8, NextDayIs
    <3> QED
      BY <1>1, <1>2, <3>1, <3>2
  <2>2. julian_2_gregorian(d + 1) = DateOf(n + 1, 0, 0)
    BY <2>1, Joined
  <2>3. NextDate(DateOf(n, i, r)) = DateOf(n + 1, 0, 0)
    BY <1>1, <1>8, Follows
  <2> QED
    BY <1>4, <1>5, <2>2, <2>3
<1>9. r <= LastDay(n, i) /\ i <= 99 /\ LastDay(n, i) \in Int
  BY <1>1 DEF DayIn, LastDay
<1> QED
  BY <1>6, <1>7, <1>8, <1>9

LEMMA FirstDateIs == julian_2_gregorian(FirstDay) = FirstDate
<1>1. DayIn(64, 82, 228) /\ FirstDay + 68569 = Centuries(64) + Years(82) + 228
  BY SMT DEF DayIn, LastDay, FirstDay, Centuries, Years
<1> QED
  BY <1>1, SMT, Joined DEF DateOf, MonthOf, FirstDate, FirstDay

\* A product with a positive factor is no less than that factor.
LEMMA Times ==
  ASSUME NEW n \in Nat \ {0}, NEW k \in Int
  PROVE  /\ k >= 1 => n * k >= n
         /\ k <= -1 => n * k <= -n
         /\ n * k \in Int
  OBVIOUS

LEMMA DayParts ==
  ASSUME NEW n \in Nat \ {0}, NEW a \in Int
  PROVE  /\ a \div n \in Int /\ a % n \in 0..(n - 1)
         /\ a = n * (a \div n) + (a % n)
  OBVIOUS

LEMMA PartsOfDay ==
  ASSUME NEW n \in Nat \ {0}, NEW a \in Int, NEW k \in Int, NEW r \in 0..(n - 1), a = n * k + r
  PROVE  a % n = r /\ a \div n = k
<1> DEFINE q == a \div n
           s == a % n
<1>1. q \in Int /\ s \in 0..(n - 1) /\ a = n * q + s
  BY DayParts
<1> HIDE DEF q, s
<1>2. q - k \in Int /\ n * (q - k) = n * q - n * k
  BY <1>1
<1>3. n * (q - k) = r - s
  <2>1. n * q \in Int /\ n * k \in Int
    BY <1>1, Times
  <2> DEFINE x == n * q
             y == n * k
             z == n * (q - k)
  <2>2. x \in Int /\ y \in Int /\ z = x - y /\ a = x + s /\ a = y + r
    BY <1>1, <1>2, <2>1
  <2> HIDE DEF x, y, z
  <2>3. z = r - s
    BY <1>1, <2>2
  <2> QED
    BY <2>3 DEF z
<1>4. q - k = 0
  BY <1>1, <1>2, <1>3, Times
<1> QED
  BY <1>1, <1>3, <1>4 DEF q, s

\* A zone as the code is given one.
Zones == [at : Int, after : BOOLEAN]

Midnight(z, from) == from - TodOf(z, from)
Ahead(z, from)    == IF IsDst(z, from) THEN Shift ELSE 0

LEMMA ClockAt ==
  ASSUME NEW z \in Zones, NEW from \in Int
  PROVE  /\ Ahead(z, from) \in {0, Shift} /\ Ahead(z, from) \in Int
         /\ Clock(z, from) = from + Ahead(z, from) /\ Clock(z, from) \in Int
         /\ TodOf(z, from) \in 0..(Day - 1) /\ Midnight(z, from) \in Int
         /\ DayOf(z, from) \in Int
         /\ Clock(z, from) = Day * DayOf(z, from) + TodOf(z, from)
<1>1. Day \in Nat \ {0} /\ Shift \in Nat
  BY DayAssumption
<1>2. Ahead(z, from) \in {0, Shift} /\ Ahead(z, from) \in Int
  BY <1>1 DEF Ahead
<1>3. Clock(z, from) = from + Ahead(z, from) /\ Clock(z, from) \in Int
  BY <1>2 DEF Ahead, Clock
<1>4. /\ Clock(z, from) \div Day \in Int /\ Clock(z, from) % Day \in 0..(Day - 1)
      /\ Clock(z, from) = Day * (Clock(z, from) \div Day) + (Clock(z, from) % Day)
  BY <1>1, <1>3, DayParts
<1>5. TodOf(z, from) \in 0..(Day - 1) /\ DayOf(z, from) \in Int
      /\ Clock(z, from) = Day * DayOf(z, from) + TodOf(z, from)
  BY <1>4, Zenon DEF TodOf, DayOf
<1>6. Midnight(z, from) \in Int
  BY <1>1, <1>5 DEF Midnight
<1> QED
  BY <1>2, <1>3, <1>5, <1>6

\* The clock goes on for two days as it does now.
LEMMA SteadyClock ==
  ASSUME NEW z \in Zones, NEW from \in Int, Steady(z, from), NEW t \in Int,
         Midnight(z, from) - Shift <= t, t <= Midnight(z, from) + 2 * Day + Shift
  PROVE  Clock(z, t) = t + Ahead(z, from) /\ Ahead(z, t) = Ahead(z, from)
<1>1. Day \in Nat \ {0} /\ Shift \in Nat /\ Midnight(z, from) \in Int
      /\ TodOf(z, from) \in 0..(Day - 1)
  BY DayAssumption, ClockAt
<1>2. z.at \in Int /\ z.after \in BOOLEAN
  BY DEF Zones
<1>3. z.at < Midnight(z, from) - Shift \/ z.at > Midnight(z, from) + 2 * Day + Shift
  BY <1>1, <1>2 DEF Steady, Midnight
<1>4. from = Midnight(z, from) + TodOf(z, from)
  BY <1>1 DEF Midnight
<1>5. (t >= z.at) <=> (from >= z.at)
  BY <1>1, <1>2, <1>3, <1>4
<1>6. IsDst(z, t) <=> IsDst(z, from)
  BY <1>5, Zenon DEF IsDst
<1> QED
  BY <1>6, Zenon, ClockAt DEF Ahead

\* Until the midnight after next, mktime has no choice.
LEMMA SteadyMktime ==
  ASSUME NEW z \in Zones, NEW from \in Int, Steady(z, from), NEW t \in Int,
         from <= t, t <= from + Day
  PROVE  MktimeAny(z, t + Ahead(z, from)) = {t}
<1> DEFINE mid == Midnight(z, from)
           a == Ahead(z, from)
           w == t + a
<1>1. /\ Day \in Nat \ {0} /\ Shift \in Nat /\ Shift >= 1 /\ Shift < Day
      /\ mid \in Int /\ TodOf(z, from) \in 0..(Day - 1) /\ a \in {0, Shift} /\ a \in Int
  BY DayAssumption, ClockAt
<1>2. from = mid + TodOf(z, from)
  BY <1>1 DEF Midnight
<1> HIDE DEF a, mid
<1>3. \A u \in Int : mid - Shift <= u /\ u <= mid + 2 * Day + Shift => Clock(z, u) = u + a
  BY SteadyClock DEF a, mid
<1>4. w \in Int /\ w - Shift \in Int /\ t \in {w, w - Shift}
  BY <1>1
<1>5. Clock(z, w) = w + a /\ Clock(z, w - Shift) = w - Shift + a
  BY <1>1, <1>2, <1>3, <1>4
<1>6. ASSUME NEW u \in {w, w - Shift} PROVE Clock(z, u) = w <=> u = t
  BY <1>1, <1>4, <1>5
<1> HIDE DEF w
<1>7. MomentsOf(z, w) = {t}
  BY <1>4, <1>6, Zenon DEF MomentsOf
<1>8. {t} # {}
  OBVIOUS
<1>9. MktimeAny(z, w) = {t}
  BY <1>7, <1>8, Zenon DEF MktimeAny
<1> QED
  BY <1>9 DEF w, a

\* The days and times of the clock at this time tomorrow.
LEMMA Tomorrow ==
  ASSUME NEW z \in Zones, NEW from \in Int, Steady(z, from)
  PROVE  DayOf(z, from + Day) = DayOf(z, from) + 1 /\ Ahead(z, from + Day) = Ahead(z, from)
<1> DEFINE mid == Midnight(z, from)
           t == from + Day
<1>1. /\ Day \in Nat \ {0} /\ Shift \in Nat
      /\ mid \in Int /\ TodOf(z, from) \in 0..(Day - 1) /\ DayOf(z, from) \in Int
      /\ Ahead(z, from) \in Int
      /\ Clock(z, from) = from + Ahead(z, from)
      /\ Clock(z, from) = Day * DayOf(z, from) + TodOf(z, from)
  BY DayAssumption, ClockAt
<1>2. from = mid + TodOf(z, from)
  BY <1>1 DEF Midnight
<1> HIDE DEF mid
<1>3. t \in Int /\ mid - Shift <= t /\ t <= mid + 2 * Day + Shift
  BY <1>1, <1>2
<1>4. Clock(z, t) = t + Ahead(z, from) /\ Ahead(z, t) = Ahead(z, from)
  BY <1>3, SteadyClock DEF mid
<1>5. Clock(z, t) = Day * (DayOf(z, from) + 1) + TodOf(z, from)
  <2> DEFINE p == Day * DayOf(z, from)
  <2>1. p \in Int /\ Day * (DayOf(z, from) + 1) = p + Day
    BY <1>1
  <2> HIDE DEF p
  <2> QED
    BY <1>1, <1>4, <2>1 DEF p
<1>6. Clock(z, t) \div Day = DayOf(z, from) + 1
  <2> DEFINE c == Clock(z, t)
             k == DayOf(z, from) + 1
             r == TodOf(z, from)
  <2>1. c \in Int /\ k \in Int /\ r \in 0..(Day - 1) /\ c = Day * k + r
    BY <1>1, <1>3, <1>4, <1>5
  <2> HIDE DEF c, k, r
  <2>2. c \div Day = k
    BY <1>1, <2>1, PartsOfDay
  <2> QED
    BY <2>2 DEF c, k
<1> QED
  BY <1>4, <1>6 DEF DayOf

\* A date and a time of day, while the clock is not changed.
LEMMA SteadyDptime ==
  ASSUME NEW z \in Zones, NEW from \in Int, Steady(z, from), NEW tod \in Int
  PROVE  /\ Dptime(z, from, tod) = Midnight(z, from) + tod
         /\ Dptime(z, from + Day, tod) = Midnight(z, from) + Day + tod
<1> DEFINE p == DayOf(z, from) * Day
           a == Ahead(z, from)
<1>1. /\ Day \in Nat \ {0} /\ a \in Int /\ DayOf(z, from) \in Int /\ TodOf(z, from) \in Int
      /\ from + a = Day * DayOf(z, from) + TodOf(z, from)
  BY DayAssumption, ClockAt
<1>2. p \in Int /\ p = Day * DayOf(z, from) /\ (DayOf(z, from) + 1) * Day = p + Day
  BY <1>1
<1>3. \A t : Dptime(z, t, tod) =
               IF Ahead(z, t) = Shift THEN (DayOf(z, t) * Day + tod) - Shift ELSE DayOf(z, t) * Day + tod
  <2>1. Shift # 0
    BY DayAssumption
  <2>2. ASSUME NEW t, IsDst(z, t)
        PROVE  Ahead(z, t) = Shift /\ Dptime(z, t, tod) = (DayOf(z, t) * Day + tod) - Shift
    BY <2>2, Zenon DEF Dptime, Mktime, Ahead
  <2>3. ASSUME NEW t, ~IsDst(z, t)
        PROVE  Ahead(z, t) = 0 /\ Dptime(z, t, tod) = DayOf(z, t) * Day + tod
    BY <2>3, Zenon DEF Dptime, Mktime, Ahead
  <2> QED
    BY <2>1, <2>2, <2>3
<1>4. a \in {0, Shift} /\ Shift \in Int
  BY DayAssumption, ClockAt
<1>5. DayOf(z, from + Day) = DayOf(z, from) + 1 /\ Ahead(z, from + Day) = a
  BY Tomorrow
<1> HIDE DEF p, a
<1>6. Dptime(z, from, tod) = p + tod - a
  BY <1>2, <1>3, <1>4 DEF a, p
<1>7. Dptime(z, from + Day, tod) = p + Day + tod - a
  <2>1. Dptime(z, from + Day, tod) = IF a = Shift THEN ((p + Day) + tod) - Shift ELSE (p + Day) + tod
    BY <1>2, <1>3, <1>5, Zenon
  <2> QED
    BY <1>1, <1>2, <1>4, <2>1
<1>8. Midnight(z, from) = p - a
  <2> DEFINE k == TodOf(z, from)
  <2>1. k \in Int /\ a \in Int /\ p \in Int /\ from + a = p + k
    BY <1>1, <1>2
  <2>2. Midnight(z, from) = from - k
    BY DEF Midnight
  <2> HIDE DEF k
  <2> QED
    BY <2>1, <2>2
<1> QED
  BY <1>1, <1>2, <1>6, <1>7, <1>8

\* How long it is from now to a time of day.
Until(z, from, tod) ==
  IF tod > TodOf(z, from) THEN tod - TodOf(z, from) ELSE tod - TodOf(z, from) + Day

LEMMA SteadyAnswers ==
  ASSUME NEW z \in Zones, NEW from \in Int, Steady(z, from), NEW tod \in 0..(Day - 1)
  PROVE  Answers(z, from, tod) = {Until(z, from, tod)}
<1> DEFINE k == TodOf(z, from)
           mid == Midnight(z, from)
<1>1. Day \in Nat \ {0} /\ k \in 0..(Day - 1) /\ mid \in Int /\ tod \in Int
      /\ Ahead(z, from) \in Int /\ Clock(z, from) = from + Ahead(z, from)
  BY DayAssumption, ClockAt
<1>2. from = mid + k
  BY <1>1 DEF Midnight
<1>3. Normalized(z, from, 0) = {from} /\ Normalized(z, from, 1) = {from + Day}
  <2>1. Clock(z, from) + 0 * Day = from + Ahead(z, from)
    BY <1>1
  <2>2. Clock(z, from) + 1 * Day = (from + Day) + Ahead(z, from)
    BY <1>1
  <2>3. MktimeAny(z, from + Ahead(z, from)) = {from}
    BY <1>1, SteadyMktime
  <2>4. MktimeAny(z, (from + Day) + Ahead(z, from)) = {from + Day}
    BY <1>1, SteadyMktime
  <2> QED
    BY <2>1, <2>2, <2>3, <2>4 DEF Normalized
<1>4. Dptime(z, from, tod) = mid + tod /\ Dptime(z, from + Day, tod) = mid + Day + tod
  BY <1>1, SteadyDptime
<1> HIDE DEF k, mid
<1>5. Dptime(z, from, tod) > from <=> tod > k
  BY <1>1, <1>2, <1>4
<1>6. Dptime(z, from + Day, tod) > from
  BY <1>1, <1>2, <1>4
<1>7. tod > k => Dptime(z, from, tod) - from = Until(z, from, tod)
  BY <1>1, <1>2, <1>4 DEF Until, k
<1>8. ~(tod > k) => Dptime(z, from + Day, tod) - from = Until(z, from, tod)
  BY <1>1, <1>2, <1>4 DEF Until, k
<1> DEFINE tomorrow == {IF Dptime(z, m, tod) > from THEN Dptime(z, m, tod) - from ELSE NoTime :
                           m \in Normalized(z, from, 1)}
           ofToday(n) == IF Dptime(z, n, tod) > from THEN {Dptime(z, n, tod) - from} ELSE tomorrow
<1>9. tomorrow = {Dptime(z, from + Day, tod) - from}
  BY <1>3, <1>6
<1>10. Answers(z, from, tod) = UNION {ofToday(n) : n \in Normalized(z, from, 0)}
  BY DEF Answers
<1> HIDE DEF tomorrow
<1>11. ofToday(from) = {Until(z, from, tod)}
  BY <1>5, <1>7, <1>8, <1>9
<1> HIDE DEF ofToday
<1> QED
  BY <1>3, <1>10, <1>11

\* The clock shows the time of day then, and not before.
LEMMA SteadyTod ==
  ASSUME NEW z \in Zones, NEW from \in Int, Steady(z, from), NEW d \in Nat, d <= Day
  PROVE  TodOf(z, from + d) = IF TodOf(z, from) + d >= Day THEN TodOf(z, from) + d - Day
                              ELSE TodOf(z, from) + d
<1> DEFINE k == TodOf(z, from)
           q == DayOf(z, from)
           mid == Midnight(z, from)
           a == Ahead(z, from)
<1>1. /\ Day \in Nat \ {0} /\ Shift \in Nat /\ k \in 0..(Day - 1) /\ mid \in Int /\ q \in Int /\ a \in Int
      /\ from + a = Day * q + k /\ from = mid + k
  BY DayAssumption, ClockAt DEF Midnight
<1>2. Clock(z, from + d) = (from + d) + a
  <2> HIDE DEF k, mid
  <2>1. from + d \in Int /\ mid - Shift <= from + d /\ from + d <= mid + 2 * Day + Shift
    BY <1>1
  <2> QED
    BY <2>1, SteadyClock DEF mid
<1> HIDE DEF k, q, mid, a
<1> DEFINE p == Day * q
<1>3. p \in Int /\ Day * (q + 1) = p + Day
  BY <1>1
<1>4. Clock(z, from + d) = p + (k + d)
  <2> HIDE DEF p
  <2> QED
    BY <1>1, <1>2, <1>3 DEF p
<1>5. CASE k + d >= Day
  <2>1. Clock(z, from + d) = Day * (q + 1) + (k + d - Day)
    <3> HIDE DEF p
    <3> QED
      BY <1>1, <1>3, <1>4
  <2> DEFINE c == Clock(z, from + d)
             r == k + d - Day
             e == q + 1
  <2>2. c \in Int /\ r \in 0..(Day - 1) /\ e \in Int /\ c = Day * e + r
    BY <1>1, <1>2, <1>5, <2>1
  <2> HIDE DEF c, r, e
  <2>3. c % Day = r
    BY <1>1, <2>2, PartsOfDay
  <2> QED
    BY <1>5, <2>3 DEF c, r, TodOf, k
<1>6. CASE ~(k + d >= Day)
  <2> DEFINE c == Clock(z, from + d)
             r == k + d
  <2>2. c \in Int /\ r \in 0..(Day - 1) /\ c = Day * q + r
    BY <1>1, <1>2, <1>4, <1>6
  <2> HIDE DEF c, r
  <2>3. c % Day = r
    BY <1>1, <2>2, PartsOfDay
  <2> QED
    BY <1>6, <2>3 DEF c, r, TodOf, k
<1> QED
  BY <1>5, <1>6

LEMMA SteadyRemaining ==
  ASSUME NEW z \in Zones, NEW from \in Int, Steady(z, from), NEW tod \in 0..(Day - 1)
  PROVE  Remaining(z, from, tod) = Until(z, from, tod)
<1> DEFINE k == TodOf(z, from)
           u == Until(z, from, tod)
           S == {d \in 1..(3 * Day) : TodOf(z, from + d) = tod}
<1>1. Day \in Nat \ {0} /\ k \in 0..(Day - 1)
  BY DayAssumption, ClockAt
<1>2. u = IF tod > k THEN tod - k ELSE tod - k + Day
  BY DEF Until
<1>3. \A d \in Nat : d <= Day =>
        TodOf(z, from + d) = IF k + d >= Day THEN k + d - Day ELSE k + d
  BY SteadyTod
<1> HIDE DEF k, u
<1>4. u \in 1..Day
  BY <1>1, <1>2
<1>5. u \in S
  <2>1. TodOf(z, from + u) = tod
    BY <1>1, <1>2, <1>3, <1>4
  <2> QED
    BY <1>1, <1>4, <2>1
<1>6. ASSUME NEW d \in S PROVE u <= d
  BY <1>1, <1>2, <1>3, <1>4, <1>6
<1>7. S \subseteq Nat
  OBVIOUS
<1> HIDE DEF S
<1>8. Min(S) = u
  <2> DEFINE m == Min(S)
  <2>1. m \in S /\ \A y \in S : m <= y
    BY <1>5, <1>6, Zenon DEF Min
  <2> HIDE DEF m
  <2>2. m \in Nat /\ m <= u /\ u <= m
    BY <1>5, <1>6, <1>7, <2>1
  <2>3. m = u
    BY <1>4, <2>2
  <2> QED
    BY <2>3 DEF m
<1> QED
  BY <1>8 DEF Remaining, S, u

----------------------------------------------------------------------------
(* One call of util.c's functions *)

AnswerIs(fn, a) ==
  /\ fn = "julian_2_gregorian" => a = julian_2_gregorian(ask.day)
  /\ fn = "secs2tod" => a \in Answers(ask.zone, ask.from, ask.tod)
  /\ fn = "bits2str" => a = bits2str(ask.bits, ask.table)
  /\ fn = "str2bits" => a = str2bits(ask.str, ask.table)
  /\ fn = "strbits" => a = strbits(ask.bits, ask.nBytes)
  /\ fn = "bytes_2_hexStr" => a = bytes_2_hexStr(ask.rtn_sz, ask.src)
  /\ fn = "vcal2utc" => a = vcal2utc(TimeLine(ask.ms, ask.utc), ask.zones)
  /\ fn = "fetchPerson" => a = fetchPerson(PersonLine(ask.person))
  /\ fn = "ATND_constructor" => a = ATND_constructor(PersonLine(ask.person))
  /\ fn = "unescape" => a = unescape(Escaped(ask.prose))

UtilInv == ask \in Asks /\ (answer # Unanswered => AnswerIs(ask.fn, answer))

LEMMA InitAnswers == Init => UtilInv
BY DEF Init, UtilInv

LEMMA AnswerAnswers == UtilInv /\ Answer => UtilInv'
<1> SUFFICES ASSUME UtilInv, Answer PROVE UtilInv'
  OBVIOUS
<1>1. ask \in Asks /\ ask' = ask
  BY DEF UtilInv, Answer
<1>2. AnswerIs(ask.fn, answer')
  BY DEF Answer, AnswerIs
<1> QED
  BY <1>1, <1>2 DEF UtilInv, AnswerIs

LEMMA NothingAnswers == UtilInv /\ UNCHANGED vars => UtilInv'
BY DEF UtilInv, AnswerIs, vars

\* Whatever has been asked, the answer that stands is the one the function
\* called gives to what was last asked, and both are of the right kind: the
\* state in which each of src/util.c's functions leaves its caller.
THEOREM AnswersHold == Spec => []UtilInv
<1>1. UtilInv /\ [Next]_vars => UtilInv'
  BY AnswerAnswers, NothingAnswers DEF Next, Returned
<1> QED
  BY <1>1, InitAnswers, PTL DEF Spec

LEMMA AskedDay ==
  ASSUME ask \in Asks, ask.fn = "julian_2_gregorian"
  PROVE  ask.day \in Days
BY DEF Asks

LEMMA AskedTime ==
  ASSUME ask \in Asks, ask.fn = "secs2tod"
  PROVE  ask.zone \in Zone /\ ask.from \in From /\ ask.tod \in 0..(Day - 1)
BY DEF Asks

LEMMA DateAnswers == UtilInv => DatesRight
<1> SUFFICES ASSUME UtilInv, Answered("julian_2_gregorian")
             PROVE  /\ ask.day = FirstDay => answer = FirstDate
                    /\ julian_2_gregorian(ask.day + 1) = NextDate(answer)
                    /\ gregorian_2_julian(answer.year, answer.month, answer.day) = ask.day
  BY DEF DatesRight
<1>1. ask.day \in Nat
  BY AskedDay, TimesAssumption DEF UtilInv, Answered
<1>2. answer = julian_2_gregorian(ask.day)
  BY DEF UtilInv, AnswerIs, Answered
<1> QED
  BY <1>1, <1>2, DatesFollow, FirstDateIs, Zenon

\* For every Julian day from the day the count begins, the answer to the next day is
\* the next day of the Gregorian calendar, and the way back leads to the same day.
THEOREM DatesAreRight == Spec => []DatesRight
BY AnswersHold, DateAnswers, PTL

LEMMA TodAnswers == UtilInv => TodIsNext
<1> SUFFICES ASSUME UtilInv, Answered("secs2tod"), Steady(ask.zone, ask.from)
             PROVE  answer = Remaining(ask.zone, ask.from, ask.tod)
  BY DEF TodIsNext
<1>1. ask.zone \in Zones /\ ask.from \in Int /\ ask.tod \in 0..(Day - 1)
  BY AskedTime, TimesAssumption DEF UtilInv, Answered, Zones
<1>2. answer \in Answers(ask.zone, ask.from, ask.tod)
  BY DEF UtilInv, AnswerIs, Answered
<1> QED
  BY <1>1, <1>2, SteadyAnswers, SteadyRemaining

\* While the clock is not changed, secs2tod finds the next moment it shows the time:
\* for days of any length, any shift of summer time, every moment and time of day.
THEOREM TodsAreNext == Spec => []TodIsNext
BY AnswersHold, TodAnswers, PTL

----------------------------------------------------------------------------
LEMMA UptoGrows ==
  ASSUME NEW T, NEW ss \in Seq(Seq(T))
  PROVE  /\ Upto(ss, 0) = <<>>
         /\ Upto(ss, Len(ss)) = Seqs!FlattenSeq(ss)
         /\ \A k \in 0..Len(ss) : Upto(ss, k) \in Seq(T)
         /\ \A k \in 0..(Len(ss) - 1) : Upto(ss, k + 1) = Upto(ss, k) \o ss[k + 1]
<1>0. Len(ss) \in Nat /\ \A i \in 1..Len(ss) : ss[i] \in Seq(T)
  OBVIOUS
<1>1. \A k \in 0..Len(ss) : SubSeq(ss, 1, k) \in Seq(Seq(T))
  <2>1. ASSUME NEW k \in 0..Len(ss) PROVE SubSeq(ss, 1, k) \in Seq(Seq(T))
    <3>1. \A i \in 1..k : ss[i] \in Seq(T)
      BY <1>0
    <3> QED
      BY <3>1, SubSeqProperties
  <2> QED
    BY <2>1
<1>2. SubSeq(ss, 1, 0) = <<>> /\ <<>> \in Seq(Seq(T))
  OBVIOUS
<1>3. Upto(ss, 0) = <<>>
  BY <1>2, FlattenIs DEF Upto
<1>4. Upto(ss, Len(ss)) = Seqs!FlattenSeq(ss)
  BY SubSeqFull DEF Upto
<1>5. \A k \in 0..Len(ss) : Upto(ss, k) \in Seq(T)
  BY <1>1, FlattenType DEF Upto
<1>6. ASSUME NEW k \in 0..(Len(ss) - 1) PROVE Upto(ss, k + 1) = Upto(ss, k) \o ss[k + 1]
  <2>1. k + 1 \in 1..Len(ss) /\ k \in 0..Len(ss) /\ ss[k + 1] \in Seq(T)
    BY <1>0
  <2>2. SubSeq(ss, 1, k + 1) = Append(SubSeq(ss, 1, k), ss[k + 1])
    BY <1>0, <2>1
  <2> QED
    BY <1>1, <2>1, <2>2, FlattenAppend DEF Upto
<1> QED
  BY <1>3, <1>4, <1>5, <1>6

\* A walk that takes m places in its first turn goes on as one that begins behind them.
LEMMA WalkTakes ==
  ASSUME NEW T, NEW p \in Seq(Turns(T)), NEW q \in Seq(Turns(T)), Paced(p), Paced(q),
         NEW m \in Nat, m >= 1, LiesBehind(p, q, m), p[1].n = m
  PROVE  Walk(p) = p[1].text \o Walk(q)
<1>1. Len(p) \in Nat /\ Len(q) \in Nat /\ Len(p) = m + Len(q)
  BY DEF LiesBehind
<1>2. 1 \in 1..Len(p) /\ 1 \in 1..(Len(q) + 1) /\ 1 + m = m + 1
  BY <1>1
<1>3. Walk(p) = WalkFrom(p)[1] /\ Walk(q) = WalkFrom(q)[1]
  BY WalkIs
<1>4. WalkFrom(p)[1] = p[1].text \o WalkFrom(p)[1 + p[1].n]
  BY <1>2, WalkIs
<1>5. WalkFrom(p)[m + 1] = WalkFrom(q)[1]
  BY <1>2, WalkBehind DEF WalksAlike
<1> QED
  BY <1>2, <1>3, <1>4, <1>5

----------------------------------------------------------------------------
(* unescape *)

\* The characters, those the code writes among them.
Chars ==
  STRING \cup {"newline", "tab", "\\", "n", ":", "quote", "time", "Z", "CN=", ";", "SENT-BY=", "MAILTO", "mailto"}

Backslashed(s, i) == i < Len(s) /\ s[i] = "\\"

UnTurn(s, i) ==
  IF Backslashed(s, i) THEN [n |-> 2, text |-> Unescaped(s[i + 1])] ELSE [n |-> 1, text |-> <<s[i]>>]
UnTurns(s) == [i \in DOMAIN s |-> UnTurn(s, i)]

LEMMA UnescapeIsWalk == \A s : unescape(s) = Walk(UnTurns(s))
BY DEF unescape, UnTurns, UnTurn, Backslashed

LEMMA FewAre ==
  ASSUME NEW T, NEW a \in T, NEW b \in T
  PROVE  /\ <<a>> \in Seq(T) /\ <<a, b>> \in Seq(T)
         /\ <<a>> # <<>> /\ <<a, b>> # <<>> /\ Len(<<a>>) = 1 /\ Len(<<a, b>>) = 2
  OBVIOUS

LEMMA UnescapedType == \A c \in Chars : Unescaped(c) \in Seq(Chars)
<1>1. <<"newline", "tab">> \in Seq(Chars) /\ <<"tab">> \in Seq(Chars)
  <2>1. "newline" \in Chars /\ "tab" \in Chars
    BY DEF Chars
  <2> QED
    BY <2>1, FewAre, Zenon
<1>2. \A c \in Chars : <<c>> \in Seq(Chars)
  BY FewAre, Zenon
<1> QED
  BY <1>1, <1>2, Zenon DEF Unescaped

LEMMA UnTurnsType ==
  ASSUME NEW s \in Seq(Chars)
  PROVE  /\ UnTurns(s) \in Seq(Turns(Chars)) /\ Len(UnTurns(s)) = Len(s)
         /\ \A i \in 1..Len(s) : UnTurns(s)[i] = UnTurn(s, i)
         /\ Paced(UnTurns(s))
<1>0. Len(s) \in Nat /\ DOMAIN s = 1..Len(s) /\ \A i \in 1..Len(s) : s[i] \in Chars
  OBVIOUS
<1>1. ASSUME NEW i \in 1..Len(s)
      PROVE  UnTurn(s, i) \in Turns(Chars) /\ UnTurn(s, i).n >= 1 /\ i + UnTurn(s, i).n <= Len(s) + 1
  <2>1. CASE Backslashed(s, i)
    <3>1. i + 1 \in 1..Len(s) /\ i + 2 <= Len(s) + 1
      BY <1>0, <2>1 DEF Backslashed
    <3>2. Unescaped(s[i + 1]) \in Seq(Chars)
      BY <1>0, <3>1, UnescapedType
    <3>3. UnTurn(s, i) = [n |-> 2, text |-> Unescaped(s[i + 1])]
      BY <2>1 DEF UnTurn
    <3> QED
      BY <3>1, <3>2, <3>3 DEF Turns
  <2>2. CASE ~Backslashed(s, i)
    <3>1. UnTurn(s, i) = [n |-> 1, text |-> <<s[i]>>]
      BY <2>2 DEF UnTurn
    <3>2. <<s[i]>> \in Seq(Chars)
      BY <1>0
    <3> QED
      BY <1>0, <3>1, <3>2 DEF Turns
  <2> QED
    BY <2>1, <2>2
<1>2. UnTurns(s) = [i \in 1..Len(s) |-> UnTurn(s, i)]
  BY <1>0 DEF UnTurns
<1>3. UnTurns(s) \in Seq(Turns(Chars)) /\ Len(UnTurns(s)) = Len(s)
  BY <1>0, <1>1, <1>2
<1>4. \A i \in 1..Len(s) : UnTurns(s)[i] = UnTurn(s, i)
  BY <1>2
<1>5. Paced(UnTurns(s))
  BY <1>1, <1>3, <1>4 DEF Paced
<1> QED
  BY <1>3, <1>4, <1>5

\* What stands for a text, whatever is behind it.
UnSays(o, r) == \A u \in Seq(Chars) : unescape(o \o u) = r \o unescape(u)

LEMMA UnescapeType == ASSUME NEW s \in Seq(Chars) PROVE unescape(s) \in Seq(Chars)
  BY UnescapeIsWalk, UnTurnsType, WalkType

LEMMA UnescapeEmpty == unescape(<<>>) = <<>>
<1>1. <<>> \in Seq(Chars) /\ Len(<<>>) = 0
  OBVIOUS
<1>2. UnTurns(<<>>) \in Seq(Turns(Chars)) /\ Len(UnTurns(<<>>)) = 0 /\ Paced(UnTurns(<<>>))
  BY <1>1, UnTurnsType
<1>3. Walk(UnTurns(<<>>)) = WalkFrom(UnTurns(<<>>))[1] /\ WalkFrom(UnTurns(<<>>))[0 + 1] = <<>>
  BY <1>2, WalkIs
<1> QED
  BY <1>3, UnescapeIsWalk

\* A text that is taken in one turn.
LEMMA OneTurnUnescapes ==
  ASSUME NEW t \in Seq(Chars), t # <<>>, NEW r \in Seq(Chars),
         \A u \in Seq(Chars) : UnTurn(t \o u, 1) = [n |-> Len(t), text |-> r]
  PROVE  UnSays(t, r)
<1> SUFFICES ASSUME NEW u \in Seq(Chars) PROVE unescape(t \o u) = r \o unescape(u)
  BY DEF UnSays
<1> DEFINE s == t \o u
           p == UnTurns(s)
           q == UnTurns(u)
           m == Len(t)
<1>1. /\ s \in Seq(Chars) /\ Len(s) = m + Len(u) /\ m \in Nat /\ Len(u) \in Nat
      /\ \A j \in 1..Len(u) : s[m + j] = u[j]
  BY ConcatProperties
<1>2. m >= 1 /\ 1 \in 1..Len(s)
  BY <1>1, EmptySeq
<1>3. /\ p \in Seq(Turns(Chars)) /\ Len(p) = Len(s) /\ Paced(p)
      /\ q \in Seq(Turns(Chars)) /\ Len(q) = Len(u) /\ Paced(q)
      /\ \A i \in 1..Len(s) : p[i] = UnTurn(s, i)
      /\ \A i \in 1..Len(u) : q[i] = UnTurn(u, i)
  BY <1>1, UnTurnsType
<1>4. p[1] = [n |-> m, text |-> r]
  <2>1. UnTurn(s, 1) = [n |-> m, text |-> r]
    OBVIOUS
  <2> HIDE DEF p, s
  <2> QED
    BY <1>2, <1>3, <2>1
<1> HIDE DEF p, q, s, m
<1>5. \A j \in 1..Len(u) : p[m + j] = q[j]
  <2> SUFFICES ASSUME NEW j \in 1..Len(u) PROVE p[m + j] = q[j]
    OBVIOUS
  <2>1. m + j \in 1..Len(s) /\ s[m + j] = u[j] /\ (m + j < Len(s) <=> j < Len(u))
    BY <1>1
  <2>2. j < Len(u) => s[(m + j) + 1] = u[j + 1]
    <3>1. j < Len(u) => j + 1 \in 1..Len(u) /\ m + (j + 1) = (m + j) + 1
      BY <1>1
    <3> QED
      BY <1>1, <3>1
  <2>3. UnTurn(s, m + j) = UnTurn(u, j)
    BY <2>1, <2>2, Zenon DEF UnTurn, Backslashed
  <2> QED
    BY <1>3, <2>1, <2>3
<1>6. LiesBehind(p, q, m)
  BY <1>1, <1>3, <1>5 DEF LiesBehind
<1>7. Walk(p) = p[1].text \o Walk(q)
  <2>1. p[1].n = m
    BY <1>4
  <2> QED
    BY <1>1, <1>2, <1>3, <1>6, <2>1, WalkTakes
<1>8. p[1].text = r
  BY <1>4
<1> QED
  BY <1>7, <1>8, UnescapeIsWalk DEF p, q, s

EscapedChar(c) ==
  CASE c = "newline" -> <<"\\", "n">> [] c \in {"\\", ","} -> <<"\\", c>> [] OTHER -> <<c>>
MeantChar(c) == IF c = "newline" THEN <<"newline", "tab">> ELSE <<c>>

\* A character as it is escaped stands for it.
LEMMA EscapedSays ==
  ASSUME NEW c \in Chars
  PROVE  /\ EscapedChar(c) \in Seq(Chars) /\ MeantChar(c) \in Seq(Chars)
         /\ UnSays(EscapedChar(c), MeantChar(c))
<1>1. MeantChar(c) \in Seq(Chars)
  <2>1. "newline" \in Chars /\ "tab" \in Chars
    BY DEF Chars
  <2> QED
    BY <2>1, FewAre, Zenon DEF MeantChar
<1>2. CASE c = "newline" \/ c = "\\" \/ c = ","
  <2> DEFINE d == IF c = "newline" THEN "n" ELSE c
             t == <<"\\", d>>
  <2>1. d \in Chars /\ Unescaped(d) = MeantChar(c)
    <3>1. "n" \in Chars /\ Unescaped("n") = <<"newline", "tab">> /\ Unescaped("\\") = <<"\\">>
          /\ Unescaped(",") = <<",">>
      BY DEF Unescaped, Chars
    <3>2. CASE c = "newline"
      BY <3>1, <3>2, Zenon DEF MeantChar
    <3>3. CASE c # "newline"
      <4>1. MeantChar(c) = <<c>> /\ d = c /\ c \in Chars
        BY <3>3, Zenon DEF MeantChar
      <4> HIDE DEF d
      <4> QED
        BY <1>2, <3>1, <3>3, <4>1
    <3> QED
      BY <3>2, <3>3
  <2>2. EscapedChar(c) = t
    BY <1>2 DEF EscapedChar
  <2> HIDE DEF d
  <2>3. t \in Seq(Chars) /\ t # <<>> /\ Len(t) = 2
    <3>1. "\\" \in Chars
      BY DEF Chars
    <3> QED
      BY <2>1, <3>1, FewAre, Zenon
  <2>4. ASSUME NEW u \in Seq(Chars) PROVE UnTurn(t \o u, 1) = [n |-> Len(t), text |-> MeantChar(c)]
    <3>1. (t \o u)[1] = "\\" /\ (t \o u)[1 + 1] = d /\ 1 < Len(t \o u)
      BY <2>1
    <3> QED
      BY <2>1, <2>3, <3>1 DEF UnTurn, Backslashed
  <2> QED
    BY <1>1, <2>2, <2>3, <2>4, OneTurnUnescapes
<1>3. CASE c # "newline" /\ c # "\\" /\ c # ","
  <2> DEFINE t == <<c>>
  <2>1. EscapedChar(c) = t /\ MeantChar(c) = t
    BY <1>3 DEF EscapedChar, MeantChar
  <2>3. t \in Seq(Chars) /\ t # <<>> /\ Len(t) = 1
    BY FewAre, Zenon
  <2>4. ASSUME NEW u \in Seq(Chars) PROVE UnTurn(t \o u, 1) = [n |-> Len(t), text |-> t]
    <3>1. (t \o u)[1] = c
      OBVIOUS
    <3> QED
      BY <1>3, <2>3, <3>1 DEF UnTurn, Backslashed
  <2> QED
    BY <2>1, <2>3, <2>4, OneTurnUnescapes
<1> QED
  BY <1>1, <1>2, <1>3

GroupsStrings(r, v, w) == (r \o v) \o w = r \o (v \o w) /\ v \o w \in Seq(Chars)

LEMMA GroupingStrings ==
  ASSUME NEW r \in Seq(Chars), NEW v \in Seq(Chars), NEW w \in Seq(Chars)
  PROVE  GroupsStrings(r, v, w)
  BY DEF GroupsStrings

LEMMA UnSaysConcat ==
  ASSUME NEW o \in Seq(Chars), NEW r \in Seq(Chars), UnSays(o, r),
         NEW t \in Seq(Chars), NEW v \in Seq(Chars), UnSays(t, v)
  PROVE  UnSays(o \o t, r \o v)
<1> SUFFICES ASSUME NEW u \in Seq(Chars) PROVE unescape((o \o t) \o u) = (r \o v) \o unescape(u)
  BY DEF UnSays
<1>1. GroupsStrings(o, t, u)
  BY GroupingStrings, Zenon
<1>2. unescape(o \o (t \o u)) = r \o unescape(t \o u) /\ unescape(t \o u) = v \o unescape(u)
  BY <1>1, Zenon DEF UnSays, GroupsStrings
<1>3. unescape(u) \in Seq(Chars)
  BY UnescapeType
<1>4. GroupsStrings(r, v, unescape(u))
  BY <1>3, GroupingStrings, Zenon
<1> QED
  BY <1>1, <1>2, <1>4, Zenon DEF GroupsStrings

\* A text is read as it was escaped.
LEMMA Unescapes ==
  ASSUME NEW prose \in Seq(STRING)
  PROVE  unescape(Escaped(prose)) =
           FlattenSeq([i \in DOMAIN prose |->
             IF prose[i] = "newline" THEN <<"newline", "tab">> ELSE <<prose[i]>>])
<1> DEFINE E == [i \in DOMAIN prose |-> EscapedChar(prose[i])]
           M == [i \in DOMAIN prose |-> MeantChar(prose[i])]
           N == Len(prose)
           S == {i \in 1..(N + 1) : UnSays(Upto(E, i - 1), Upto(M, i - 1))}
<1>0. N \in Nat /\ DOMAIN prose = 1..N /\ \A i \in 1..N : prose[i] \in Chars
  <2>1. N \in Nat /\ DOMAIN prose = 1..N /\ \A i \in 1..N : prose[i] \in STRING
    OBVIOUS
  <2>2. \A c \in STRING : c \in Chars
    BY Zenon DEF Chars
  <2> QED
    BY <2>1, <2>2
<1>1. \A i \in 1..N : /\ EscapedChar(prose[i]) \in Seq(Chars) /\ MeantChar(prose[i]) \in Seq(Chars)
                      /\ UnSays(EscapedChar(prose[i]), MeantChar(prose[i]))
  BY <1>0, EscapedSays
<1>2. /\ E \in Seq(Seq(Chars)) /\ Len(E) = N /\ \A i \in 1..N : E[i] = EscapedChar(prose[i])
      /\ M \in Seq(Seq(Chars)) /\ Len(M) = N /\ \A i \in 1..N : M[i] = MeantChar(prose[i])
  BY <1>0, <1>1
<1>3. \A ss : FlattenSeq(ss) = Seqs!FlattenSeq(ss)
  BY DEF FlattenSeq, Seqs!FlattenSeq
<1>4. Escaped(prose) = Seqs!FlattenSeq(E)
  BY <1>3, Zenon DEF Escaped, EscapedChar
<1>5. FlattenSeq([i \in DOMAIN prose |->
        IF prose[i] = "newline" THEN <<"newline", "tab">> ELSE <<prose[i]>>]) = Seqs!FlattenSeq(M)
  BY <1>3, Zenon DEF MeantChar
<1> HIDE DEF E, M, N
<1>6. /\ Upto(E, 0) = <<>> /\ Upto(M, 0) = <<>>
      /\ Upto(E, N) = Seqs!FlattenSeq(E) /\ Upto(M, N) = Seqs!FlattenSeq(M)
      /\ \A k \in 0..N : Upto(E, k) \in Seq(Chars) /\ Upto(M, k) \in Seq(Chars)
      /\ \A k \in 0..(N - 1) : Upto(E, k + 1) = Upto(E, k) \o E[k + 1] /\ Upto(M, k + 1) = Upto(M, k) \o M[k + 1]
  BY <1>2, UptoGrows
<1>7. UnSays(<<>>, <<>>)
  <2>1. ASSUME NEW u \in Seq(Chars) PROVE unescape(<<>> \o u) = <<>> \o unescape(u)
    <3>1. unescape(u) \in Seq(Chars)
      BY UnescapeType
    <3> QED
      BY <3>1, ConcatEmptySeq
  <2> QED
    BY <2>1 DEF UnSays
<1>8. ASSUME NEW i \in 1..(N + 1), \A j \in 1..(i - 1) : j \in S PROVE i \in S
  <2>1. CASE i = 1
    <3>1. UnSays(Upto(E, i - 1), Upto(M, i - 1))
      BY <1>6, <1>7, <2>1
    <3> QED
      BY <3>1
  <2>2. CASE i # 1
    <3>1. i - 1 \in 1..(i - 1) /\ i - 1 \in 1..N /\ i - 2 \in 0..(N - 1) /\ i - 2 \in 0..N /\ (i - 2) + 1 = i - 1
          /\ (i - 1) - 1 = i - 2
      BY <1>0, <2>2
    <3>2. UnSays(Upto(E, i - 2), Upto(M, i - 2))
      BY <1>8, <3>1
    <3>3. UnSays(E[i - 1], M[i - 1]) /\ E[i - 1] \in Seq(Chars) /\ M[i - 1] \in Seq(Chars)
      BY <1>1, <1>2, <3>1, Zenon
    <3>4. UnSays(Upto(E, i - 2) \o E[i - 1], Upto(M, i - 2) \o M[i - 1])
      BY <1>6, <3>1, <3>2, <3>3, UnSaysConcat, Zenon
    <3>5. UnSays(Upto(E, i - 1), Upto(M, i - 1))
      BY <1>6, <3>1, <3>4
    <3> QED
      BY <3>5
  <2> QED
    BY <2>1, <2>2
<1>9. UnSays(Seqs!FlattenSeq(E), Seqs!FlattenSeq(M))
  <2> HIDE DEF S
  <2> DEFINE K == N + 1
  <2>1. K \in Nat /\ \A i \in 1..K : (\A j \in 1..(i - 1) : j \in S) => i \in S
    BY <1>0, <1>8
  <2>2. K \in 1..K /\ K - 1 = N
    BY <1>0
  <2> HIDE DEF K
  <2>3. \A i \in 1..K : i \in S
    BY <2>1, FromTheStart
  <2>4. N + 1 \in S /\ (N + 1) - 1 = N
    BY <2>2, <2>3 DEF K
  <2> QED
    BY <1>6, <2>4 DEF S
<1>10. unescape(Seqs!FlattenSeq(E) \o <<>>) = Seqs!FlattenSeq(M) \o unescape(<<>>)
  <2>1. <<>> \in Seq(Chars)
    OBVIOUS
  <2> QED
    BY <1>9, <2>1, Zenon DEF UnSays
<1>11. Seqs!FlattenSeq(E) \o <<>> = Seqs!FlattenSeq(E) /\ Seqs!FlattenSeq(M) \o <<>> = Seqs!FlattenSeq(M)
  <2>1. Seqs!FlattenSeq(E) \in Seq(Chars) /\ Seqs!FlattenSeq(M) \in Seq(Chars)
    BY <1>2, FlattenType
  <2> QED
    BY <2>1, ConcatEmptySeq
<1> QED
  BY <1>4, <1>5, <1>10, <1>11, UnescapeEmpty

----------------------------------------------------------------------------
(* Parts of a line *)

LEMMA PrefixIs ==
  ASSUME NEW T, NEW s \in Seq(T), NEW t \in Seq(T)
  PROVE  IsPrefix(s, t) <=> Len(s) <= Len(t) /\ \A i \in 1..Len(s) : s[i] = t[i]
<1>1. Len(s) \in Nat /\ Len(t) \in Nat
  OBVIOUS
<1>2. SubSeq(s, 1, Len(s)) = s
  BY SubSeqFull
<1>3. ASSUME Len(s) <= Len(t)
      PROVE  s = SubSeq(t, 1, Len(s)) <=> \A i \in 1..Len(s) : s[i] = t[i]
  <2> DEFINE u == SubSeq(t, 1, Len(s))
  <2>1. u \in Seq(T) /\ Len(u) = Len(s) /\ \A i \in 1..Len(s) : u[i] = t[i]
    BY <1>1, <1>3, SubSeqProperties
  <2> HIDE DEF u
  <2>2. s = u <=> \A i \in 1..Len(s) : s[i] = u[i]
    BY <2>1, SeqEqual
  <2> QED
    BY <2>1, <2>2 DEF u
<1> QED
  BY <1>2, <1>3 DEF IsPrefix

LEMMA RestIs ==
  ASSUME NEW T, NEW s \in Seq(T), NEW k \in 0..Len(s)
  PROVE  /\ Rest(s, k) \in Seq(T) /\ Len(Rest(s, k)) = Len(s) - k
         /\ \A i \in 1..(Len(s) - k) : Rest(s, k)[i] = s[k + i]
<1>1. Len(s) \in Nat
  OBVIOUS
<1>2. CASE k = Len(s)
  <2>1. Rest(s, k) = <<>>
    BY <1>1, <1>2 DEF Rest
  <2> QED
    BY <1>1, <1>2, <2>1
<1>3. CASE k # Len(s)
  <2>1. k + 1 \in 1..Len(s) /\ Len(s) \in 1..Len(s) /\ \A i \in 1..(Len(s) - k) : k + 1 + i - 1 = k + i
    BY <1>1, <1>3
  <2> QED
    BY <1>1, <1>3, <2>1 DEF Rest
<1> QED
  BY <1>2, <1>3

\* Where a word is found.
LEMMA FoundIs ==
  ASSUME NEW T, NEW s \in Seq(T), NEW w \in Seq(T)
  PROVE  \A k : k \in Found(s, w) <=>
           k \in 0..Len(s) /\ k + Len(w) <= Len(s) /\ \A i \in 1..Len(w) : s[k + i] = w[i]
<1>1. Len(s) \in Nat /\ Len(w) \in Nat
  OBVIOUS
<1>2. ASSUME NEW k \in 0..Len(s)
      PROVE  IsPrefix(w, Rest(s, k)) <=> k + Len(w) <= Len(s) /\ \A i \in 1..Len(w) : s[k + i] = w[i]
  <2> DEFINE r == Rest(s, k)
  <2>1. r \in Seq(T) /\ Len(r) = Len(s) - k /\ \A i \in 1..(Len(s) - k) : r[i] = s[k + i]
    BY RestIs
  <2> HIDE DEF r
  <2>2. IsPrefix(w, r) <=> Len(w) <= Len(r) /\ \A i \in 1..Len(w) : w[i] = r[i]
    <3>1. r \in Seq(T) /\ w \in Seq(T)
      BY <2>1
    <3> QED
      BY <3>1, PrefixIs
  <2>3. Len(w) <= Len(r) <=> k + Len(w) <= Len(s)
    BY <1>1, <2>1
  <2>4. ASSUME k + Len(w) <= Len(s) PROVE \A i \in 1..Len(w) : r[i] = s[k + i]
    BY <1>1, <2>1, <2>4
  <2> QED
    BY <2>2, <2>3, <2>4 DEF r
<1> QED
  BY <1>2, Zenon DEF Found

LEMMA LeastIs ==
  ASSUME NEW S \in SUBSET Nat, NEW m \in S, \A k \in S : m <= k
  PROVE  Min(S) = m
<1> DEFINE n == Min(S)
<1>1. n \in S /\ \A y \in S : n <= y
  BY Zenon DEF Min
<1> HIDE DEF n
<1>2. n \in Nat /\ m \in Nat /\ n <= m /\ m <= n
  BY <1>1
<1>3. n = m
  BY <1>2
<1> QED
  BY <1>3 DEF n

\* The rest behind the first word, when it is found first at k.
LEMMA AfterWordIs ==
  ASSUME NEW T, NEW s \in Seq(T), NEW w \in Seq(T), NEW k \in 0..Len(s), k + Len(w) <= Len(s),
         \A i \in 1..Len(w) : s[k + i] = w[i],
         \A j \in 0..(k - 1) : \E i \in 1..Len(w) : s[j + i] # w[i]
  PROVE  Found(s, w) # {} /\ AfterWord(s, w) = Rest(s, k + Len(w))
<1>1. k \in Found(s, w)
  BY FoundIs
<1>2. Found(s, w) \in SUBSET Nat
  BY DEF Found
<1>3. ASSUME NEW j \in Found(s, w) PROVE k <= j
  <2>1. j \in Nat /\ \A i \in 1..Len(w) : s[j + i] = w[i]
    BY <1>2, <1>3, FoundIs
  <2>2. SUFFICES ASSUME j < k PROVE FALSE
    BY <2>1
  <2>3. j \in 0..(k - 1)
    BY <2>1, <2>2
  <2> QED
    BY <2>1, <2>3
<1>4. Min(Found(s, w)) = k
  BY <1>1, <1>2, <1>3, LeastIs
<1> QED
  BY <1>1, <1>4 DEF AfterWord

Occurs(s, w, k)  == k + Len(w) <= Len(s) /\ \A i \in 1..Len(w) : s[k + i] = w[i]
NoSooner(s, w, k) == \A j \in 0..(k - 1) : \E i \in 1..Len(w) : s[j + i] # w[i]

LEMMA FirstAt ==
  ASSUME NEW s \in Seq(Chars), NEW w \in Seq(Chars), NEW k \in 0..Len(s), Occurs(s, w, k), NoSooner(s, w, k)
  PROVE  Found(s, w) # {} /\ AfterWord(s, w) = Rest(s, k + Len(w))
BY AfterWordIs DEF Occurs, NoSooner

LEMMA RestBehind ==
  ASSUME NEW T, NEW a \in Seq(T), NEW b \in Seq(T)
  PROVE  Rest(a \o b, Len(a)) = b
<1> DEFINE s == a \o b
<1>1. /\ s \in Seq(T) /\ Len(s) = Len(a) + Len(b) /\ Len(a) \in Nat /\ Len(b) \in Nat
      /\ \A j \in 1..Len(b) : s[Len(a) + j] = b[j]
  BY ConcatProperties
<1> HIDE DEF s
<1>2. Len(a) \in 0..Len(s) /\ Len(s) - Len(a) = Len(b)
  BY <1>1
<1>3. /\ Rest(s, Len(a)) \in Seq(T) /\ Len(Rest(s, Len(a))) = Len(b)
      /\ \A i \in 1..Len(b) : Rest(s, Len(a))[i] = s[Len(a) + i]
  BY <1>1, <1>2, RestIs
<1>4. Rest(s, Len(a)) = b
  BY <1>1, <1>3, SeqEqual
<1> QED
  BY <1>4 DEF s

----------------------------------------------------------------------------
(* Times *)

NamePart(ms) == ms \o (IF ms # <<>> /\ ms[1] = "quote" THEN <<":">> ELSE <<>>)
Stamp(utc)   == IF utc THEN <<"time", "Z">> ELSE <<"time">>

PlainName(ms)  == ms[Len(ms)] = ":" /\ \A i \in 1..(Len(ms) - 1) : ms[i] \notin {":", "quote"}
QuotedName(ms) ==
  /\ Len(ms) >= 2 /\ ms[1] = "quote" /\ ms[Len(ms)] = "quote" /\ ms[2] # ":"
  /\ \A i \in 2..(Len(ms) - 1) : ms[i] # "quote"

LEMMA SeqOfMore ==
  ASSUME NEW S, NEW T, S \subseteq T, NEW s \in Seq(S)
  PROVE  s \in Seq(T)
  OBVIOUS

LEMMA StringsAreChars == \A s \in Seq(STRING) : s \in Seq(Chars)
<1>1. STRING \subseteq Chars
  BY Zenon DEF Chars
<1> QED
  BY <1>1, SeqOfMore, Zenon

LEMMA OneByOne ==
  ASSUME NEW T, NEW a \in T, NEW b \in T
  PROVE  <<a>> \o <<b>> = <<a, b>> /\ <<a>> \o <<>> = <<a>>
<1>1. <<a>> \in Seq(T) /\ <<b>> \in Seq(T) /\ <<a, b>> \in Seq(T)
  OBVIOUS
<1> DEFINE x == <<a>>
           y == <<b>>
<1>2. /\ x \in Seq(T) /\ Len(x) = 1 /\ x[1] = a
      /\ y \in Seq(T) /\ Len(y) = 1 /\ y[1] = b
  BY <1>1
<1>3. <<a, b>> \in Seq(T) /\ Len(<<a, b>>) = 2 /\ <<a, b>>[1] = a /\ <<a, b>>[2] = b
  BY <1>1
<1> HIDE DEF x, y
<1>4. x \o <<>> = x
  BY <1>2, ConcatEmptySeq
<1>5. x \o y = <<a, b>>
  <2> DEFINE u == x \o y
             v == <<a, b>>
  <2>1. u \in Seq(T) /\ Len(u) = 2 /\ u[1] = a /\ u[1 + 1] = b
    BY <1>2, ConcatProperties
  <2>2. v \in Seq(T) /\ Len(v) = 2 /\ v[1] = a /\ v[2] = b
    BY <1>3
  <2> HIDE DEF u, v
  <2>3. \A i \in 1..Len(u) : u[i] = v[i]
    BY <2>1, <2>2
  <2>4. u = v
    BY <2>1, <2>2, <2>3, SeqEqual
  <2> QED
    BY <2>4 DEF u, v
<1> QED
  BY <1>4, <1>5 DEF x, y

LEMMA NamesAre ==
  ASSUME NEW ms, IsZoneName(ms)
  PROVE  /\ ms \in Seq(Chars) /\ Len(ms) \in Nat /\ Len(ms) >= 1 /\ ms # <<>>
         /\ PlainName(ms) \/ QuotedName(ms)
         /\ PlainName(ms) => ms[1] # "quote"
<1>1. ms \in Seq(Chars) /\ Len(ms) \in Nat /\ Len(ms) >= 1
  <2>1. ms \in Seq(STRING) /\ Len(ms) >= 1
    BY DEF IsZoneName
  <2>2. ms \in Seq(Chars)
    BY <2>1, StringsAreChars
  <2> QED
    BY <2>1, <2>2
<1>2. PlainName(ms) \/ QuotedName(ms)
  BY Zenon DEF IsZoneName, PlainName, QuotedName
<1>3. ASSUME PlainName(ms) PROVE ms[1] # "quote"
  BY <1>1, <1>3 DEF PlainName
<1> QED
  BY <1>1, <1>2, <1>3

LEMMA StampIs ==
  ASSUME NEW utc \in BOOLEAN
  PROVE  /\ Stamp(utc) \in Seq(Chars) /\ Stamp(utc)[1] = "time"
         /\ utc => Len(Stamp(utc)) = 2 /\ Stamp(utc)[2] = "Z"
         /\ ~utc => Len(Stamp(utc)) = 1
         /\ <<"time">> \in Seq(Chars) /\ <<"Z">> \in Seq(Chars)
<1>1. "time" \in Chars /\ "Z" \in Chars
  BY DEF Chars
<1>2. <<"time">> \in Seq(Chars) /\ <<"Z">> \in Seq(Chars) /\ <<"time", "Z">> \in Seq(Chars)
  BY <1>1, FewAre, Zenon
<1> QED
  BY <1>2 DEF Stamp

\* The parts of the line, and what lies where in it.
LEMMA TimeLineIs ==
  ASSUME NEW ms, IsZoneName(ms), NEW utc \in BOOLEAN
  PROVE  /\ TimeLine(ms, utc) = NamePart(ms) \o Stamp(utc)
         /\ NamePart(ms) \in Seq(Chars) /\ TimeLine(ms, utc) \in Seq(Chars)
         /\ PlainName(ms) => NamePart(ms) = ms
         /\ QuotedName(ms) =>
              Len(NamePart(ms)) = Len(ms) + 1 /\ TimeLine(ms, utc)[Len(ms) + 1] = ":"
         /\ Len(TimeLine(ms, utc)) = Len(NamePart(ms)) + Len(Stamp(utc))
         /\ \A i \in 1..Len(ms) : TimeLine(ms, utc)[i] = ms[i]
         /\ \A i \in (Len(NamePart(ms)) + 1)..Len(TimeLine(ms, utc)) :
              TimeLine(ms, utc)[i] = "time" \/ TimeLine(ms, utc)[i] = "Z"
<1> DEFINE c == IF ms # <<>> /\ ms[1] = "quote" THEN <<":">> ELSE <<>>
           z == IF utc THEN <<"Z">> ELSE <<>>
           h == ms \o c
           t == Stamp(utc)
           s == TimeLine(ms, utc)
<1>1. ms \in Seq(Chars) /\ Len(ms) \in Nat /\ Len(ms) >= 1 /\ ms # <<>>
      /\ (PlainName(ms) => ms[1] # "quote") /\ (QuotedName(ms) => ms[1] = "quote")
  BY NamesAre DEF QuotedName
<1>2. c \in Seq(Chars) /\ (ms[1] = "quote" => c = <<":">>) /\ (ms[1] # "quote" => c = <<>>)
  <2>1. ":" \in Chars
    BY DEF Chars
  <2>2. <<":">> \in Seq(Chars) /\ <<>> \in Seq(Chars)
    BY <2>1, FewAre
  <2> QED
    BY <1>1, <2>2
<1>3. /\ t \in Seq(Chars) /\ t[1] = "time" /\ (utc => Len(t) = 2 /\ t[2] = "Z") /\ (~utc => Len(t) = 1)
      /\ <<"time">> \in Seq(Chars) /\ <<"Z">> \in Seq(Chars)
  BY StampIs
<1>4. <<"time">> \o z = t /\ z \in Seq(Chars)
  <2>1. "time" \in Chars /\ "Z" \in Chars
    BY DEF Chars
  <2>2. <<"time">> \o <<"Z">> = <<"time", "Z">> /\ <<"time">> \o <<>> = <<"time">>
    BY <2>1, OneByOne, Zenon
  <2>3. <<>> \in Seq(Chars)
    OBVIOUS
  <2>4. CASE utc
    BY <1>3, <2>2, <2>3, <2>4, Zenon DEF Stamp
  <2>5. CASE ~utc
    BY <1>3, <2>2, <2>3, <2>5, Zenon DEF Stamp
  <2> QED
    BY <2>4, <2>5
<1>5. s = (h \o <<"time">>) \o z
  BY DEF TimeLine
<1> HIDE DEF c, z, s, t
<1>6. h \in Seq(Chars) /\ Len(h) = Len(ms) + Len(c) /\ Len(c) \in Nat
      /\ (\A i \in 1..Len(ms) : h[i] = ms[i]) /\ (\A i \in 1..Len(c) : h[Len(ms) + i] = c[i])
  BY <1>1, <1>2, ConcatProperties
<1>7. h = NamePart(ms)
  BY DEF NamePart, c
<1> HIDE DEF h
<1>8. s = h \o t
  <2>1. GroupsStrings(h, <<"time">>, z)
    BY <1>3, <1>4, <1>6, GroupingStrings, Zenon
  <2> QED
    BY <1>4, <1>5, <2>1, Zenon DEF GroupsStrings
<1>9. s \in Seq(Chars) /\ Len(s) = Len(h) + Len(t) /\ Len(h) \in Nat /\ Len(t) \in Nat
      /\ (\A i \in 1..Len(h) : s[i] = h[i]) /\ (\A i \in 1..Len(t) : s[Len(h) + i] = t[i])
  <2>1. h \in Seq(Chars) /\ t \in Seq(Chars)
    BY <1>3, <1>6
  <2> QED
    BY <1>8, <2>1, ConcatProperties
<1>10. \A i \in 1..Len(ms) : s[i] = ms[i]
  BY <1>1, <1>6, <1>9
<1>11. ASSUME NEW i \in (Len(h) + 1)..Len(s) PROVE s[i] = "time" \/ s[i] = "Z"
  <2>1. i - Len(h) \in 1..Len(t) /\ Len(h) + (i - Len(h)) = i
    BY <1>9
  <2>2. s[i] = t[i - Len(h)]
    BY <1>9, <2>1
  <2>3. i - Len(h) = 1 \/ (Len(t) = 2 /\ i - Len(h) = 2)
    <3>1. Len(t) = 1 \/ Len(t) = 2
      BY <1>3, Zenon
    <3>2. \A n \in {1, 2} : \A j \in 1..n : j = 1 \/ (n = 2 /\ j = 2)
      OBVIOUS
    <3> QED
      BY <2>1, <3>1, <3>2, Zenon
  <2>4. Len(t) = 2 => t[2] = "Z"
    BY <1>3
  <2> QED
    BY <1>3, <2>2, <2>3, <2>4
<1>12. ASSUME PlainName(ms) PROVE h = ms
  BY <1>1, <1>2, <1>12 DEF h
<1>13. ASSUME QuotedName(ms) PROVE Len(h) = Len(ms) + 1 /\ s[Len(ms) + 1] = ":"
  <2>1. Len(c) = 1 /\ c[1] = ":"
    BY <1>1, <1>2, <1>13
  <2>2. Len(h) = Len(ms) + 1 /\ h[Len(ms) + 1] = ":"
    BY <1>1, <1>6, <2>1
  <2> QED
    BY <1>1, <1>9, <2>2
<1> QED
  BY <1>6, <1>7, <1>8, <1>9, <1>10, <1>11, <1>12, <1>13 DEF s, t

LEMMA ColonsAre ==
  /\ <<":">> \in Seq(Chars) /\ Len(<<":">>) = 1 /\ <<":">>[1] = ":"
  /\ <<"quote", ":">> \in Seq(Chars) /\ Len(<<"quote", ":">>) = 2
  /\ <<"quote", ":">>[1] = "quote" /\ <<"quote", ":">>[2] = ":"
<1>1. ":" \in Chars /\ "quote" \in Chars
  BY DEF Chars
<1>2. <<":">> \in Seq(Chars) /\ <<"quote", ":">> \in Seq(Chars)
  BY <1>1, FewAre, Zenon
<1> QED
  BY <1>2

LEMMA RangeIs == \A s \in Seq(Chars) : \A c : c \in Range(s) <=> \E i \in 1..Len(s) : s[i] = c
BY DEF Range

\* The time is found behind the name of the zone.
LEMMA TimeFound ==
  ASSUME NEW ms, IsZoneName(ms), NEW utc \in BOOLEAN
  PROVE  TimeStr(TimeLine(ms, utc)) = Stamp(utc)
<1> DEFINE s == TimeLine(ms, utc)
           h == NamePart(ms)
           t == Stamp(utc)
           n == Len(ms)
<1>1. n \in Nat /\ n >= 1 /\ ms \in Seq(Chars) /\ (PlainName(ms) \/ QuotedName(ms))
  BY NamesAre
<1>2. /\ s = h \o t /\ h \in Seq(Chars) /\ s \in Seq(Chars) /\ Len(s) = Len(h) + Len(t)
      /\ (PlainName(ms) => h = ms) /\ (QuotedName(ms) => Len(h) = n + 1 /\ s[n + 1] = ":")
      /\ (\A i \in 1..n : s[i] = ms[i])
      /\ \A i \in (Len(h) + 1)..Len(s) : s[i] = "time" \/ s[i] = "Z"
  BY TimeLineIs
<1>3. t \in Seq(Chars) /\ Len(t) \in Nat /\ Len(t) >= 1 /\ Len(s) \in Nat /\ Len(h) \in Nat
  BY <1>2, StampIs
<1> HIDE DEF s, h, t, n
<1>4. Rest(s, Len(h)) = t
  BY <1>2, <1>3, RestBehind
<1>5. CASE PlainName(ms)
  <2> DEFINE w == <<":">>
  <2>1. "quote" \notin Range(s)
    <3>1. ASSUME NEW i \in 1..Len(s) PROVE s[i] # "quote"
      <4>1. CASE i \in 1..n
        <5>1. i = n \/ i \in 1..(n - 1)
          BY <1>1, <4>1
        <5>2. ms[i] # "quote"
          BY <1>5, <5>1 DEF PlainName, n
        <5> QED
          BY <1>2, <4>1, <5>2
      <4>2. CASE i \notin 1..n
        <5>1. i \in (Len(h) + 1)..Len(s)
          BY <1>1, <1>2, <1>3, <1>5, <4>2 DEF n
        <5> QED
          BY <1>2, <5>1
      <4> QED
        BY <4>1, <4>2
    <3> QED
      BY <1>2, <3>1, RangeIs
  <2>2. w \in Seq(Chars) /\ Len(w) = 1 /\ w[1] = ":"
    BY ColonsAre
  <2> HIDE DEF w
  <2> DEFINE k == n - 1
  <2>3. k \in 0..Len(s) /\ k + Len(w) <= Len(s) /\ k + Len(w) = Len(h)
    BY <1>1, <1>2, <1>3, <1>5, <2>2 DEF n
  <2>4. \A i \in 1..Len(w) : s[k + i] = w[i]
    <3>1. s[n] = ":" /\ k + 1 = n
      BY <1>1, <1>2, <1>5 DEF PlainName, n
    <3> HIDE DEF k
    <3> QED
      BY <2>2, <3>1
  <2>5. ASSUME NEW j \in 0..(k - 1) PROVE \E i \in 1..Len(w) : s[j + i] # w[i]
    <3>1. j + 1 \in 1..(n - 1) /\ j + 1 \in 1..n
      BY <1>1
    <3>2. s[j + 1] # ":"
      BY <1>2, <1>5, <3>1 DEF PlainName, n
    <3> QED
      BY <2>2, <3>2
  <2> HIDE DEF k
  <2>6. Found(s, w) # {} /\ AfterWord(s, w) = Rest(s, k + Len(w))
    <3>1. Occurs(s, w, k) /\ NoSooner(s, w, k)
      BY <2>3, <2>4, <2>5 DEF Occurs, NoSooner
    <3> QED
      BY <1>2, <2>2, <2>3, <3>1, FirstAt, Zenon
  <2>7. AfterWord(s, w) = t
    BY <1>4, <2>3, <2>6
  <2>8. TimeStr(s) = AfterWord(s, w)
    BY <2>1, <2>6, Zenon DEF TimeStr, w
  <2> QED
    BY <2>7, <2>8 DEF s, t
<1>6. CASE QuotedName(ms)
  <2> DEFINE w == <<"quote", ":">>
  <2>1. "quote" \in Range(s)
    <3>1. 1 \in 1..Len(s) /\ s[1] = "quote"
      BY <1>1, <1>2, <1>3, <1>6 DEF QuotedName
    <3> QED
      BY <1>2, <3>1, RangeIs
  <2>2. w \in Seq(Chars) /\ Len(w) = 2 /\ w[1] = "quote" /\ w[2] = ":"
    BY ColonsAre
  <2> HIDE DEF w
  <2> DEFINE k == n - 1
  <2>3. k \in 0..Len(s) /\ k + Len(w) <= Len(s) /\ k + Len(w) = Len(h)
    BY <1>1, <1>2, <1>3, <1>6, <2>2
  <2>4. \A i \in 1..Len(w) : s[k + i] = w[i]
    <3>1. s[n] = "quote" /\ k + 1 = n /\ k + 2 = n + 1 /\ s[n + 1] = ":"
      <4>1. n \in 1..n /\ k + 1 = n /\ k + 2 = n + 1
        BY <1>1
      <4>2. ms[n] = "quote"
        BY <1>6 DEF QuotedName, n
      <4> QED
        BY <1>2, <1>6, <4>1, <4>2
    <3> HIDE DEF k
    <3> QED
      BY <2>2, <3>1
  <2>5. ASSUME NEW j \in 0..(k - 1) PROVE \E i \in 1..Len(w) : s[j + i] # w[i]
    <3>1. CASE j = 0
      <4>1. s[j + 2] # ":"
        <5>1. 2 \in 1..n /\ j + 2 = 2
          BY <1>1, <1>6, <3>1 DEF QuotedName, n
        <5> QED
          BY <1>2, <1>6, <5>1 DEF QuotedName
      <4> QED
        BY <2>2, <4>1
    <3>2. CASE j # 0
      <4>1. j + 1 \in 2..(n - 1) /\ j + 1 \in 1..n
        BY <1>1, <3>2
      <4>2. s[j + 1] # "quote"
        BY <1>2, <1>6, <4>1 DEF QuotedName, n
      <4> QED
        BY <2>2, <4>2
    <3> QED
      BY <3>1, <3>2
  <2> HIDE DEF k
  <2>6. Found(s, w) # {} /\ AfterWord(s, w) = Rest(s, k + Len(w))
    <3>1. Occurs(s, w, k) /\ NoSooner(s, w, k)
      BY <2>3, <2>4, <2>5 DEF Occurs, NoSooner
    <3> QED
      BY <1>2, <2>2, <2>3, <3>1, FirstAt, Zenon
  <2>7. AfterWord(s, w) = t
    BY <1>4, <2>3, <2>6
  <2>8. TimeStr(s) = AfterWord(s, w)
    BY <2>1, <2>6, Zenon DEF TimeStr, w
  <2> QED
    BY <2>7, <2>8 DEF s, t
<1> QED
  BY <1>1, <1>5, <1>6

\* A line begins with the name of a zone only if it is the one that it names.
LEMMA ZoneListed ==
  ASSUME NEW ms, IsZoneName(ms), NEW a, IsZoneName(a), NEW utc \in BOOLEAN
  PROVE  IsPrefix(a, TimeLine(ms, utc)) <=> a = ms
<1> DEFINE s == TimeLine(ms, utc)
           h == NamePart(ms)
           n == Len(ms)
           m == Len(a)
<1>1. /\ n \in Nat /\ n >= 1 /\ ms \in Seq(Chars) /\ (PlainName(ms) \/ QuotedName(ms))
      /\ (PlainName(ms) => ms[1] # "quote")
      /\ m \in Nat /\ m >= 1 /\ a \in Seq(Chars) /\ (PlainName(a) \/ QuotedName(a))
      /\ (PlainName(a) => a[1] # "quote")
  BY NamesAre
<1>2. /\ h \in Seq(Chars) /\ s \in Seq(Chars) /\ Len(s) = Len(h) + Len(Stamp(utc))
      /\ (PlainName(ms) => h = ms) /\ (QuotedName(ms) => Len(h) = n + 1 /\ s[n + 1] = ":")
      /\ (\A i \in 1..n : s[i] = ms[i])
      /\ \A i \in (Len(h) + 1)..Len(s) : s[i] = "time" \/ s[i] = "Z"
  BY TimeLineIs
<1>3. Len(h) \in Nat /\ Len(s) \in Nat /\ n <= Len(s) /\ Len(Stamp(utc)) \in Nat
  <2>1. Len(h) \in Nat /\ Len(s) \in Nat /\ Len(Stamp(utc)) \in Nat
    BY <1>2, StampIs
  <2> HIDE DEF s, h
  <2> QED
    BY <1>1, <1>2, <2>1
<1> HIDE DEF s, h, n
<1>4. IsPrefix(a, s) <=> m <= Len(s) /\ \A i \in 1..m : a[i] = s[i]
  <2>1. a \in Seq(Chars) /\ s \in Seq(Chars)
    BY <1>1, <1>2
  <2> QED
    BY <2>1, PrefixIs
<1> HIDE DEF m
<1>5. ASSUME a = ms PROVE IsPrefix(a, s)
  <2>1. m = n
    BY <1>5 DEF m, n
  <2> QED
    BY <1>2, <1>3, <1>4, <1>5, <2>1
<1>6. ASSUME m <= Len(s), \A i \in 1..m : a[i] = s[i] PROVE a = ms
  <2>1. a[1] = ms[1] /\ a[m] = s[m] /\ m \in 1..Len(s)
    BY <1>1, <1>2, <1>6
  <2>2. ASSUME m = n PROVE a = ms
    <3>1. \A i \in 1..m : a[i] = ms[i]
      BY <1>2, <1>6, <2>2
    <3> QED
      BY <1>1, <2>2, <3>1, SeqEqual DEF m, n
  <2>3. CASE PlainName(ms)
    <3>1. PlainName(a)
      BY <1>1, <2>1, <2>3 DEF QuotedName
    <3>2. a[m] = ":" /\ s[m] = ":"
      BY <2>1, <3>1 DEF PlainName, m
    <3>3. ASSUME m # n PROVE FALSE
      <4>1. Len(h) = n
        BY <1>2, <2>3 DEF n
      <4>2. m \in 1..(n - 1) \/ m \in (Len(h) + 1)..Len(s)
        BY <1>1, <1>3, <2>1, <3>3, <4>1
      <4>3. CASE m \in 1..(n - 1)
        <5>1. ms[m] # ":" /\ m \in 1..n
          BY <1>1, <2>3, <4>3 DEF PlainName, n
        <5> QED
          BY <1>2, <3>2, <5>1
      <4>4. CASE m \in (Len(h) + 1)..Len(s)
        BY <1>2, <3>2, <4>4
      <4> QED
        BY <4>2, <4>3, <4>4
    <3> QED
      BY <2>2, <3>3
  <2>4. CASE QuotedName(ms)
    <3>1. QuotedName(a)
      BY <1>1, <2>1, <2>4 DEF QuotedName
    <3>2. s[m] = "quote" /\ m >= 2
      BY <2>1, <3>1 DEF QuotedName, m
    <3>3. ASSUME m # n PROVE FALSE
      <4>1. Len(h) = n + 1 /\ s[n + 1] = ":"
        BY <1>2, <2>4
      <4>2. m \in 2..(n - 1) \/ m = n + 1 \/ m \in (Len(h) + 1)..Len(s)
        BY <1>1, <1>3, <2>1, <3>2, <3>3, <4>1
      <4>3. CASE m \in 2..(n - 1)
        <5>1. ms[m] # "quote" /\ m \in 1..n
          BY <1>1, <2>4, <4>3 DEF QuotedName, n
        <5> QED
          BY <1>2, <3>2, <5>1
      <4>4. CASE m \in (Len(h) + 1)..Len(s)
        BY <1>2, <3>2, <4>4
      <4>5. CASE m = n + 1
        BY <3>2, <4>1, <4>5
      <4> QED
        BY <4>2, <4>3, <4>4, <4>5
    <3> QED
      BY <2>2, <3>3
  <2> QED
    BY <1>1, <2>3, <2>4
<1> QED
  BY <1>4, <1>5, <1>6 DEF s

\* The time of a line, read in the zone that the line names.
LEMMA TimeIsRead ==
  ASSUME NEW ms, IsZoneName(ms), NEW utc \in BOOLEAN,
         NEW table, \A i \in DOMAIN table : IsZoneName(table[i].ms)
  PROVE  vcal2utc(TimeLine(ms, utc), table) =
           LET rows == {i \in DOMAIN table : table[i].ms = ms} IN
           CASE utc -> <<"UTC">>
             [] ~utc /\ rows = {} -> Nothing
             [] ~utc /\ rows # {} -> <<table[Min(rows)].posix>>
<1> DEFINE s == TimeLine(ms, utc)
           t == Stamp(utc)
           rows == {i \in DOMAIN table : table[i].ms = ms}
<1>1. TimeStr(s) = t
  BY TimeFound
<1>2. t \in Seq(Chars) /\ Len(t) \in Nat /\ t[1] = "time" /\ (utc => Len(t) = 2 /\ t[2] = "Z") /\ (~utc => Len(t) = 1)
  BY StampIs
<1> DEFINE one == <<"time">>
           two == <<"time", "Z">>
<1>3. /\ one \in Seq(Chars) /\ Len(one) = 1 /\ one[1] = "time"
      /\ two \in Seq(Chars) /\ Len(two) = 2 /\ two[1] = "time" /\ two[2] = "Z"
  <2>1. "time" \in Chars /\ "Z" \in Chars
    BY DEF Chars
  <2>2. one \in Seq(Chars) /\ two \in Seq(Chars)
    BY <2>1, FewAre, Zenon
  <2> QED
    BY <2>2
<1>4. IsPrefix(one, t)
  <2> HIDE DEF one, t
  <2>1. Len(one) <= Len(t) /\ \A i \in 1..Len(one) : one[i] = t[i]
    <3>1. CASE utc
      BY <1>2, <1>3, <3>1
    <3>2. CASE ~utc
      BY <1>2, <1>3, <3>2
    <3> QED
      BY <3>1, <3>2
  <2> QED
    BY <1>2, <1>3, <2>1, PrefixIs
<1>5. IsPrefix(two, t) <=> utc
  <2> HIDE DEF two, t
  <2>1. IsPrefix(two, t) <=> Len(two) <= Len(t) /\ \A i \in 1..Len(two) : two[i] = t[i]
    BY <1>2, <1>3, PrefixIs
  <2>2. CASE utc
    <3>1. Len(two) <= Len(t) /\ \A i \in 1..Len(two) : two[i] = t[i]
      BY <1>2, <1>3, <2>2
    <3> QED
      BY <2>1, <2>2, <3>1
  <2>3. CASE ~utc
    <3>1. ~(Len(two) <= Len(t))
      <4>1. Len(t) = 1 /\ Len(two) = 2
        BY <1>2, <1>3, <2>3, Zenon
      <4> QED
        BY <4>1
    <3> QED
      BY <2>1, <2>3, <3>1
  <2> QED
    BY <2>2, <2>3
<1>6. {i \in DOMAIN table : IsPrefix(table[i].ms, s)} = rows
  BY ZoneListed, ZenonT(30)
<1>7. t # Nothing
  <2> HIDE DEF t
  <2>1. Len(t) # 0
    BY <1>2
  <2> QED
    BY <2>1 DEF Nothing
<1> HIDE DEF s, t, rows
<1>8. vcal2utc(s, table) = IF utc THEN <<"UTC">> ELSE ZoneOf(s, table)
  BY <1>1, <1>4, <1>5, <1>7, Zenon DEF vcal2utc
<1>9. ZoneOf(s, table) = IF rows = {} THEN Nothing ELSE <<table[Min(rows)].posix>>
  BY <1>6, Zenon DEF ZoneOf
<1>10. vcal2utc(s, table) =
         CASE utc -> <<"UTC">>
           [] ~utc /\ rows = {} -> Nothing
           [] ~utc /\ rows # {} -> <<table[Min(rows)].posix>>
  BY <1>8, <1>9, Zenon
<1> QED
  BY <1>10, Zenon DEF s, rows

----------------------------------------------------------------------------
(* People *)

RunsTo(s, max, Stops, k) ==
  /\ k \in 0..Len(s) /\ k <= max /\ \A i \in 1..k : s[i] \notin Stops
  /\ k = max \/ k = Len(s) \/ s[k + 1] \in Stops

LEMMA RunIs ==
  ASSUME NEW s \in Seq(Chars), NEW max \in Nat, NEW Stops, NEW k, RunsTo(s, max, Stops, k)
  PROVE  Run(s, max, Stops) = k
<1> DEFINE S == {max} \cup {j \in 0..Len(s) : j = Len(s) \/ s[j + 1] \in Stops}
<1>1. Len(s) \in Nat /\ k \in 0..Len(s) /\ k <= max /\ \A i \in 1..k : s[i] \notin Stops
  BY DEF RunsTo
<1>2. k \in S
  BY <1>1, Zenon DEF RunsTo
<1>3. ASSUME NEW j \in S PROVE k <= j
  <2>1. CASE j = max
    BY <1>1, <2>1
  <2>2. CASE j # max
    <3>1. j \in 0..Len(s) /\ (j = Len(s) \/ s[j + 1] \in Stops)
      BY <2>2
    <3>2. SUFFICES ASSUME j < k PROVE FALSE
      BY <1>1, <3>1
    <3>3. j + 1 \in 1..k /\ j # Len(s)
      BY <1>1, <3>1, <3>2
    <3> QED
      BY <1>1, <3>1, <3>3
  <2> QED
    BY <2>1, <2>2
<1>4. S \in SUBSET Nat
  BY <1>1
<1> HIDE DEF S
<1>5. Min(S) = k
  BY <1>2, <1>3, <1>4, LeastIs
<1> QED
  BY <1>5 DEF Run, S

LEMMA RunIn ==
  ASSUME NEW s \in Seq(Chars), NEW max \in Nat, NEW Stops
  PROVE  Run(s, max, Stops) \in 0..max
<1> DEFINE S == {max} \cup {j \in 0..Len(s) : j = Len(s) \/ s[j + 1] \in Stops}
           k == Min(S)
<1>1. S \in SUBSET Nat /\ max \in S
  OBVIOUS
<1> HIDE DEF S
<1>2. \E x \in S : \A y \in S : x <= y
  BY <1>1, LeastExists
<1>3. k \in S /\ \A y \in S : k <= y
  BY <1>2, Zenon DEF Min
<1> HIDE DEF k
<1>4. k \in 0..max
  BY <1>1, <1>3
<1> QED
  BY <1>4 DEF Run, S, k

\* What is behind the beginning of a text.
LEMMA ConcatAt ==
  ASSUME NEW a \in Seq(Chars), NEW b \in Seq(Chars)
  PROVE  /\ a \o b \in Seq(Chars) /\ Len(a \o b) = Len(a) + Len(b) /\ Len(a) \in Nat /\ Len(b) \in Nat
         /\ \A i \in 1..Len(a) : (a \o b)[i] = a[i]
         /\ \A i \in 1..Len(b) : (a \o b)[Len(a) + i] = b[i]
BY ConcatProperties

LEMMA PrefixOfConcat ==
  ASSUME NEW a \in Seq(Chars), NEW b \in Seq(Chars)
  PROVE  IsPrefix(a, a \o b)
<1> DEFINE s == a \o b
<1>1. s \in Seq(Chars) /\ Len(a) <= Len(s) /\ \A i \in 1..Len(a) : a[i] = s[i]
  BY ConcatAt
<1> HIDE DEF s
<1>2. IsPrefix(a, s)
  BY <1>1, PrefixIs
<1> QED
  BY <1>2 DEF s

\* A character that differs refutes a beginning.
LEMMA NotPrefix ==
  ASSUME NEW w \in Seq(Chars), NEW t \in Seq(Chars), NEW i \in 1..Len(w),
         i <= Len(t) => w[i] # t[i]
  PROVE  ~IsPrefix(w, t)
<1>1. SUFFICES ASSUME IsPrefix(w, t) PROVE FALSE
  OBVIOUS
<1>2. Len(w) <= Len(t) /\ \A j \in 1..Len(w) : w[j] = t[j]
  BY <1>1, PrefixIs
<1> QED
  BY <1>2

LEMMA RestType ==
  ASSUME NEW s \in Seq(Chars), NEW k \in Nat
  PROVE  Rest(s, k) \in Seq(Chars)
<1>1. CASE k <= Len(s)
  BY <1>1, RestIs
<1>2. CASE ~(k <= Len(s))
  <2>1. Rest(s, k) = <<>>
    BY <1>2 DEF Rest
  <2> QED
    BY <2>1
<1> QED
  BY <1>1, <1>2

\* An address without blanks is read up to its end, or as much of it as there is
\* room for.
Blank == " "
MailRead(mail) == SubSeq(mail, 1, Min({MailSize, Len(mail)}))
Unblanked(mail) == mail # <<>> /\ \A i \in 1..Len(mail) : mail[i] # Blank

LEMMA LesserIs ==
  ASSUME NEW a \in Nat, NEW b \in Nat
  PROVE  /\ Min({a, b}) \in Nat /\ Min({a, b}) <= a /\ Min({a, b}) <= b
         /\ Min({a, b}) = a \/ Min({a, b}) = b
<1> DEFINE S == {a, b}
<1>1. CASE a <= b
  <2>1. S \in SUBSET Nat /\ a \in S /\ \A x \in S : a <= x
    BY <1>1
  <2> HIDE DEF S
  <2>2. Min(S) = a
    BY <2>1, LeastIs
  <2> QED
    BY <1>1, <2>2 DEF S
<1>2. CASE ~(a <= b)
  <2>1. S \in SUBSET Nat /\ b \in S /\ \A x \in S : b <= x
    BY <1>2
  <2> HIDE DEF S
  <2>2. Min(S) = b
    BY <2>1, LeastIs
  <2> QED
    BY <1>2, <2>2 DEF S
<1> QED
  BY <1>1, <1>2

LEMMA MailIs ==
  ASSUME NEW mail \in Seq(Chars), Unblanked(mail)
  PROVE  Mail(mail) = MailRead(mail) /\ MailRead(mail) # <<>>
<1> DEFINE n == Len(mail)
           m == Min({MailSize, n})
<1>1. mail \in Seq(Chars) /\ mail # <<>> /\ \A i \in 1..n : mail[i] # Blank
  BY DEF Unblanked
<1>2. n \in Nat /\ n >= 1
  <2>1. n \in Nat /\ n # 0
    BY <1>1, EmptySeq
  <2> HIDE DEF n
  <2> QED
    BY <2>1
<1>3. MailSize \in Nat /\ MailSize >= 1
  BY SizeAssumption
<1>4. Rest(mail, 0) = mail
  <2>1. SubSeq(mail, 1, n) = mail
    BY <1>1, SubSeqFull
  <2> QED
    BY <2>1 DEF Rest
<1>5. mail[1] \in Range(mail)
  <2>1. \E i \in 1..Len(mail) : mail[i] = mail[1]
    BY <1>2
  <2> QED
    BY <2>1, RangeIs, Zenon
<1>6. SubSeq(mail, 1, m) = MailRead(mail)
  BY DEF MailRead
<1> HIDE DEF n
<1>7. m \in Nat /\ m <= MailSize /\ m <= n /\ (m = MailSize \/ m = n)
  BY <1>2, <1>3, LesserIs
<1> HIDE DEF m
<1>8. m \in 1..n
  BY <1>2, <1>3, <1>7
<1>9. Run(mail, n, Range(mail) \ {Blank}) = 0
  <2>1. mail[1] # Blank /\ 0 + 1 = 1
    BY <1>1, <1>2
  <2>2. mail[0 + 1] \in Range(mail) \ {Blank}
    BY <1>5, <2>1, Zenon
  <2>3. 0 \in 0..Len(mail) /\ 0 <= n /\ \A i \in 1..0 : mail[i] \notin Range(mail) \ {Blank}
    BY <1>2
  <2>4. RunsTo(mail, n, Range(mail) \ {Blank}, 0)
    BY <2>2, <2>3, Zenon DEF RunsTo
  <2> QED
    BY <1>2, <2>4, RunIs, Zenon
<1>10. Run(mail, MailSize, {Blank}) = m
  <2>1. RunsTo(mail, MailSize, {Blank}, m)
    <3>1. m \in 0..Len(mail) /\ m <= MailSize /\ (m = MailSize \/ m = Len(mail))
      BY <1>2, <1>7 DEF n
    <3>2. \A i \in 1..m : mail[i] \notin {Blank}
      BY <1>1, <1>2, <1>7
    <3> QED
      BY <3>1, <3>2, Zenon DEF RunsTo
  <2> QED
    BY <1>3, <2>1, RunIs, Zenon
<1>11. Mail(mail) = SubSeq(mail, 1, m)
  BY <1>4, <1>9, <1>10, Zenon DEF Mail, n, Blank
<1>12. SubSeq(mail, 1, m) # <<>>
  <2> DEFINE u == SubSeq(mail, 1, m)
  <2>1. Len(u) = m
    <3>1. m \in 1..Len(mail) /\ Len(mail) \in Nat
      BY <1>2, <1>8 DEF n
    <3> QED
      BY <3>1, SubSeqProperties
  <2> HIDE DEF u
  <2>2. u # <<>>
    BY <1>8, <2>1
  <2> QED
    BY <2>2 DEF u
<1> QED
  BY <1>6, <1>11, <1>12, Zenon

----------------------------------------------------------------------------
(* One format *)

Free(name, Stops) == \A i \in 1..Len(name) : name[i] \notin Stops

\* A name that fits is read up to what ends it, and the address behind that.
LEMMA ScanReads ==
  ASSUME NEW name \in Seq(Chars), name # <<>>, Len(name) <= NameSize, NEW Stops, Free(name, Stops),
         NEW between \in Seq(Chars), between # <<>>, between[1] \in Stops,
         NEW mail \in Seq(Chars), Unblanked(mail)
  PROVE  Scan(name \o (between \o mail), Stops, between) = <<name, MailRead(mail)>>
<1> DEFINE t == between \o mail
           s == name \o t
           n == Len(name)
<1>1. mail \in Seq(Chars)
  OBVIOUS
<1>2. /\ t \in Seq(Chars) /\ Len(t) = Len(between) + Len(mail) /\ Len(mail) \in Nat
      /\ \A i \in 1..Len(between) : t[i] = between[i]
  BY <1>1, ConcatAt
<1>3. Len(between) \in Nat /\ Len(between) >= 1 /\ n \in Nat /\ n >= 1
  BY EmptySeq
<1> HIDE DEF t
<1>4. /\ s \in Seq(Chars) /\ Len(s) = n + Len(t) /\ Len(t) \in Nat
      /\ (\A i \in 1..n : s[i] = name[i]) /\ (\A i \in 1..Len(t) : s[n + i] = t[i])
  BY <1>2, ConcatAt
<1>5. Rest(s, n) = t
  BY <1>2, RestBehind
<1>6. SubSeq(s, 1, n) = name
  <2> HIDE DEF s
  <2> DEFINE u == SubSeq(s, 1, n)
  <2>1. u \in Seq(Chars) /\ Len(u) = n /\ \A i \in 1..n : u[i] = s[i]
    BY <1>2, <1>3, <1>4, SubSeqProperties
  <2> HIDE DEF u
  <2>2. \A i \in 1..Len(u) : u[i] = name[i]
    BY <1>4, <2>1
  <2>3. u = name
    BY <2>1, <2>2, SeqEqual
  <2> QED
    BY <2>3 DEF u
<1>7. Rest(s, n + Len(between)) = mail
  <2> DEFINE a == name \o between
  <2>1. GroupsStrings(name, between, mail)
    BY <1>1, GroupingStrings, Zenon
  <2>2. s = a \o mail
    BY <2>1, Zenon DEF GroupsStrings, t
  <2>3. a \in Seq(Chars) /\ Len(a) = n + Len(between)
    BY ConcatAt
  <2> HIDE DEF a, s, n
  <2>4. Rest(s, Len(a)) = mail
    BY <1>1, <2>2, <2>3, RestBehind
  <2> QED
    BY <2>3, <2>4
<1> HIDE DEF s, n
<1>8. Run(s, NameSize, Stops) = n
  <2>1. NameSize \in Nat /\ n <= NameSize
    BY SizeAssumption DEF n
  <2>2. \A i \in 1..n : s[i] \notin Stops
    BY <1>4 DEF Free, n
  <2>3. s[n + 1] \in Stops
    <3>1. 1 \in 1..Len(t) /\ 1 \in 1..Len(between)
      BY <1>2, <1>3, <1>4
    <3> QED
      BY <1>2, <1>4, <3>1
  <2>4. n \in 0..Len(s)
    BY <1>3, <1>4
  <2>5. RunsTo(s, NameSize, Stops, n)
    BY <2>1, <2>2, <2>3, <2>4 DEF RunsTo
  <2> QED
    BY <1>4, <2>1, <2>5, RunIs
<1>9. IsPrefix(between, t)
  BY <1>1, PrefixOfConcat DEF t
<1>10. n > 0
  BY <1>3
<1>11. Mail(mail) = MailRead(mail) /\ MailRead(mail) # <<>>
  BY MailIs
<1>12. Scan(s, Stops, between) = <<name, MailRead(mail)>>
  BY <1>5, <1>6, <1>7, <1>8, <1>9, <1>10, <1>11, Zenon DEF Scan
<1> QED
  BY <1>12 DEF s, t

LEMMA ScanFails ==
  ASSUME NEW s, NEW Stops, NEW between, NEW k, Run(s, NameSize, Stops) = k, ~IsPrefix(between, Rest(s, k))
  PROVE  Scan(s, Stops, between) = Nothing
BY Zenon DEF Scan

\* A name that is too long is not read.
LEMMA LongNameFails ==
  ASSUME NEW name \in Seq(Chars), Len(name) > NameSize, NEW t \in Seq(Chars),
         NEW Stops, Free(name, Stops),
         NEW between \in Seq(Chars), between # <<>>, between[1] \in Stops
  PROVE  Scan(name \o t, Stops, between) = Nothing
<1> DEFINE s == name \o t
           k == NameSize
<1>1. /\ s \in Seq(Chars) /\ Len(s) = Len(name) + Len(t) /\ Len(name) \in Nat /\ Len(t) \in Nat
      /\ \A i \in 1..Len(name) : s[i] = name[i]
  BY ConcatAt
<1> HIDE DEF s
<1>2. k \in Nat /\ Len(name) > k
  BY SizeAssumption
<1> HIDE DEF k
<1>3. k \in 0..Len(s) /\ \A i \in 1..(k + 1) : s[i] \notin Stops
  <2>1. k \in 0..Len(s) /\ \A i \in 1..(k + 1) : i \in 1..Len(name)
    BY <1>1, <1>2
  <2>2. \A i \in 1..Len(name) : s[i] \notin Stops
    BY <1>1, Zenon DEF Free
  <2> QED
    BY <2>1, <2>2, Zenon
<1>4. Run(s, k, Stops) = k
  <2>1. RunsTo(s, k, Stops, k)
    BY <1>2, <1>3 DEF RunsTo
  <2> QED
    BY <1>1, <1>2, <2>1, RunIs
<1>5. ~IsPrefix(between, Rest(s, k))
  <2> DEFINE r == Rest(s, k)
  <2>1. r \in Seq(Chars) /\ Len(r) = Len(s) - k /\ \A i \in 1..(Len(s) - k) : r[i] = s[k + i]
    <3>1. s \in Seq(Chars) /\ k \in 0..Len(s)
      BY <1>1, <1>3, Zenon
    <3> QED
      BY <3>1, RestIs
  <2>2. 1 \in 1..(Len(s) - k) /\ k + 1 \in 1..(k + 1)
    BY <1>1, <1>2
  <2>3. r[1] \notin Stops
    BY <1>3, <2>1, <2>2
  <2> HIDE DEF r
  <2>4. 1 \in 1..Len(between) /\ between[1] # r[1]
    <3>1. Len(between) \in Nat /\ Len(between) # 0
      BY EmptySeq
    <3> QED
      BY <2>3, <3>1
  <2>5. ~IsPrefix(between, r)
    BY <2>1, <2>4, NotPrefix
  <2> QED
    BY <2>5 DEF r
<1>6. Scan(s, Stops, between) = Nothing
  BY <1>4, <1>5, ScanFails DEF k
<1> QED
  BY <1>6 DEF s

----------------------------------------------------------------------------
(* Parts of a line about a person *)

Semi       == ";"
SentByWord == "SENT-BY="
MailtoWords == {"MAILTO", "mailto"}
ToMail(m)   == <<":", m, ":">>
SentWord    == <<Semi, SentByWord, "quote">>
QuoteTo(m)  == <<"quote", ":", m, ":">>
Sender(d, m) == SentWord \o d \o QuoteTo(m)

LEMMA ThreeAre ==
  ASSUME NEW a \in Chars, NEW b \in Chars, NEW c \in Chars, NEW d \in Chars
  PROVE  /\ <<a, b, c>> \in Seq(Chars) /\ Len(<<a, b, c>>) = 3
         /\ <<a, b, c>>[1] = a /\ <<a, b, c>>[2] = b /\ <<a, b, c>>[3] = c
         /\ <<a, b, c, d>> \in Seq(Chars) /\ Len(<<a, b, c, d>>) = 4
         /\ <<a, b, c, d>>[1] = a /\ <<a, b, c, d>>[2] = b /\ <<a, b, c, d>>[3] = c /\ <<a, b, c, d>>[4] = d
  OBVIOUS

LEMMA NotEmpty == \A s : Len(s) = 3 => s # <<>>
<1>1. Len(<<>>) = 0
  OBVIOUS
<1> QED
  BY <1>1

LEMMA WordsAre ==
  ASSUME NEW m \in MailtoWords
  PROVE  /\ ToMail(m) \in Seq(Chars) /\ Len(ToMail(m)) = 3
         /\ ToMail(m)[1] = ":" /\ ToMail(m)[2] = m /\ ToMail(m)[3] = ":"
         /\ SentWord \in Seq(Chars) /\ Len(SentWord) = 3
         /\ SentWord[1] = Semi /\ SentWord[2] = SentByWord /\ SentWord[3] = "quote"
         /\ QuoteTo(m) \in Seq(Chars) /\ Len(QuoteTo(m)) = 4
         /\ QuoteTo(m)[1] = "quote" /\ QuoteTo(m)[2] = ":" /\ QuoteTo(m)[3] = m /\ QuoteTo(m)[4] = ":"
         /\ m # "quote" /\ m # ":" /\ m \in Chars
<1>1. m \in Chars /\ ":" \in Chars /\ Semi \in Chars /\ SentByWord \in Chars /\ "quote" \in Chars
  BY Zenon DEF Chars, MailtoWords, Semi, SentByWord
<1>2. m # "quote" /\ m # ":"
  BY DEF MailtoWords
<1>3. /\ ToMail(m) \in Seq(Chars) /\ Len(ToMail(m)) = 3
      /\ ToMail(m)[1] = ":" /\ ToMail(m)[2] = m /\ ToMail(m)[3] = ":"
  BY <1>1, ThreeAre, Zenon DEF ToMail
<1>4. /\ SentWord \in Seq(Chars) /\ Len(SentWord) = 3
      /\ SentWord[1] = Semi /\ SentWord[2] = SentByWord /\ SentWord[3] = "quote"
  BY <1>1, ThreeAre, Zenon DEF SentWord
<1>5. /\ QuoteTo(m) \in Seq(Chars) /\ Len(QuoteTo(m)) = 4
      /\ QuoteTo(m)[1] = "quote" /\ QuoteTo(m)[2] = ":" /\ QuoteTo(m)[3] = m /\ QuoteTo(m)[4] = ":"
  BY <1>1, ThreeAre, Zenon DEF QuoteTo
<1> QED
  BY <1>1, <1>2, <1>3, <1>4, <1>5

\* What lies where before an address that a deputy stands for.
LEMMA SenderIs ==
  ASSUME NEW d \in Seq(Chars), NEW m \in MailtoWords
  PROVE  /\ Sender(d, m) \in Seq(Chars) /\ Len(Sender(d, m)) = Len(d) + 7 /\ Len(d) \in Nat
         /\ Sender(d, m) # <<>> /\ Sender(d, m)[1] = Semi
         /\ Sender(d, m)[2] = SentByWord /\ Sender(d, m)[3] = "quote"
         /\ \A i \in 1..Len(d) : Sender(d, m)[3 + i] = d[i]
         /\ Sender(d, m)[Len(d) + 4] = "quote" /\ Sender(d, m)[Len(d) + 5] = ":"
         /\ Sender(d, m)[Len(d) + 6] = m
         /\ Sender(d, m) = SentWord \o (d \o QuoteTo(m)) /\ d \o QuoteTo(m) \in Seq(Chars)
<1> DEFINE a == SentWord
           z == QuoteTo(m)
           b == a \o d
           s == b \o z
           n == Len(d)
<1>1. /\ a \in Seq(Chars) /\ Len(a) = 3 /\ a[1] = Semi /\ a[2] = SentByWord /\ a[3] = "quote"
      /\ z \in Seq(Chars) /\ Len(z) = 4 /\ z[1] = "quote" /\ z[2] = ":" /\ z[3] = m
  BY WordsAre
<1>2. GroupsStrings(a, d, z)
  BY <1>1, GroupingStrings, Zenon
<1>3. s = a \o (d \o z) /\ d \o z \in Seq(Chars)
  BY <1>2, Zenon DEF GroupsStrings
<1> HIDE DEF a, z
<1>4. /\ b \in Seq(Chars) /\ Len(b) = 3 + n /\ n \in Nat
      /\ (\A i \in 1..3 : b[i] = a[i]) /\ (\A i \in 1..n : b[3 + i] = d[i])
  <2>1. /\ b \in Seq(Chars) /\ Len(b) = Len(a) + n /\ n \in Nat
        /\ (\A i \in 1..Len(a) : b[i] = a[i]) /\ (\A i \in 1..n : b[Len(a) + i] = d[i])
    BY <1>1, ConcatAt
  <2> HIDE DEF b, n
  <2> QED
    BY <1>1, <2>1
<1> HIDE DEF b, n
<1>5. /\ s \in Seq(Chars) /\ Len(s) = (3 + n) + 4
      /\ (\A i \in 1..(3 + n) : s[i] = b[i]) /\ (\A i \in 1..4 : s[(3 + n) + i] = z[i])
  <2>1. /\ s \in Seq(Chars) /\ Len(s) = Len(b) + Len(z)
        /\ (\A i \in 1..Len(b) : s[i] = b[i]) /\ (\A i \in 1..Len(z) : s[Len(b) + i] = z[i])
    BY <1>1, <1>4, ConcatAt
  <2> HIDE DEF s
  <2> QED
    BY <1>1, <1>4, <2>1
<1> HIDE DEF s
<1>6. s[1] = Semi /\ s[2] = SentByWord /\ s[3] = "quote"
  BY <1>1, <1>4, <1>5
<1>7. \A i \in 1..n : s[3 + i] = d[i]
  BY <1>4, <1>5
<1>8. s[n + 4] = "quote" /\ s[n + 5] = ":" /\ s[n + 6] = m
  <2>1. (3 + n) + 1 = n + 4 /\ (3 + n) + 2 = n + 5 /\ (3 + n) + 3 = n + 6
    BY <1>4
  <2>2. s[(3 + n) + 1] = z[1] /\ s[(3 + n) + 2] = z[2] /\ s[(3 + n) + 3] = z[3]
    BY <1>5
  <2> QED
    BY <1>1, <2>1, <2>2
<1>9. Len(s) = n + 7 /\ s # <<>>
  <2>1. Len(s) = n + 7 /\ Len(s) # 0
    BY <1>4, <1>5
  <2> QED
    BY <2>1
<1>10. s = Sender(d, m)
  BY DEF s, b, a, z, Sender
<1> QED
  BY <1>3, <1>4, <1>5, <1>6, <1>7, <1>8, <1>9, <1>10 DEF a, z, n

LEMMA SenderBegins ==
  ASSUME NEW d \in Seq(Chars), NEW m \in MailtoWords
  PROVE  /\ Sender(d, m) \in Seq(Chars) /\ Sender(d, m) # <<>> /\ Sender(d, m)[1] = Semi
         /\ Len(Sender(d, m)) \in Nat /\ Len(Sender(d, m)) >= 1
<1> DEFINE b == Sender(d, m)
<1>1. b \in Seq(Chars) /\ Len(b) = Len(d) + 7 /\ Len(d) \in Nat /\ b # <<>> /\ b[1] = Semi
  BY SenderIs, ZenonT(30)
<1> HIDE DEF b
<1>2. Len(b) \in Nat /\ Len(b) >= 1
  BY <1>1
<1> QED
  BY <1>1, <1>2, ZenonT(30) DEF b

LEMMA SenderGroups ==
  ASSUME NEW d \in Seq(Chars), NEW m \in MailtoWords
  PROVE  Sender(d, m) = SentWord \o (d \o QuoteTo(m)) /\ d \o QuoteTo(m) \in Seq(Chars) /\ Len(d) \in Nat
BY SenderIs, ZenonT(30)

----------------------------------------------------------------------------
(* The four formats *)

\* Without a deputy, the format of the word that is there reads the line, and
\* the other does not.
LEMMA PlainReads ==
  ASSUME NEW name \in Seq(Chars), name # <<>>, Len(name) <= NameSize, Free(name, {":", Semi}),
         NEW mail \in Seq(Chars), Unblanked(mail), NEW m \in MailtoWords
  PROVE  Plain(name \o (ToMail(m) \o mail), m) = <<name, MailRead(mail)>>
<1>1. ToMail(m) \in Seq(Chars) /\ ToMail(m) # <<>> /\ ToMail(m)[1] = ":"
  <2>1. ToMail(m) \in Seq(Chars) /\ Len(ToMail(m)) = 3 /\ ToMail(m)[1] = ":"
    BY WordsAre
  <2>2. ToMail(m) # <<>>
    BY <2>1, NotEmpty
  <2> QED
    BY <2>1, <2>2
<1>2. Free(name, {":"}) /\ ":" \in {":"}
  BY DEF Free
<1> DEFINE w == ToMail(m)
           Stops == {":"}
<1> HIDE DEF w, Stops
<1>3. Scan(name \o (w \o mail), Stops, w) = <<name, MailRead(mail)>>
  BY <1>1, <1>2, ScanReads DEF w, Stops
<1> QED
  BY <1>3, Zenon DEF Plain, w, Stops, ToMail

LEMMA PlainTellsWords ==
  ASSUME NEW name \in Seq(Chars), Len(name) <= NameSize, Free(name, {":", Semi}),
         NEW mail \in Seq(Chars), NEW m \in MailtoWords, NEW other \in MailtoWords, other # m
  PROVE  Plain(name \o (ToMail(m) \o mail), other) = Nothing
<1> DEFINE w == ToMail(m)
           v == ToMail(other)
           t == w \o mail
           s == name \o t
           n == Len(name)
           Stops == {":"}
<1>1. /\ w \in Seq(Chars) /\ Len(w) = 3 /\ w[1] = ":" /\ w[2] = m
      /\ v \in Seq(Chars) /\ Len(v) = 3 /\ v[2] = other
  BY WordsAre
<1> HIDE DEF w, v
<1>2. t \in Seq(Chars) /\ Len(t) = 3 + Len(mail) /\ Len(mail) \in Nat /\ t[1] = ":" /\ t[2] = m
  <2>1. /\ t \in Seq(Chars) /\ Len(t) = Len(w) + Len(mail) /\ Len(mail) \in Nat
        /\ \A i \in 1..Len(w) : t[i] = w[i]
    BY <1>1, ConcatAt
  <2> HIDE DEF t
  <2> QED
    BY <1>1, <2>1
<1> HIDE DEF t
<1>3. /\ s \in Seq(Chars) /\ Len(s) = n + Len(t) /\ n \in Nat
      /\ (\A i \in 1..n : s[i] = name[i]) /\ (\A i \in 1..Len(t) : s[n + i] = t[i])
  BY <1>2, ConcatAt
<1>4. Rest(s, n) = t
  BY <1>2, RestBehind
<1> HIDE DEF s, n
<1>5. Run(s, NameSize, Stops) = n
  <2>1. n \in 0..Len(s) /\ n <= NameSize /\ \A i \in 1..n : s[i] \notin Stops
    <3>1. n \in 0..Len(s)
      BY <1>2, <1>3
    <3>2. n <= NameSize
      BY DEF n
    <3>3. \A i \in 1..n : s[i] \notin Stops
      BY <1>3 DEF Free, n
    <3> QED
      BY <3>1, <3>2, <3>3
  <2>2. s[n + 1] \in Stops
    BY <1>2, <1>3
  <2>3. NameSize \in Nat
    BY SizeAssumption
  <2>4. RunsTo(s, NameSize, Stops, n)
    BY <2>1, <2>2, Zenon DEF RunsTo
  <2> QED
    BY <1>3, <2>3, <2>4, RunIs
<1>6. ~IsPrefix(v, t)
  <2>1. 2 \in 1..Len(v) /\ v[2] # t[2]
    BY <1>1, <1>2
  <2> QED
    BY <1>1, <1>2, <2>1, NotPrefix
<1>7. Scan(s, Stops, v) = Nothing
  BY <1>4, <1>5, <1>6, ScanFails
<1> QED
  BY <1>7, Zenon DEF Plain, s, t, w, v, Stops, ToMail

\* A name that is too long is read by none, whatever is behind it.
LEMMA LongNamesFail ==
  ASSUME NEW name \in Seq(Chars), Len(name) > NameSize, Free(name, {":", Semi}),
         NEW t \in Seq(Chars), NEW m \in MailtoWords
  PROVE  Plain(name \o t, m) = Nothing /\ SentBy(name \o t, m) = Nothing
<1>1. Free(name, {":"}) /\ Free(name, {Semi}) /\ ":" \in {":"} /\ Semi \in {Semi}
  BY DEF Free
<1>2. Plain(name \o t, m) = Nothing
  <2>1. ToMail(m) \in Seq(Chars) /\ ToMail(m) # <<>> /\ ToMail(m)[1] = ":"
    <3>1. ToMail(m) \in Seq(Chars) /\ Len(ToMail(m)) = 3 /\ ToMail(m)[1] = ":"
      BY WordsAre
    <3>2. ToMail(m) # <<>>
      BY <3>1, NotEmpty
    <3> QED
      BY <3>1, <3>2
  <2>2. Scan(name \o t, {":"}, ToMail(m)) = Nothing
    BY <1>1, <2>1, LongNameFails, Zenon
  <2> QED
    BY <2>2, Zenon DEF Plain, ToMail
<1>3. SentBy(name \o t, m) = Nothing
  <2> DEFINE s == name \o t
             behind == Rest(s, Run(s, NameSize, {Semi}) + 3)
             d == SubSeq(behind, 1, Run(behind, Len(behind), {"quote"}))
  <2>1. d \in Seq(Chars)
    <3>1. s \in Seq(Chars) /\ Len(s) = Len(name) + Len(t) /\ Len(name) \in Nat /\ Len(t) \in Nat
      BY ConcatAt
    <3>2. Run(s, NameSize, {Semi}) \in Nat
      <4>1. NameSize \in Nat
        BY SizeAssumption
      <4> HIDE DEF s
      <4>2. Run(s, NameSize, {Semi}) \in 0..NameSize
        BY <3>1, <4>1, RunIn
      <4> QED
        BY <4>1, <4>2
    <3> HIDE DEF s
    <3>3. behind \in Seq(Chars)
      BY <3>1, <3>2, RestType
    <3> HIDE DEF behind
    <3>4. Run(behind, Len(behind), {"quote"}) \in 0..Len(behind)
      BY <3>3, RunIn
    <3> QED
      BY <3>3, <3>4
  <2>2. Sender(d, m) \in Seq(Chars) /\ Sender(d, m) # <<>> /\ Sender(d, m)[1] = Semi
    <3> HIDE DEF d
    <3> QED
      BY <2>1, SenderIs
  <2>3. Scan(s, {Semi}, Sender(d, m)) = Nothing
    <3> HIDE DEF d
    <3> QED
      BY <1>1, <2>2, LongNameFails, Zenon
  <2> HIDE DEF d, s
  <2>4. SentBy(s, m) = IF d = <<>> THEN Nothing ELSE Scan(s, {Semi}, Sender(d, m))
    BY Zenon DEF SentBy, Sender, SentWord, QuoteTo, Semi, SentByWord, d
  <2>5. SentBy(s, m) = Nothing
    BY <2>3, <2>4, Zenon
  <2> QED
    BY <2>5 DEF s
<1> QED
  BY <1>2, <1>3

----------------------------------------------------------------------------
\* A deputy's address: one colon, behind its first word, and no quote.
IsDeputy(d) ==
  /\ Len(d) >= 2 /\ d[1] # ":" /\ d[2] = ":"
  /\ \A i \in 1..Len(d) : d[i] # "quote"
  /\ \A i \in 3..Len(d) : d[i] # ":"

LEMMA FrontIs ==
  ASSUME NEW a \in Seq(Chars), NEW b \in Seq(Chars)
  PROVE  SubSeq(a \o b, 1, Len(a)) = a
<1> DEFINE s == a \o b
           n == Len(a)
           u == SubSeq(s, 1, n)
<1>1. s \in Seq(Chars) /\ Len(s) = n + Len(b) /\ n \in Nat /\ Len(b) \in Nat /\ \A i \in 1..n : s[i] = a[i]
  BY ConcatAt
<1> HIDE DEF s
<1>2. u \in Seq(Chars) /\ Len(u) = n /\ \A i \in 1..n : u[i] = s[i]
  BY <1>1, SubSeqProperties
<1> HIDE DEF u
<1>3. \A i \in 1..Len(u) : u[i] = a[i]
  BY <1>1, <1>2
<1>4. u = a
  BY <1>2, <1>3, SeqEqual DEF n
<1> QED
  BY <1>4 DEF u, s, n

LEMMA MarksDiffer == Semi # ":" /\ SentByWord # ":" /\ "quote" # ":"
BY Zenon DEF Semi, SentByWord

\* The formats without a deputy take the colon in the deputy's address for the end
\* of the name, and find no address behind it.
LEMMA PlainHasNoDeputy ==
  ASSUME NEW name \in Seq(Chars), Free(name, {":", Semi}), NEW d \in Seq(Chars), IsDeputy(d),
         NEW mail \in Seq(Chars), NEW m \in MailtoWords, NEW other \in MailtoWords
  PROVE  Plain(name \o (Sender(d, m) \o mail), other) = Nothing
<1> DEFINE b == Sender(d, m)
           v == ToMail(other)
           t == b \o mail
           s == name \o t
           n == Len(name)
           e == Len(d)
           Stops == {":"}
<1>1. /\ b \in Seq(Chars) /\ Len(b) = e + 7 /\ e \in Nat
      /\ b[1] = Semi /\ b[2] = SentByWord /\ b[3] = "quote" /\ (\A i \in 1..e : b[3 + i] = d[i])
      /\ b[e + 4] = "quote" /\ b[e + 5] = ":" /\ b[e + 6] = m
  BY SenderIs
<1>2. /\ v \in Seq(Chars) /\ Len(v) = 3 /\ v[1] = ":" /\ v[2] = other /\ v[3] = ":"
      /\ other # "quote"
  BY WordsAre
<1>3. e >= 2 /\ d[1] # ":" /\ d[2] = ":" /\ (\A i \in 3..e : d[i] # ":")
  BY DEF IsDeputy
<1> HIDE DEF b, v
<1>4. /\ t \in Seq(Chars) /\ Len(t) = Len(b) + Len(mail) /\ Len(mail) \in Nat
      /\ \A i \in 1..Len(b) : t[i] = b[i]
  BY <1>1, ConcatAt
<1> HIDE DEF t, e
<1>5. /\ Len(t) >= 9 /\ t[1] # ":" /\ t[2] # ":" /\ t[3] # ":" /\ t[4] # ":" /\ t[5] = ":"
      /\ t[6] = "quote" \/ t[7] # ":"
  <2>1. \A i \in 1..(e + 7) : t[i] = b[i]
    BY <1>1, <1>4
  <2>2. t[1] = b[1] /\ t[2] = b[2] /\ t[3] = b[3]
    BY <1>1, <2>1
  <2>3. t[4] = d[1] /\ t[5] = d[2]
    <3>1. 1 \in 1..e /\ 2 \in 1..e /\ 3 + 1 = 4 /\ 3 + 2 = 5 /\ 4 \in 1..(e + 7) /\ 5 \in 1..(e + 7)
      BY <1>1, <1>3
    <3>2. b[4] = d[1] /\ b[5] = d[2]
      BY <1>1, <3>1
    <3> QED
      BY <2>1, <3>1, <3>2
  <2>4. CASE e = 2
    <3>1. 6 \in 1..(e + 7) /\ e + 4 = 6
      BY <2>4
    <3>2. t[6] = "quote"
      BY <1>1, <2>1, <3>1
    <3> QED
      BY <1>1, <1>3, <1>4, <2>2, <2>3, <3>2, MarksDiffer
  <2>5. CASE e = 3
    <3>1. 7 \in 1..(e + 7) /\ e + 4 = 7
      BY <2>5
    <3>2. t[7] = "quote"
      BY <1>1, <2>1, <3>1
    <3> QED
      BY <1>1, <1>3, <1>4, <2>2, <2>3, <3>2, MarksDiffer
  <2>6. CASE e >= 4
    <3>1. 7 \in 1..(e + 7) /\ 4 \in 1..e /\ 4 \in 3..e /\ 3 + 4 = 7
      BY <1>1, <2>6
    <3>2. t[7] # ":"
      BY <1>1, <1>3, <2>1, <3>1
    <3> QED
      BY <1>1, <1>3, <1>4, <2>2, <2>3, <3>2, MarksDiffer
  <2> QED
    BY <1>1, <1>3, <2>4, <2>5, <2>6
<1>6. /\ s \in Seq(Chars) /\ Len(s) = n + Len(t) /\ n \in Nat /\ Len(t) \in Nat
      /\ (\A i \in 1..n : s[i] = name[i]) /\ (\A i \in 1..Len(t) : s[n + i] = t[i])
  BY <1>4, ConcatAt
<1>7. NameSize \in Nat
  BY SizeAssumption
<1> HIDE DEF s
<1>8. \A i \in 1..n : s[i] # ":"
  BY <1>6 DEF Free
<1> HIDE DEF n
<1>9. s[n + 1] # ":" /\ s[n + 2] # ":" /\ s[n + 3] # ":" /\ s[n + 4] # ":" /\ s[n + 5] = ":"
      /\ s[n + 6] = t[6] /\ s[n + 7] = t[7]
  <2>1. \A i \in 1..7 : s[n + i] = t[i]
    BY <1>5, <1>6
  <2>2. s[n + 1] = t[1] /\ s[n + 2] = t[2] /\ s[n + 3] = t[3] /\ s[n + 4] = t[4] /\ s[n + 5] = t[5]
        /\ s[n + 6] = t[6] /\ s[n + 7] = t[7]
    BY <2>1
  <2> QED
    BY <1>5, <2>2
<1>10. \A i \in 1..(n + 4) : s[i] # ":"
  <2> SUFFICES ASSUME NEW i \in 1..(n + 4) PROVE s[i] # ":"
    OBVIOUS
  <2>1. i \in 1..n \/ i = n + 1 \/ i = n + 2 \/ i = n + 3 \/ i = n + 4
    BY <1>6
  <2> QED
    BY <1>8, <1>9, <2>1
<1> DEFINE k == IF NameSize < n + 4 THEN NameSize ELSE n + 4
           r == Rest(s, k)
<1>11. k \in Nat /\ k <= n + 4 /\ k <= NameSize /\ (k = NameSize \/ k = n + 4)
  BY <1>6, <1>7
<1> HIDE DEF k
<1>12. k \in 0..Len(s) /\ Len(s) - k >= 3
  BY <1>5, <1>6, <1>11
<1>13. Run(s, NameSize, Stops) = k
  <2>1. \A i \in 1..k : s[i] \notin Stops
    BY <1>6, <1>10, <1>11
  <2>2. k = NameSize \/ s[k + 1] \in Stops
    <3>1. CASE k = n + 4
      <4>1. k + 1 = n + 5
        BY <1>6, <3>1
      <4> QED
        BY <1>9, <4>1
    <3> QED
      BY <1>11, <3>1
  <2>3. RunsTo(s, NameSize, Stops, k)
    BY <1>11, <1>12, <2>1, <2>2, Zenon DEF RunsTo
  <2> QED
    BY <1>6, <1>7, <2>3, RunIs
<1>14. r \in Seq(Chars) /\ Len(r) = Len(s) - k /\ \A i \in 1..(Len(s) - k) : r[i] = s[k + i]
  BY <1>6, <1>12, RestIs
<1> HIDE DEF r
<1>15. r[1] = s[k + 1] /\ r[2] = s[k + 2] /\ r[3] = s[k + 3]
  BY <1>6, <1>12, <1>14
<1>16. ~IsPrefix(v, r)
  <2>1. CASE k # n + 4
    <3>1. k + 1 \in 1..(n + 4)
      BY <1>6, <1>11, <2>1
    <3>2. 1 \in 1..Len(v) /\ v[1] # r[1]
      BY <1>2, <1>10, <1>15, <3>1
    <3> QED
      BY <1>2, <1>14, <3>2, NotPrefix
  <2>2. CASE k = n + 4
    <3>1. r[2] = t[6] /\ r[3] = t[7]
      <4>1. k + 2 = n + 6 /\ k + 3 = n + 7
        BY <1>6, <2>2
      <4> QED
        BY <1>9, <1>15, <4>1
    <3>2. CASE t[6] = "quote"
      <4>1. 2 \in 1..Len(v) /\ v[2] # r[2]
        BY <1>2, <3>1, <3>2
      <4> QED
        BY <1>2, <1>14, <4>1, NotPrefix
    <3>3. CASE t[7] # ":"
      <4>1. 3 \in 1..Len(v) /\ v[3] # r[3]
        BY <1>2, <3>1, <3>3
      <4> QED
        BY <1>2, <1>14, <4>1, NotPrefix
    <3> QED
      BY <1>5, <3>2, <3>3
  <2> QED
    BY <2>1, <2>2
<1>17. Scan(s, Stops, v) = Nothing
  BY <1>13, <1>16, ScanFails DEF r
<1> QED
  BY <1>17, Zenon DEF Plain, s, t, b, v, Stops, ToMail

\* The deputy is what is in the quotes, for either word.
LEMMA DeputyFound ==
  ASSUME NEW name \in Seq(Chars), Len(name) <= NameSize, Free(name, {":", Semi}),
         NEW d \in Seq(Chars), IsDeputy(d), NEW mail \in Seq(Chars),
         NEW m \in MailtoWords, NEW w \in MailtoWords
  PROVE  LET s == name \o (Sender(d, m) \o mail)
         IN  /\ SentBy(s, w) = Scan(s, {Semi}, Sender(d, w))
             /\ Run(s, NameSize, {Semi}) = Len(name)
<1> DEFINE b == Sender(d, m)
           t == b \o mail
           s == name \o t
           n == Len(name)
           z == QuoteTo(m)
           c == z \o mail
           a == name \o SentWord
           behind == Rest(s, n + 3)
<1>1. /\ b \in Seq(Chars) /\ Len(b) >= 1 /\ b[1] = Semi /\ Len(b) \in Nat
      /\ b = SentWord \o (d \o z) /\ d \o z \in Seq(Chars) /\ Len(d) \in Nat
  <2>1. b \in Seq(Chars) /\ Len(b) >= 1 /\ b[1] = Semi /\ Len(b) \in Nat
    BY SenderBegins, Zenon
  <2>2. b = SentWord \o (d \o z) /\ d \o z \in Seq(Chars) /\ Len(d) \in Nat
    BY SenderGroups, Zenon
  <2> QED
    BY <2>1, <2>2, Zenon
<1>2. z \in Seq(Chars) /\ Len(z) = 4 /\ z[1] = "quote" /\ SentWord \in Seq(Chars) /\ Len(SentWord) = 3
  BY WordsAre
<1> HIDE DEF b, z
<1>3. t \in Seq(Chars) /\ Len(t) \in Nat /\ Len(t) >= 1 /\ t[1] = Semi
  <2>1. /\ t \in Seq(Chars) /\ Len(t) = Len(b) + Len(mail) /\ Len(mail) \in Nat
        /\ \A i \in 1..Len(b) : t[i] = b[i]
    BY <1>1, ConcatAt
  <2>2. Len(b) \in Nat /\ Len(b) >= 1 /\ b[1] = Semi
    BY <1>1, Zenon
  <2> HIDE DEF t
  <2> QED
    BY <2>1, <2>2
<1>4. c \in Seq(Chars) /\ Len(c) \in Nat /\ Len(c) >= 1 /\ c[1] = "quote"
  <2>1. /\ c \in Seq(Chars) /\ Len(c) = Len(z) + Len(mail) /\ Len(mail) \in Nat
        /\ \A i \in 1..Len(z) : c[i] = z[i]
    BY <1>2, ConcatAt
  <2> HIDE DEF c
  <2> QED
    BY <1>2, <2>1
<1>5. s = a \o (d \o c)
  <2>1. t = SentWord \o (d \o c) /\ d \o c \in Seq(Chars)
    <3>1. GroupsStrings(SentWord, d \o z, mail) /\ GroupsStrings(d, z, mail)
      BY <1>1, <1>2, GroupingStrings, Zenon
    <3> QED
      BY <1>1, <3>1, Zenon DEF GroupsStrings
  <2>2. GroupsStrings(name, SentWord, d \o c)
    BY <1>2, <2>1, GroupingStrings, Zenon
  <2> QED
    BY <2>1, <2>2, Zenon DEF GroupsStrings
<1> HIDE DEF t, c
<1>6. /\ s \in Seq(Chars) /\ Len(s) = n + Len(t) /\ n \in Nat
      /\ (\A i \in 1..n : s[i] = name[i]) /\ (\A i \in 1..Len(t) : s[n + i] = t[i])
  BY <1>3, ConcatAt
<1>7. a \in Seq(Chars) /\ Len(a) = n + 3
  <2>1. a \in Seq(Chars) /\ Len(a) = n + Len(SentWord)
    BY <1>2, ConcatAt
  <2> HIDE DEF a, n
  <2> QED
    BY <1>2, <2>1
<1> HIDE DEF s, a, n
<1>8. Run(s, NameSize, {Semi}) = n
  <2>1. n \in 0..Len(s) /\ n <= NameSize /\ NameSize \in Nat
    BY <1>3, <1>6, SizeAssumption DEF n
  <2>2. \A i \in 1..n : s[i] \notin {Semi}
    BY <1>6 DEF Free, n
  <2>3. s[n + 1] \in {Semi}
    BY <1>3, <1>6
  <2>4. RunsTo(s, NameSize, {Semi}, n)
    BY <2>1, <2>2, <2>3, Zenon DEF RunsTo
  <2> QED
    BY <1>6, <2>1, <2>4, RunIs
<1>9. behind = d \o c
  <2>1. d \o c \in Seq(Chars)
    BY <1>4, ConcatAt
  <2>2. Rest(s, Len(a)) = d \o c
    <3> DEFINE x == d \o c
    <3>1. x \in Seq(Chars) /\ s = a \o x
      BY <1>5, <2>1
    <3> HIDE DEF x
    <3>2. Rest(s, Len(a)) = x
      BY <1>7, <3>1, RestBehind
    <3> QED
      BY <3>2 DEF x
  <2> QED
    BY <1>7, <2>2
<1> HIDE DEF behind
<1>10. /\ behind \in Seq(Chars) /\ Len(behind) = Len(d) + Len(c)
       /\ (\A i \in 1..Len(d) : behind[i] = d[i]) /\ (\A i \in 1..Len(c) : behind[Len(d) + i] = c[i])
  BY <1>4, <1>9, ConcatAt
<1>11. Run(behind, Len(behind), {"quote"}) = Len(d)
  <2>1. Len(behind) \in Nat /\ Len(d) \in 0..Len(behind) /\ Len(d) <= Len(behind)
    BY <1>1, <1>4, <1>10
  <2>2. \A i \in 1..Len(d) : behind[i] \notin {"quote"}
    BY <1>10 DEF IsDeputy
  <2>3. behind[Len(d) + 1] \in {"quote"}
    BY <1>4, <1>10
  <2>4. RunsTo(behind, Len(behind), {"quote"}, Len(d))
    BY <2>1, <2>2, <2>3, Zenon DEF RunsTo
  <2> QED
    BY <1>10, <2>1, <2>4, RunIs
<1>12. SubSeq(behind, 1, Len(d)) = d
  BY <1>4, <1>9, FrontIs
<1>13. d # <<>>
  <2>1. Len(d) # 0
    BY <1>1 DEF IsDeputy
  <2> QED
    BY <2>1
<1>14. SentBy(s, w) = Scan(s, {Semi}, Sender(d, w))
  BY <1>8, <1>11, <1>12, <1>13, Zenon DEF SentBy, Sender, SentWord, QuoteTo, Semi, SentByWord, behind, n
<1> QED
  BY <1>8, <1>14 DEF s, t, b, n

LEMMA SentByReads ==
  ASSUME NEW name \in Seq(Chars), name # <<>>, Len(name) <= NameSize, Free(name, {":", Semi}),
         NEW d \in Seq(Chars), IsDeputy(d), NEW mail \in Seq(Chars), Unblanked(mail), NEW m \in MailtoWords
  PROVE  SentBy(name \o (Sender(d, m) \o mail), m) = <<name, MailRead(mail)>>
<1> DEFINE b == Sender(d, m)
           Stops == {Semi}
           s == name \o (b \o mail)
<1>1. b \in Seq(Chars) /\ b # <<>> /\ b[1] = Semi
  BY SenderBegins, Zenon
<1>2. Free(name, Stops) /\ Semi \in Stops
  BY DEF Free
<1>3. SentBy(s, m) = Scan(s, Stops, b)
  <2>1. SentBy(name \o (Sender(d, m) \o mail), m) = Scan(name \o (Sender(d, m) \o mail), {Semi}, Sender(d, m))
    BY DeputyFound, Zenon
  <2> QED
    BY <2>1, Zenon
<1> HIDE DEF b, Stops
<1>4. Scan(s, Stops, b) = <<name, MailRead(mail)>>
  BY <1>1, <1>2, ScanReads
<1> QED
  BY <1>3, <1>4 DEF b

LEMMA SentByTellsWords ==
  ASSUME NEW name \in Seq(Chars), Len(name) <= NameSize, Free(name, {":", Semi}),
         NEW d \in Seq(Chars), IsDeputy(d), NEW mail \in Seq(Chars),
         NEW m \in MailtoWords, NEW other \in MailtoWords, other # m
  PROVE  SentBy(name \o (Sender(d, m) \o mail), other) = Nothing
<1> DEFINE b == Sender(d, m)
           v == Sender(d, other)
           t == b \o mail
           s == name \o t
           i == Len(d) + 6
<1>1. SentBy(s, other) = Scan(s, {Semi}, v) /\ Run(s, NameSize, {Semi}) = Len(name)
  BY DeputyFound
<1>2. /\ b \in Seq(Chars) /\ Len(b) = Len(d) + 7 /\ Len(d) \in Nat /\ b[i] = m
      /\ v \in Seq(Chars) /\ Len(v) = Len(d) + 7 /\ v[i] = other
  BY SenderIs
<1> HIDE DEF b, v
<1>3. /\ t \in Seq(Chars) /\ \A j \in 1..Len(b) : t[j] = b[j]
  BY <1>2, ConcatAt
<1>4. Rest(s, Len(name)) = t
  BY <1>3, RestBehind
<1> HIDE DEF t, s
<1>5. i \in 1..Len(v) /\ v[i] # t[i]
  BY <1>2, <1>3
<1> HIDE DEF i
<1>6. ~IsPrefix(v, t)
  BY <1>2, <1>3, <1>5, NotPrefix
<1>7. Scan(s, {Semi}, v) = Nothing
  BY <1>1, <1>4, <1>6, ScanFails
<1> QED
  BY <1>1, <1>7 DEF s, t, b

----------------------------------------------------------------------------
(* The first that reads the line *)

LEMMA FirstIs ==
  ASSUME NEW n \in Nat, NEW answers, DOMAIN answers = 1..n
  PROVE  /\ \A k \in 1..n : answers[k] # Nothing /\ (\A j \in 1..(k - 1) : answers[j] = Nothing) =>
                            FirstOf(answers) = answers[k]
         /\ (\A j \in 1..n : answers[j] = Nothing) => FirstOf(answers) = Nothing
<1> DEFINE good == {i \in DOMAIN answers : answers[i] # Nothing}
<1>1. ASSUME NEW k \in 1..n, answers[k] # Nothing, \A j \in 1..(k - 1) : answers[j] = Nothing
      PROVE  FirstOf(answers) = answers[k]
  <2>1. k \in good /\ good \in SUBSET Nat
    BY <1>1
  <2>2. ASSUME NEW i \in good PROVE k <= i
    <3>1. i \in 1..n /\ answers[i] # Nothing
      OBVIOUS
    <3>2. SUFFICES ASSUME i < k PROVE FALSE
      BY <3>1
    <3>3. i \in 1..(k - 1)
      BY <3>1, <3>2
    <3> QED
      BY <1>1, <3>1, <3>3
  <2> HIDE DEF good
  <2>3. Min(good) = k
    BY <2>1, <2>2, LeastIs
  <2> QED
    BY <2>1, <2>3, Zenon DEF FirstOf, good
<1>2. ASSUME \A j \in 1..n : answers[j] = Nothing PROVE FirstOf(answers) = Nothing
  <2>1. good = {}
    BY <1>2
  <2> QED
    BY <2>1, Zenon DEF FirstOf
<1> QED
  BY <1>1, <1>2

LEMMA FirstOfFour ==
  ASSUME NEW a, NEW b, NEW c, NEW d
  PROVE  /\ a # Nothing => FirstOf(<<a, b, c, d>>) = a
         /\ a = Nothing /\ b # Nothing => FirstOf(<<a, b, c, d>>) = b
         /\ a = Nothing /\ b = Nothing /\ c # Nothing => FirstOf(<<a, b, c, d>>) = c
         /\ a = Nothing /\ b = Nothing /\ c = Nothing /\ d # Nothing => FirstOf(<<a, b, c, d>>) = d
         /\ a = Nothing /\ b = Nothing /\ c = Nothing /\ d = Nothing => FirstOf(<<a, b, c, d>>) = Nothing
<1> DEFINE s == <<a, b, c, d>>
<1>1. DOMAIN s = 1..4 /\ s[1] = a /\ s[2] = b /\ s[3] = c /\ s[4] = d
  OBVIOUS
<1> HIDE DEF s
<1>2. /\ \A k \in 1..4 : s[k] # Nothing /\ (\A j \in 1..(k - 1) : s[j] = Nothing) => FirstOf(s) = s[k]
      /\ (\A j \in 1..4 : s[j] = Nothing) => FirstOf(s) = Nothing
  BY <1>1, FirstIs
<1>3. a # Nothing => FirstOf(s) = a
  BY <1>1, <1>2
<1>4. a = Nothing /\ b # Nothing => FirstOf(s) = b
  BY <1>1, <1>2
<1>5. a = Nothing /\ b = Nothing /\ c # Nothing => FirstOf(s) = c
  BY <1>1, <1>2
<1>6. a = Nothing /\ b = Nothing /\ c = Nothing /\ d # Nothing => FirstOf(s) = d
  BY <1>1, <1>2
<1>7. a = Nothing /\ b = Nothing /\ c = Nothing /\ d = Nothing => FirstOf(s) = Nothing
  BY <1>1, <1>2
<1> QED
  BY <1>3, <1>4, <1>5, <1>6, <1>7 DEF s

LEMMA FirstOfTwo ==
  ASSUME NEW a, NEW b
  PROVE  /\ a # Nothing => FirstOf(<<a, b>>) = a
         /\ a = Nothing /\ b # Nothing => FirstOf(<<a, b>>) = b
         /\ a = Nothing /\ b = Nothing => FirstOf(<<a, b>>) = Nothing
<1> DEFINE s == <<a, b>>
<1>1. DOMAIN s = 1..2 /\ s[1] = a /\ s[2] = b
  OBVIOUS
<1> HIDE DEF s
<1>2. /\ \A k \in 1..2 : s[k] # Nothing /\ (\A j \in 1..(k - 1) : s[j] = Nothing) => FirstOf(s) = s[k]
      /\ (\A j \in 1..2 : s[j] = Nothing) => FirstOf(s) = Nothing
  BY <1>1, FirstIs
<1>3. a # Nothing => FirstOf(s) = a
  BY <1>1, <1>2
<1>4. a = Nothing /\ b # Nothing => FirstOf(s) = b
  BY <1>1, <1>2
<1>5. a = Nothing /\ b = Nothing => FirstOf(s) = Nothing
  BY <1>1, <1>2
<1> QED
  BY <1>3, <1>4, <1>5 DEF s

----------------------------------------------------------------------------
(* The line *)

CnWord    == "CN="
Before(p) == IF p.deputy = <<>> THEN ToMail(p.mailto) ELSE Sender(p.deputy, p.mailto)
Person(p) == p.name \o (Before(p) \o p.mail)

LEMMA PersonIs ==
  ASSUME NEW p, IsPerson(p)
  PROVE  /\ p.role \in Seq(Chars) /\ p.name \in Seq(Chars) /\ p.deputy \in Seq(Chars) /\ p.mail \in Seq(Chars)
         /\ p.mailto \in MailtoWords /\ p.name # <<>>
         /\ Free(p.name, {":", Semi}) /\ Unblanked(p.mail)
         /\ \A i \in 1..Len(p.role) : p.role[i] # CnWord
         /\ p.deputy # <<>> => IsDeputy(p.deputy)
<1>1. {p.role, p.name, p.deputy, p.mail} \subseteq Seq(STRING)
  BY Zenon DEF IsPerson
<1>2. p.role \in Seq(STRING) /\ p.name \in Seq(STRING) /\ p.deputy \in Seq(STRING) /\ p.mail \in Seq(STRING)
  BY <1>1, Zenon
<1>3. p.role \in Seq(Chars) /\ p.name \in Seq(Chars) /\ p.deputy \in Seq(Chars) /\ p.mail \in Seq(Chars)
  BY <1>2, StringsAreChars, Zenon
<1>4. p.mailto \in MailtoWords /\ p.name # <<>> /\ p.mail # <<>>
  BY Zenon DEF IsPerson, MailtoWords
<1>5. \A s \in Seq(Chars) : \A i \in 1..Len(s) : i \in DOMAIN s /\ s[i] \in Range(s)
  <2>1. \A s \in Seq(Chars) : \A i \in 1..Len(s) : i \in DOMAIN s
    OBVIOUS
  <2> QED
    BY <2>1, RangeIs, Zenon
<1>6. Free(p.name, {":", Semi})
  <2>1. \A i \in DOMAIN p.name : p.name[i] \notin {":", Semi}
    BY Zenon DEF IsPerson, Semi
  <2> QED
    BY <1>3, <1>5, <2>1, Zenon DEF Free
<1>7. Unblanked(p.mail)
  <2>1. Blank \notin Range(p.mail)
    BY Zenon DEF IsPerson, Blank
  <2> QED
    BY <1>3, <1>4, <1>5, <2>1, Zenon DEF Unblanked
<1>8. \A i \in 1..Len(p.role) : p.role[i] # CnWord
  <2>1. CnWord \notin Range(p.role)
    BY Zenon DEF IsPerson, CnWord
  <2> QED
    BY <1>3, <1>5, <2>1, Zenon
<1>9. ASSUME p.deputy # <<>> PROVE IsDeputy(p.deputy)
  <2>1. /\ Len(p.deputy) >= 2 /\ p.deputy[1] # ":" /\ p.deputy[2] = ":"
        /\ "quote" \notin Range(p.deputy) /\ \A i \in 3..Len(p.deputy) : p.deputy[i] # ":"
    BY <1>9, Zenon DEF IsPerson
  <2>2. \A i \in 1..Len(p.deputy) : p.deputy[i] # "quote"
    BY <1>3, <1>5, <2>1, Zenon
  <2> QED
    BY <2>1, <2>2, Zenon DEF IsDeputy
<1> QED
  BY <1>3, <1>4, <1>6, <1>7, <1>8, <1>9

\* Five parts, grouped from the left, are the same grouped from the right.
LEMMA FiveParts ==
  ASSUME NEW r \in Seq(Chars), NEW n \in Seq(Chars), NEW d \in Seq(Chars), NEW c \in Seq(Chars), NEW e \in Seq(Chars)
  PROVE  /\ (((r \o n) \o d) \o c) \o e = r \o (n \o ((d \o c) \o e))
         /\ n \o ((d \o c) \o e) \in Seq(Chars)
<1>1. GroupsStrings(d, c, e) /\ r \o n \in Seq(Chars) /\ (r \o n) \o d \in Seq(Chars) /\ (d \o c) \o e \in Seq(Chars)
  <2>1. r \o n \in Seq(Chars) /\ d \o c \in Seq(Chars)
    BY ConcatAt
  <2> QED
    BY <2>1, GroupingStrings, ConcatAt, Zenon
<1>2. GroupsStrings(r \o n, d, c) /\ GroupsStrings(r, n, (d \o c) \o e)
  BY <1>1, GroupingStrings, Zenon
<1>3. GroupsStrings(r \o n, d \o c, e)
  <2>1. d \o c \in Seq(Chars)
    BY ConcatAt
  <2> QED
    BY <1>1, <2>1, GroupingStrings, Zenon
<1> QED
  BY <1>1, <1>2, <1>3, Zenon DEF GroupsStrings

LEMMA QuoteBefore ==
  ASSUME NEW m \in MailtoWords
  PROVE  <<"quote">> \o ToMail(m) = QuoteTo(m)
<1> DEFINE a == <<"quote">>
           b == ToMail(m)
           s == a \o b
           t == QuoteTo(m)
<1>1. /\ b \in Seq(Chars) /\ Len(b) = 3 /\ b[1] = ":" /\ b[2] = m /\ b[3] = ":"
      /\ t \in Seq(Chars) /\ Len(t) = 4 /\ t[1] = "quote" /\ t[2] = ":" /\ t[3] = m /\ t[4] = ":"
  BY WordsAre
<1>2. a \in Seq(Chars) /\ Len(a) = 1 /\ a[1] = "quote"
  <2>1. "quote" \in Chars
    BY Zenon DEF Chars
  <2>2. a \in Seq(Chars)
    BY <2>1, FewAre
  <2> QED
    BY <2>2
<1> HIDE DEF a, b, t
<1>3. /\ s \in Seq(Chars) /\ Len(s) = Len(a) + Len(b)
      /\ (\A i \in 1..Len(a) : s[i] = a[i]) /\ (\A i \in 1..Len(b) : s[Len(a) + i] = b[i])
  BY <1>1, <1>2, ConcatAt
<1> HIDE DEF s
<1>4. s[1] = "quote" /\ s[1 + 1] = ":" /\ s[1 + 2] = m /\ s[1 + 3] = ":" /\ Len(s) = 4
  BY <1>1, <1>2, <1>3
<1>5. s[1] = t[1] /\ s[2] = t[2] /\ s[3] = t[3] /\ s[4] = t[4]
  BY <1>1, <1>4
<1>6. \A i \in 1..4 : s[i] = t[i]
  BY <1>5
<1>7. s = t
  BY <1>1, <1>3, <1>4, <1>6, SeqEqual
<1> QED
  BY <1>7 DEF s, a, b, t

LEMMA LineOfPerson ==
  ASSUME NEW p, IsPerson(p)
  PROVE  /\ PersonLine(p) = (p.role \o <<CnWord>>) \o Person(p)
         /\ Person(p) \in Seq(Chars) /\ <<CnWord>> \in Seq(Chars)
<1> DEFINE r == p.role \o <<CnWord>>
           m == p.mailto
           d == IF p.deputy = <<>> THEN <<>> ELSE (SentWord \o p.deputy) \o <<"quote">>
           c == ToMail(m)
<1>1. /\ p.role \in Seq(Chars) /\ p.name \in Seq(Chars) /\ p.deputy \in Seq(Chars) /\ p.mail \in Seq(Chars)
      /\ m \in MailtoWords
  BY PersonIs
<1>2. CnWord \in Chars /\ "quote" \in Chars
  BY Zenon DEF Chars, CnWord
<1>3. <<CnWord>> \in Seq(Chars) /\ <<"quote">> \in Seq(Chars) /\ <<>> \in Seq(Chars)
  BY <1>2, FewAre
<1>4. SentWord \in Seq(Chars) /\ c \in Seq(Chars) /\ QuoteTo(m) \in Seq(Chars)
  BY <1>1, WordsAre, Zenon
<1>5. PersonLine(p) = (((r \o p.name) \o d) \o c) \o p.mail
  BY Zenon DEF PersonLine, CnWord, SentWord, ToMail, Semi, SentByWord
<1>6. d \in Seq(Chars) /\ d \o c = Before(p)
  <2>1. CASE p.deputy = <<>>
    <3>1. d = <<>> /\ Before(p) = c
      BY <2>1, Zenon DEF Before
    <3> HIDE DEF c, d
    <3>2. <<>> \o c = c
      BY <1>4, ConcatEmptySeq
    <3> QED
      BY <1>3, <3>1, <3>2
  <2>2. CASE p.deputy # <<>>
    <3> DEFINE a == SentWord \o p.deputy
    <3>1. a \in Seq(Chars)
      BY <1>1, <1>4, ConcatAt
    <3>2. <<"quote">> \o c = QuoteTo(m)
      BY <1>1, QuoteBefore
    <3>3. d = a \o <<"quote">> /\ Before(p) = a \o QuoteTo(m)
      BY <2>2, Zenon DEF Before, Sender
    <3> HIDE DEF a, c, d
    <3>4. GroupsStrings(a, <<"quote">>, c)
      BY <1>3, <1>4, <3>1, GroupingStrings, Zenon
    <3>5. a \o <<"quote">> \in Seq(Chars)
      BY <1>3, <3>1, ConcatAt
    <3> QED
      BY <3>2, <3>3, <3>4, <3>5, Zenon DEF GroupsStrings
  <2> QED
    BY <2>1, <2>2
<1>7. r \in Seq(Chars)
  BY <1>1, <1>3, ConcatAt
<1> HIDE DEF r, d, c
<1>8. /\ (((r \o p.name) \o d) \o c) \o p.mail = r \o (p.name \o ((d \o c) \o p.mail))
      /\ p.name \o ((d \o c) \o p.mail) \in Seq(Chars)
  <2> DEFINE n == p.name
             e == p.mail
  <2>1. n \in Seq(Chars) /\ e \in Seq(Chars)
    BY <1>1
  <2> HIDE DEF n, e
  <2>2. /\ (((r \o n) \o d) \o c) \o e = r \o (n \o ((d \o c) \o e))
        /\ n \o ((d \o c) \o e) \in Seq(Chars)
    BY <1>4, <1>6, <1>7, <2>1, FiveParts
  <2> QED
    BY <2>2 DEF n, e
<1> QED
  BY <1>3, <1>5, <1>6, <1>8, Zenon DEF Person, r

\* The name is looked for where the line has it.
LEMMA PersonFound ==
  ASSUME NEW p, IsPerson(p)
  PROVE  /\ Found(PersonLine(p), <<"CN=">>) # {}
         /\ AfterWord(PersonLine(p), <<"CN=">>) = Person(p)
<1> DEFINE w == <<CnWord>>
           k == Len(p.role)
           r == p.role \o w
           t == Person(p)
           s == r \o t
<1>1. p.role \in Seq(Chars) /\ \A i \in 1..k : p.role[i] # CnWord
  BY PersonIs
<1>2. PersonLine(p) = s /\ t \in Seq(Chars) /\ w \in Seq(Chars)
  BY LineOfPerson
<1>3. Len(w) = 1 /\ w[1] = CnWord
  OBVIOUS
<1> HIDE DEF w, t
<1>4. /\ r \in Seq(Chars) /\ Len(r) = k + Len(w) /\ k \in Nat
      /\ (\A i \in 1..k : r[i] = p.role[i]) /\ (\A i \in 1..Len(w) : r[k + i] = w[i])
  BY <1>1, <1>2, ConcatAt
<1> HIDE DEF r, k
<1>5. /\ s \in Seq(Chars) /\ Len(s) = Len(r) + Len(t) /\ Len(t) \in Nat
      /\ \A i \in 1..Len(r) : s[i] = r[i]
  BY <1>2, <1>4, ConcatAt
<1>6. Rest(s, Len(r)) = t
  BY <1>2, <1>4, RestBehind
<1> HIDE DEF s
<1>7. k \in 0..Len(s) /\ k + Len(w) = Len(r)
  BY <1>3, <1>4, <1>5
<1>8. Occurs(s, w, k)
  <2>1. s[k + 1] = w[1]
    BY <1>3, <1>4, <1>5
  <2>2. k + Len(w) <= Len(s) /\ \A i \in 1..Len(w) : s[k + i] = w[i]
    BY <1>3, <1>4, <1>5, <2>1
  <2> QED
    BY <2>2 DEF Occurs
<1>9. NoSooner(s, w, k)
  <2>1. ASSUME NEW j \in 0..(k - 1) PROVE \E i \in 1..Len(w) : s[j + i] # w[i]
    <3>1. j + 1 \in 1..k /\ j + 1 \in 1..Len(r)
      BY <1>3, <1>4
    <3>2. s[j + 1] # w[1]
      BY <1>1, <1>3, <1>4, <1>5, <3>1
    <3> QED
      BY <1>3, <3>2
  <2> QED
    BY <2>1 DEF NoSooner
<1>10. Found(s, w) # {} /\ AfterWord(s, w) = t
  <2>1. Found(s, w) # {} /\ AfterWord(s, w) = Rest(s, k + Len(w))
    BY <1>2, <1>5, <1>7, <1>8, <1>9, FirstAt, Zenon
  <2> QED
    BY <1>6, <1>7, <2>1
<1> QED
  BY <1>2, <1>10, Zenon DEF w, t, CnWord

----------------------------------------------------------------------------
(* Who is read *)

Good(p) == <<p.name, MailRead(p.mail)>>

LEMMA FormatsRead ==
  ASSUME NEW p, IsPerson(p), NEW w \in MailtoWords
  PROVE  /\ Plain(Person(p), w) = IF Len(p.name) <= NameSize /\ p.deputy = <<>> /\ w = p.mailto
                                  THEN Good(p) ELSE Nothing
         /\ p.deputy # <<>> \/ ~(Len(p.name) <= NameSize) =>
              SentBy(Person(p), w) = IF Len(p.name) <= NameSize /\ w = p.mailto THEN Good(p) ELSE Nothing
<1> DEFINE n == p.name
           d == p.deputy
           e == p.mail
           m == p.mailto
<1>1. /\ n \in Seq(Chars) /\ d \in Seq(Chars) /\ e \in Seq(Chars) /\ m \in MailtoWords /\ n # <<>>
      /\ Free(n, {":", Semi}) /\ Unblanked(e) /\ (d # <<>> => IsDeputy(d))
  BY PersonIs
<1>2. Len(n) \in Nat /\ NameSize \in Nat
  BY <1>1, SizeAssumption
<1>3. Good(p) = <<n, MailRead(e)>> /\ Person(p) = n \o (Before(p) \o e)
      /\ (d = <<>> => Before(p) = ToMail(m)) /\ (d # <<>> => Before(p) = Sender(d, m))
  BY Zenon DEF Good, Person, Before
<1> HIDE DEF n, d, e, m
<1>4. CASE ~(Len(n) <= NameSize)
  <2> DEFINE t == Before(p) \o e
  <2>1. t \in Seq(Chars)
    <3>1. Before(p) \in Seq(Chars)
      <4>1. ToMail(m) \in Seq(Chars) /\ Sender(d, m) \in Seq(Chars)
        BY <1>1, WordsAre, SenderIs
      <4> QED
        BY <1>3, <4>1
    <3> QED
      BY <1>1, <3>1, ConcatAt
  <2> HIDE DEF t
  <2>2. Len(n) > NameSize
    BY <1>2, <1>4
  <2>3. Plain(n \o t, w) = Nothing /\ SentBy(n \o t, w) = Nothing
    BY <1>1, <2>1, <2>2, LongNamesFail
  <2> QED
    BY <1>3, <1>4, <2>3, Zenon DEF t, n
<1>5. CASE Len(n) <= NameSize /\ d = <<>>
  <2>1. CASE w = m
    <3>1. Plain(n \o (ToMail(m) \o e), m) = <<n, MailRead(e)>>
      BY <1>1, <1>5, PlainReads
    <3> QED
      BY <1>3, <1>5, <2>1, <3>1, Zenon DEF n, d, m
  <2>2. CASE w # m
    <3>1. Plain(n \o (ToMail(m) \o e), w) = Nothing
      BY <1>1, <1>5, <2>2, PlainTellsWords
    <3> QED
      BY <1>3, <1>5, <2>2, <3>1, Zenon DEF n, d, m
  <2> QED
    BY <2>1, <2>2
<1>6. CASE Len(n) <= NameSize /\ d # <<>>
  <2>1. Plain(n \o (Sender(d, m) \o e), w) = Nothing
    BY <1>1, <1>6, PlainHasNoDeputy
  <2>2. CASE w = m
    <3>1. SentBy(n \o (Sender(d, m) \o e), m) = <<n, MailRead(e)>>
      BY <1>1, <1>6, SentByReads
    <3> QED
      BY <1>3, <1>6, <2>1, <2>2, <3>1, Zenon DEF n, d, m
  <2>3. CASE w # m
    <3>1. SentBy(n \o (Sender(d, m) \o e), w) = Nothing
      BY <1>1, <1>6, <2>3, SentByTellsWords
    <3> QED
      BY <1>3, <1>6, <2>1, <2>3, <3>1, Zenon DEF n, d, m
  <2> QED
    BY <2>2, <2>3
<1> QED
  BY <1>4, <1>5, <1>6

----------------------------------------------------------------------------
FitName(p) == Len(p.name) <= NameSize

LEMMA TwoWords == "MAILTO" \in MailtoWords /\ "mailto" \in MailtoWords /\ \A m \in MailtoWords : m = "MAILTO" \/ m = "mailto"
BY Zenon DEF MailtoWords

LEMMA PersonIsFetched ==
  ASSUME NEW p, IsPerson(p)
  PROVE  fetchPerson(PersonLine(p)) = IF FitName(p) THEN Good(p) ELSE Nothing
<1> DEFINE str == Person(p)
           a == Plain(str, "MAILTO")
           b == Plain(str, "mailto")
           c == SentBy(str, "MAILTO")
           d == SentBy(str, "mailto")
<1>1. fetchPerson(PersonLine(p)) = FirstOf(<<a, b, c, d>>)
  BY PersonFound, Zenon DEF fetchPerson
<1>2. p.mailto = "MAILTO" \/ p.mailto = "mailto"
  BY PersonIs, TwoWords
<1>3. /\ a = IF FitName(p) /\ p.deputy = <<>> /\ "MAILTO" = p.mailto THEN Good(p) ELSE Nothing
      /\ b = IF FitName(p) /\ p.deputy = <<>> /\ "mailto" = p.mailto THEN Good(p) ELSE Nothing
      /\ p.deputy # <<>> \/ ~FitName(p) =>
           /\ c = IF FitName(p) /\ "MAILTO" = p.mailto THEN Good(p) ELSE Nothing
           /\ d = IF FitName(p) /\ "mailto" = p.mailto THEN Good(p) ELSE Nothing
  BY FormatsRead, TwoWords, Zenon DEF FitName
<1>4. Good(p) # Nothing
  BY DEF Good, Nothing
<1> HIDE DEF a, b, c, d, str
<1>5. /\ a # Nothing => FirstOf(<<a, b, c, d>>) = a
      /\ a = Nothing /\ b # Nothing => FirstOf(<<a, b, c, d>>) = b
      /\ a = Nothing /\ b = Nothing /\ c # Nothing => FirstOf(<<a, b, c, d>>) = c
      /\ a = Nothing /\ b = Nothing /\ c = Nothing /\ d # Nothing => FirstOf(<<a, b, c, d>>) = d
      /\ a = Nothing /\ b = Nothing /\ c = Nothing /\ d = Nothing => FirstOf(<<a, b, c, d>>) = Nothing
  BY FirstOfFour
<1>6. CASE ~FitName(p)
  BY <1>1, <1>3, <1>5, <1>6, Zenon
<1>7. CASE FitName(p) /\ p.deputy = <<>>
  BY <1>1, <1>2, <1>3, <1>4, <1>5, <1>7
<1>8. CASE FitName(p) /\ p.deputy # <<>>
  BY <1>1, <1>2, <1>3, <1>4, <1>5, <1>8
<1> QED
  BY <1>6, <1>7, <1>8, Zenon

LEMMA PersonAttends ==
  ASSUME NEW p, IsPerson(p)
  PROVE  IF FitName(p) /\ p.deputy = <<>>
         THEN /\ ATND_constructor(PersonLine(p))[1] = p.name
              /\ ATND_constructor(PersonLine(p))[2] = MailRead(p.mail)
         ELSE ATND_constructor(PersonLine(p)) = Nothing
<1> DEFINE str == Person(p)
           a == Plain(str, "MAILTO")
           b == Plain(str, "mailto")
           read == FirstOf(<<a, b>>)
           role == [required |-> "REQ-PARTICIPANT" \in Range(PersonLine(p))]
<1>1. ATND_constructor(PersonLine(p)) = IF read = Nothing THEN Nothing ELSE read \o <<role>>
  BY PersonFound DEF ATND_constructor
<1>2. p.mailto = "MAILTO" \/ p.mailto = "mailto"
  BY PersonIs, TwoWords
<1>3. /\ a = IF FitName(p) /\ p.deputy = <<>> /\ "MAILTO" = p.mailto THEN Good(p) ELSE Nothing
      /\ b = IF FitName(p) /\ p.deputy = <<>> /\ "mailto" = p.mailto THEN Good(p) ELSE Nothing
  BY FormatsRead, TwoWords, Zenon DEF FitName
<1>4. Good(p) # Nothing
  BY DEF Good, Nothing
<1> HIDE DEF a, b, str, role
<1>5. /\ a # Nothing => read = a
      /\ a = Nothing /\ b # Nothing => read = b
      /\ a = Nothing /\ b = Nothing => read = Nothing
  BY FirstOfTwo
<1> HIDE DEF read
<1>6. CASE FitName(p) /\ p.deputy = <<>>
  <2>1. read = Good(p)
    BY <1>2, <1>3, <1>4, <1>5, <1>6
  <2>2. (Good(p) \o <<role>>)[1] = p.name /\ (Good(p) \o <<role>>)[2] = MailRead(p.mail)
    BY DEF Good
  <2> QED
    BY <1>1, <1>4, <1>6, <2>1, <2>2, Zenon
<1>7. CASE ~(FitName(p) /\ p.deputy = <<>>)
  <2>1. read = Nothing
    BY <1>3, <1>5, <1>7, Zenon
  <2> QED
    BY <1>1, <1>7, <2>1, Zenon
<1> QED
  BY <1>6, <1>7, Zenon

----------------------------------------------------------------------------
LEMMA AskedLine ==
  ASSUME ask \in Asks
  PROVE  /\ ask.fn = "vcal2utc" => ask.ms \in ZoneName /\ ask.utc \in BOOLEAN /\ ask.zones \in ZoneTable
         /\ ask.fn = "fetchPerson" \/ ask.fn = "ATND_constructor" => ask.person \in Written
         /\ ask.fn = "unescape" => ask.prose \in Prose
BY DEF Asks

LEMMA LineAnswers == UtilInv => LinesRead
<1> SUFFICES ASSUME UtilInv PROVE LinesRead
  OBVIOUS
<1>1. ask \in Asks
  BY DEF UtilInv
<1>2. TimesRead
  <2> SUFFICES ASSUME Answered("vcal2utc")
               PROVE  LET rows == {i \in DOMAIN ask.zones : ask.zones[i].ms = ask.ms} IN
                      answer = CASE ask.utc -> <<"UTC">>
                                 [] ~ask.utc /\ rows = {} -> Nothing
                                 [] ~ask.utc /\ rows # {} -> <<ask.zones[Min(rows)].posix>>
    BY Zenon DEF TimesRead
  <2>1. answer = vcal2utc(TimeLine(ask.ms, ask.utc), ask.zones)
    BY Zenon DEF UtilInv, AnswerIs, Answered
  <2>2. ask.ms \in ZoneName /\ ask.utc \in BOOLEAN /\ ask.zones \in ZoneTable
    BY <1>1, AskedLine, Zenon DEF Answered
  <2>3. IsZoneName(ask.ms) /\ \A i \in DOMAIN ask.zones : IsZoneName(ask.zones[i].ms)
    BY <2>2, LinesAssumption, Zenon
  <2> QED
    BY <2>1, <2>2, <2>3, TimeIsRead
<1>3. PeopleRead
  <2> DEFINE p == ask.person
  <2> SUFFICES ASSUME Answered("fetchPerson") \/ Answered("ATND_constructor")
               PROVE  IF Len(p.name) <= NameSize /\ (ask.fn = "fetchPerson" \/ p.deputy = <<>>)
                      THEN answer[1] = p.name /\ answer[2] = MailRead(p.mail) ELSE answer = Nothing
    BY Zenon DEF PeopleRead, MailRead
  <2>1. IsPerson(p)
    BY <1>1, AskedLine, LinesAssumption, Zenon DEF Answered
  <2>2. ask.fn = "fetchPerson" => answer = fetchPerson(PersonLine(p))
    BY Zenon DEF UtilInv, AnswerIs, Answered
  <2>3. ask.fn = "ATND_constructor" => answer = ATND_constructor(PersonLine(p))
    BY Zenon DEF UtilInv, AnswerIs, Answered
  <2> HIDE DEF p
  <2>4. Good(p)[1] = p.name /\ Good(p)[2] = MailRead(p.mail)
    BY DEF Good
  <2>5. CASE ask.fn = "fetchPerson"
    BY <2>1, <2>2, <2>4, <2>5, PersonIsFetched, Zenon DEF FitName
  <2>6. CASE ask.fn # "fetchPerson"
    <3>1. ask.fn = "ATND_constructor"
      BY <2>6, Zenon DEF Answered
    <3> QED
      BY <2>1, <2>3, <2>6, <3>1, PersonAttends, Zenon DEF FitName
  <2> QED
    BY <2>5, <2>6
<1>4. TextsUnescaped
  <2> SUFFICES ASSUME Answered("unescape")
               PROVE  answer = FlattenSeq([i \in DOMAIN ask.prose |->
                        IF ask.prose[i] = "newline" THEN <<"newline", "tab">> ELSE <<ask.prose[i]>>])
    BY Zenon DEF TextsUnescaped
  <2>1. answer = unescape(Escaped(ask.prose))
    BY Zenon DEF UtilInv, AnswerIs, Answered
  <2>2. ask.prose \in Seq(STRING)
    BY <1>1, AskedLine, LinesAssumption, Zenon DEF Answered
  <2> QED
    BY <2>1, <2>2, Unescapes, Zenon
<1> QED
  BY <1>2, <1>3, <1>4 DEF LinesRead

\* Of every line that a calendar may have, with any names of zones and any table of
\* them, any people and texts: the time is read in the zone that is named, people with
\* their names and addresses or not at all, and a text as it was before it was escaped.
THEOREM LinesAreRead == Spec => []LinesRead
BY AnswersHold, LineAnswers, PTL

----------------------------------------------------------------------------
(* Texts with bars *)

\* Where the spaces from a place on end, and the piece there.
SpacesEnd(str, k, m) ==
  /\ m \in k..Len(str) /\ \A i \in (k + 1)..m : str[i] = Space
  /\ m = Len(str) \/ str[m + 1] # Space
PieceEnds(str, k, e) ==
  /\ e \in k..Len(str) /\ \A i \in (k + 1)..e : str[i] # Bar
  /\ e = Len(str) \/ str[e + 1] = Bar

SpacesFrom(str, k) == {m \in k..Len(str) : m = Len(str) \/ str[m + 1] # Space}
BarFrom(str, k)    == {e \in k..Len(str) : e = Len(str) \/ ~(str[e + 1] # Bar)}
BarsAfter(str, k)  == {b \in Bars(str) : b > k} \cup {Len(str) + 1}

LEMMA SkipSpaceDef == \A str : \A k : SkipSpace(str, k) = Min(SpacesFrom(str, k))
  BY Zenon DEF SkipSpace, Behind, SpacesFrom

LEMMA SymbolEndDef == \A str : \A k : SymbolEnd(str, k) = Min({k + MaxName, Min(BarFrom(str, k))})
  BY Zenon DEF SymbolEnd, Behind, BarFrom

\* The least of some numbers is among them, and no greater than any.
LEMMA LeastIn ==
  ASSUME NEW S \in SUBSET Nat, S # {}
  PROVE  Min(S) \in S /\ \A k \in S : Min(S) <= k
<1>1. \E m \in S : \A n \in S : m <= n
  BY LeastExists
<1> QED
  BY <1>1, Zenon DEF Min

LEMMA SpacesAre ==
  ASSUME NEW str \in Seq(Char), NEW k \in 0..Len(str)
  PROVE  SpacesEnd(str, k, SkipSpace(str, k))
<1> DEFINE S == SpacesFrom(str, k)
           m == Min(S)
<1>1. Len(str) \in Nat
  OBVIOUS
<1>2. S \in SUBSET Nat /\ Len(str) \in S
  BY <1>1 DEF SpacesFrom
<1>3. \A i \in S : i \in k..Len(str) /\ (i = Len(str) \/ str[i + 1] # Space)
  BY DEF SpacesFrom
<1>4. \A i \in k..Len(str) : i \notin S => str[i + 1] = Space
  BY DEF SpacesFrom
<1> HIDE DEF S
<1>5. m \in S /\ \A i \in S : m <= i
  BY <1>2, LeastIn
<1>6. SkipSpace(str, k) = m
  BY SkipSpaceDef, Zenon DEF S
<1> HIDE DEF m
<1>7. m \in k..Len(str) /\ (m = Len(str) \/ str[m + 1] # Space)
  BY <1>3, <1>5
<1>8. ASSUME NEW i \in (k + 1)..m PROVE str[i] = Space
  <2>1. i - 1 \in k..Len(str) /\ ~(m <= i - 1) /\ (i - 1) + 1 = i
    BY <1>1, <1>7, <1>8
  <2> QED
    BY <1>4, <1>5, <2>1
<1> QED
  BY <1>6, <1>7, <1>8, Zenon DEF SpacesEnd

LEMMA SpacesOnly ==
  ASSUME NEW str \in Seq(Char), NEW k \in 0..Len(str), NEW m, SpacesEnd(str, k, m)
  PROVE  SkipSpace(str, k) = m
<1>1. /\ m \in k..Len(str) /\ \A i \in (k + 1)..m : str[i] = Space
      /\ m = Len(str) \/ str[m + 1] # Space
  BY Zenon DEF SpacesEnd
<1> DEFINE n == SkipSpace(str, k)
<1>2. /\ n \in k..Len(str) /\ \A i \in (k + 1)..n : str[i] = Space
      /\ n = Len(str) \/ str[n + 1] # Space
  BY SpacesAre, Zenon DEF SpacesEnd
<1> HIDE DEF n
<1>3. Len(str) \in Nat
  OBVIOUS
<1>4. ASSUME n < m PROVE FALSE
  <2>1. n + 1 \in (k + 1)..m /\ n # Len(str)
    BY <1>1, <1>2, <1>3, <1>4
  <2> QED
    BY <1>1, <1>2, <2>1
<1>5. ASSUME m < n PROVE FALSE
  <2>1. m + 1 \in (k + 1)..n /\ m # Len(str)
    BY <1>1, <1>2, <1>3, <1>5
  <2> QED
    BY <1>1, <1>2, <2>1
<1>6. n = m
  BY <1>1, <1>2, <1>3, <1>4, <1>5
<1> QED
  BY <1>6 DEF n

LEMMA EndIs ==
  ASSUME NEW str \in Seq(Char), NEW k \in 0..Len(str)
  PROVE  PieceEnds(str, k, End(str, k))
<1> DEFINE S == BarsAfter(str, k)
           b == Min(S)
<1>1. Len(str) \in Nat
  OBVIOUS
<1>2. S \in SUBSET Nat /\ Len(str) + 1 \in S
  BY <1>1 DEF BarsAfter, Bars
<1>3. \A i \in S : i \in (k + 1)..(Len(str) + 1) /\ (i = Len(str) + 1 \/ str[i] = Bar)
  BY <1>1 DEF BarsAfter, Bars
<1>4. \A i \in (k + 1)..Len(str) : i \notin S => str[i] # Bar
  BY <1>1 DEF BarsAfter, Bars
<1> HIDE DEF S
<1>5. b \in S /\ \A i \in S : b <= i
  BY <1>2, LeastIn
<1>6. End(str, k) = b - 1
  BY Zenon DEF End, S, BarsAfter
<1> HIDE DEF b
<1>7. b \in (k + 1)..(Len(str) + 1) /\ (b = Len(str) + 1 \/ str[b] = Bar)
  BY <1>3, <1>5
<1>8. b - 1 \in k..Len(str) /\ (b - 1) + 1 = b /\ (b = Len(str) + 1 => b - 1 = Len(str))
  BY <1>1, <1>7
<1>9. ASSUME NEW i \in (k + 1)..(b - 1) PROVE str[i] # Bar
  <2>1. i \in (k + 1)..Len(str) /\ ~(b <= i)
    BY <1>1, <1>7, <1>9
  <2> QED
    BY <1>4, <1>5, <2>1
<1>10. b - 1 = Len(str) \/ str[(b - 1) + 1] = Bar
  BY <1>7, <1>8
<1> QED
  BY <1>6, <1>8, <1>9, <1>10, Zenon DEF PieceEnds

LEMMA EndOnly ==
  ASSUME NEW str \in Seq(Char), NEW k \in 0..Len(str), NEW e, PieceEnds(str, k, e)
  PROVE  End(str, k) = e
<1>1. /\ e \in k..Len(str) /\ \A i \in (k + 1)..e : str[i] # Bar
      /\ e = Len(str) \/ str[e + 1] = Bar
  BY Zenon DEF PieceEnds
<1> DEFINE n == End(str, k)
<1>2. /\ n \in k..Len(str) /\ \A i \in (k + 1)..n : str[i] # Bar
      /\ n = Len(str) \/ str[n + 1] = Bar
  BY EndIs, Zenon DEF PieceEnds
<1> HIDE DEF n
<1>3. Len(str) \in Nat
  OBVIOUS
<1>4. ASSUME n < e PROVE FALSE
  <2>1. n + 1 \in (k + 1)..e /\ n # Len(str)
    BY <1>1, <1>2, <1>3, <1>4
  <2> QED
    BY <1>1, <1>2, <2>1
<1>5. ASSUME e < n PROVE FALSE
  <2>1. e + 1 \in (k + 1)..n /\ e # Len(str)
    BY <1>1, <1>2, <1>3, <1>5
  <2> QED
    BY <1>1, <1>2, <2>1
<1>6. n = e
  BY <1>1, <1>2, <1>3, <1>4, <1>5
<1> QED
  BY <1>6 DEF n

\* A conversion takes its piece, or as much of it as it may.
LEMMA SymbolEndIs ==
  ASSUME NEW str \in Seq(Char), NEW k \in 0..Len(str)
  PROVE  SymbolEnd(str, k) = Min({k + MaxName, End(str, k)})
<1> DEFINE S == BarFrom(str, k)
           e == Min(S)
<1>1. Len(str) \in Nat
  OBVIOUS
<1>2. S \in SUBSET Nat /\ Len(str) \in S
  BY <1>1 DEF BarFrom
<1>3. \A i \in S : i \in k..Len(str) /\ (i = Len(str) \/ str[i + 1] = Bar)
  BY DEF BarFrom
<1>4. \A i \in k..Len(str) : i \notin S => str[i + 1] # Bar
  BY DEF BarFrom
<1> HIDE DEF S
<1>5. e \in S /\ \A i \in S : e <= i
  BY <1>2, LeastIn
<1>6. SymbolEnd(str, k) = Min({k + MaxName, e})
  BY SymbolEndDef, Zenon DEF S
<1> HIDE DEF e
<1>7. e \in k..Len(str) /\ (e = Len(str) \/ str[e + 1] = Bar)
  BY <1>3, <1>5
<1>8. ASSUME NEW i \in (k + 1)..e PROVE str[i] # Bar
  <2>1. i - 1 \in k..Len(str) /\ ~(e <= i - 1) /\ (i - 1) + 1 = i
    BY <1>1, <1>7, <1>8
  <2> QED
    BY <1>4, <1>5, <2>1
<1>9. PieceEnds(str, k, e)
  BY <1>7, <1>8, Zenon DEF PieceEnds
<1>10. End(str, k) = e
  BY <1>9, EndOnly
<1> QED
  BY <1>6, <1>10

PieceOf(str, k) == SubSeq(str, Begin(str, k) + 1, End(str, k))
Heads(str)      == {0} \cup Bars(str)

LEMMA PiecesAre == \A str : Pieces(str) = {PieceOf(str, k) : k \in Heads(str)}
  BY Zenon DEF Pieces, PieceOf, Heads

\* Where a piece begins and ends.
LEMMA PieceIs ==
  ASSUME NEW str \in Seq(Char), NEW k \in Heads(str)
  PROVE  /\ k \in 0..Len(str) /\ Begin(str, k) \in k..Len(str) /\ End(str, k) \in Begin(str, k)..Len(str)
         /\ End(str, Begin(str, k)) = End(str, k)
         /\ \A i \in (k + 1)..End(str, k) : str[i] # Bar
         /\ End(str, k) = Len(str) \/ str[End(str, k) + 1] = Bar
         /\ PieceOf(str, k) \in Seq(Char) /\ Len(PieceOf(str, k)) = End(str, k) - Begin(str, k)
<1> DEFINE b == Begin(str, k)
           e == End(str, k)
<1>1. Len(str) \in Nat /\ k \in 0..Len(str)
  BY DEF Heads, Bars
<1>2. b \in k..Len(str) /\ \A i \in (k + 1)..b : str[i] = Space
  <2>1. CASE k = 0
    <3>1. b = 0
      BY <2>1 DEF Begin
    <3> QED
      BY <1>1, <2>1, <3>1
  <2>2. CASE k # 0
    <3>1. b = SkipSpace(str, k)
      BY <2>2 DEF Begin
    <3> QED
      BY <1>1, <3>1, SpacesAre DEF SpacesEnd
  <2> QED
    BY <2>1, <2>2
<1>3. e \in k..Len(str) /\ (\A i \in (k + 1)..e : str[i] # Bar) /\ (e = Len(str) \/ str[e + 1] = Bar)
  BY <1>1, EndIs, Zenon DEF PieceEnds
<1>4. PieceOf(str, k) = SubSeq(str, b + 1, e)
  BY DEF PieceOf
<1> HIDE DEF b, e
<1>5. b <= e
  <2>1. SUFFICES ASSUME e < b PROVE FALSE
    BY <1>2, <1>3
  <2>2. e + 1 \in (k + 1)..b /\ e # Len(str)
    BY <1>1, <1>2, <1>3, <2>1
  <2> QED
    BY <1>2, <1>3, <2>2, TextAssumption
<1>6. e \in b..Len(str) /\ \A i \in (b + 1)..e : str[i] # Bar
  BY <1>1, <1>2, <1>3, <1>5
<1>7. PieceEnds(str, b, e)
  BY <1>3, <1>6, Zenon DEF PieceEnds
<1>8. b \in 0..Len(str)
  BY <1>1, <1>2
<1>9. End(str, b) = e
  BY <1>7, <1>8, EndOnly
<1>10. SubSeq(str, b + 1, e) \in Seq(Char) /\ Len(SubSeq(str, b + 1, e)) = e - b
  <2>1. CASE b = e
    BY <1>1, <1>6, <2>1
  <2>2. CASE b # e
    <3>1. b + 1 \in 1..Len(str) /\ e \in 1..Len(str) /\ e - (b + 1) + 1 = e - b /\ b + 1 <= e
      BY <1>1, <1>2, <1>6, <2>2
    <3> QED
      BY <3>1, SubSeqProperties
  <2> QED
    BY <2>1, <2>2
<1> QED
  BY <1>1, <1>2, <1>3, <1>4, <1>6, <1>9, <1>10 DEF b, e

----------------------------------------------------------------------------
(* sscanf with str2bits's format *)

ScanStates == [at : Nat, going : BOOLEAN, symbols : Seq(Seq(Char))]

Symbol(str, k)   == SubSeq(str, Begin(str, k) + 1, SymbolEnd(str, Begin(str, k)))
Taken(str, s, k) ==
  [at |-> SymbolEnd(str, Begin(str, k)), going |-> TRUE, symbols |-> Append(s.symbols, Symbol(str, k))]
Stopped(s)       == [s EXCEPT !.going = FALSE]

LEMMA FirstConverted ==
  ASSUME NEW str, NEW s
  PROVE  Converted(str, s, TRUE) = IF s.going /\ SymbolEnd(str, 0) > 0 THEN Taken(str, s, 0) ELSE Stopped(s)
<1>1. Begin(str, 0) = 0
  BY DEF Begin
<1> QED
  BY <1>1, Zenon DEF Converted, Taken, Symbol, Stopped

LEMMA LaterConverted ==
  ASSUME NEW str, NEW s, NEW k \in Nat \ {0}, k = SkipSpace(str, s.at) + 1
  PROVE  Converted(str, s, FALSE) =
           IF /\ s.going /\ SkipSpace(str, s.at) < Len(str) /\ str[k] = Bar /\ Begin(str, k) < Len(str)
              /\ SymbolEnd(str, Begin(str, k)) > Begin(str, k)
           THEN Taken(str, s, k) ELSE Stopped(s)
<1>1. Begin(str, k) = SkipSpace(str, k)
  BY Zenon DEF Begin
<1> QED
  BY <1>1, Zenon DEF Converted, Taken, Symbol, Stopped

LEMMA StoppedIs ==
  ASSUME NEW s \in ScanStates
  PROVE  Stopped(s) \in ScanStates /\ Stopped(s).at = s.at /\ Stopped(s).going = FALSE /\ Stopped(s).symbols = s.symbols
BY DEF ScanStates, Stopped

HasLong(str) == \E p \in Pieces(str) : Len(p) > MaxName

\* A symbol is a piece, unless it is cut.
LEMMA SymbolIs ==
  ASSUME NEW str \in Seq(Char), NEW k \in Heads(str)
  PROVE  /\ SymbolEnd(str, Begin(str, k)) \in Begin(str, k)..End(str, k) /\ Symbol(str, k) \in Seq(Char)
         /\ Symbol(str, k) \in Pieces(str) \/ HasLong(str)
         /\ Len(PieceOf(str, k)) <= MaxName =>
              SymbolEnd(str, Begin(str, k)) = End(str, k) /\ Symbol(str, k) = PieceOf(str, k)
<1> DEFINE b == Begin(str, k)
           e == End(str, k)
           m == SymbolEnd(str, b)
<1>1. /\ Len(str) \in Nat /\ MaxName \in Nat /\ MaxName >= 1
      /\ b \in 0..Len(str) /\ e \in b..Len(str) /\ End(str, b) = e
      /\ PieceOf(str, k) \in Seq(Char) /\ Len(PieceOf(str, k)) = e - b
  BY PieceIs, TextAssumption
<1>2. m = Min({b + MaxName, e})
  BY <1>1, SymbolEndIs
<1>3. Symbol(str, k) = SubSeq(str, b + 1, m) /\ PieceOf(str, k) = SubSeq(str, b + 1, e)
  BY DEF Symbol, PieceOf
<1>4. PieceOf(str, k) \in Pieces(str)
  BY PiecesAre
<1> HIDE DEF b, e, m
<1>5. m <= b + MaxName /\ m <= e /\ (m = b + MaxName \/ m = e)
  <2>1. b + MaxName \in Nat /\ e \in Nat
    BY <1>1
  <2> QED
    BY <1>2, <2>1, LesserIs
<1>6. m \in b..e
  BY <1>1, <1>5
<1>7. SubSeq(str, b + 1, m) \in Seq(Char)
  <2>1. CASE b = m
    BY <1>1, <2>1
  <2>2. CASE b # m
    <3>1. b + 1 \in 1..Len(str) /\ m \in 1..Len(str) /\ b + 1 <= m
      BY <1>1, <1>6, <2>2
    <3> QED
      BY <3>1, SubSeqProperties
  <2> QED
    BY <2>1, <2>2
<1>8. e - b <= MaxName => m = e
  BY <1>1, <1>5
<1>9. e - b > MaxName => HasLong(str)
  BY <1>1, <1>4 DEF HasLong
<1>10. e - b <= MaxName \/ e - b > MaxName
  BY <1>1
<1> QED
  BY <1>1, <1>3, <1>4, <1>6, <1>7, <1>8, <1>9, <1>10 DEF b, e, m

\* Whatever a text is, every symbol is a piece of it, or some piece is too long.
FromPieces(str, s) ==
  /\ s \in ScanStates /\ s.at \in 0..Len(str)
  /\ Len(s.symbols) > 0 => Len(str) > 0
  /\ \A i \in 1..Len(s.symbols) : s.symbols[i] \in Pieces(str) \/ HasLong(str)

LEMMA TakenFromPieces ==
  ASSUME NEW str \in Seq(Char), NEW s, FromPieces(str, s), NEW k \in Heads(str),
         SymbolEnd(str, Begin(str, k)) > Begin(str, k)
  PROVE  FromPieces(str, Taken(str, s, k))
<1> DEFINE r == Taken(str, s, k)
           x == Symbol(str, k)
           e == SymbolEnd(str, Begin(str, k))
           t == Append(s.symbols, x)
<1>1. /\ s.symbols \in Seq(Seq(Char)) /\ x \in Seq(Char) /\ Len(str) \in Nat
      /\ e \in 0..Len(str) /\ e > 0 /\ (x \in Pieces(str) \/ HasLong(str))
  <2>1. s.symbols \in Seq(Seq(Char)) /\ Len(str) \in Nat
    BY DEF FromPieces, ScanStates
  <2>2. k \in 0..Len(str) /\ Begin(str, k) \in k..Len(str) /\ End(str, k) \in Begin(str, k)..Len(str)
    BY PieceIs
  <2>3. e \in Begin(str, k)..End(str, k) /\ x \in Seq(Char) /\ (x \in Pieces(str) \/ HasLong(str))
    BY SymbolIs
  <2> QED
    BY <2>1, <2>2, <2>3
<1>2. r = [at |-> e, going |-> TRUE, symbols |-> t]
  BY DEF Taken
<1> HIDE DEF r, x, e
<1>3. /\ t \in Seq(Seq(Char)) /\ Len(t) = Len(s.symbols) + 1 /\ t[Len(s.symbols) + 1] = x /\ Len(s.symbols) \in Nat
      /\ \A i \in 1..Len(s.symbols) : t[i] = s.symbols[i]
  BY <1>1, AppendProperties
<1> HIDE DEF t
<1>4. r \in ScanStates /\ r.at = e /\ r.symbols = t
  BY <1>1, <1>2, <1>3 DEF ScanStates
<1>5. ASSUME NEW i \in 1..Len(t) PROVE t[i] \in Pieces(str) \/ HasLong(str)
  <2>1. CASE i = Len(s.symbols) + 1
    BY <1>1, <1>3, <2>1
  <2>2. CASE i # Len(s.symbols) + 1
    <3>1. i \in 1..Len(s.symbols)
      BY <1>3, <2>2
    <3> QED
      BY <1>3, <3>1 DEF FromPieces
  <2> QED
    BY <2>1, <2>2
<1>6. Len(str) > 0
  BY <1>1
<1> QED
  BY <1>1, <1>4, <1>5, <1>6 DEF FromPieces, r

LEMMA ConvertedFromPieces ==
  ASSUME NEW str \in Seq(Char), NEW s, FromPieces(str, s), NEW first \in BOOLEAN
  PROVE  FromPieces(str, Converted(str, s, first))
<1>1. s \in ScanStates /\ s.at \in 0..Len(str) /\ Len(str) \in Nat
  BY DEF FromPieces
<1>2. FromPieces(str, Stopped(s))
  BY <1>1, StoppedIs DEF FromPieces
<1>3. CASE first
  <2>1. CASE s.going /\ SymbolEnd(str, 0) > 0
    <3>1. Converted(str, s, TRUE) = Taken(str, s, 0)
      BY <2>1, FirstConverted
    <3>2. 0 \in Heads(str) /\ Begin(str, 0) = 0
      BY DEF Heads, Begin
    <3> QED
      BY <1>3, <2>1, <3>1, <3>2, TakenFromPieces
  <2>2. CASE ~(s.going /\ SymbolEnd(str, 0) > 0)
    BY <1>2, <1>3, <2>2, FirstConverted
  <2> QED
    BY <2>1, <2>2
<1>4. CASE ~first
  <2> DEFINE bar == SkipSpace(str, s.at)
             k   == bar + 1
  <2>1. bar \in 0..Len(str)
    BY <1>1, SpacesAre DEF SpacesEnd
  <2>2. k \in Nat \ {0} /\ (bar < Len(str) => k \in 1..Len(str))
    BY <1>1, <2>1
  <2> DEFINE goes == /\ s.going /\ bar < Len(str) /\ str[k] = Bar /\ Begin(str, k) < Len(str)
                     /\ SymbolEnd(str, Begin(str, k)) > Begin(str, k)
  <2>3. Converted(str, s, FALSE) = IF goes THEN Taken(str, s, k) ELSE Stopped(s)
    BY <2>2, LaterConverted
  <2>4. ASSUME goes PROVE k \in Heads(str) /\ SymbolEnd(str, Begin(str, k)) > Begin(str, k)
    BY <2>2, <2>4 DEF Heads, Bars
  <2> HIDE DEF goes, k, bar
  <2>5. CASE goes
    BY <1>4, <2>3, <2>4, <2>5, TakenFromPieces
  <2>6. CASE ~goes
    BY <1>2, <1>4, <2>3, <2>6
  <2> QED
    BY <2>5, <2>6
<1> QED
  BY <1>3, <1>4

----------------------------------------------------------------------------
(* Texts of pieces that fit *)

Fitting(str) == \A k \in Heads(str) : Len(PieceOf(str, k)) \in 1..MaxName

Passed(str, at) == {b \in Bars(str) : b <= at}
ReadSoFar(str, n, s) ==
  /\ s \in ScanStates /\ s.at \in 1..Len(str) /\ (s.at = Len(str) \/ str[s.at + 1] = Bar)
  /\ {s.symbols[i] : i \in 1..Len(s.symbols)} = {PieceOf(str, k) : k \in {0} \cup Passed(str, s.at)}
  /\ IF s.going THEN Cardinality(Passed(str, s.at)) = n - 1 ELSE s.at = Len(str)

Start == [at |-> 0, going |-> TRUE, symbols |-> <<>>]

LEMMA BarsAreFinite ==
  ASSUME NEW str \in Seq(Char), NEW at
  PROVE  IsFiniteSet(Bars(str)) /\ IsFiniteSet(Passed(str, at)) /\ Passed(str, at) \subseteq Bars(str)
<1>1. Bars(str) \subseteq 1..Len(str) /\ Passed(str, at) \subseteq Bars(str) /\ Len(str) \in Nat
  BY DEF Bars, Passed
<1>2. IsFiniteSet(1..Len(str))
  BY <1>1, FS_Interval
<1> QED
  BY <1>1, <1>2, FS_Subset

LEMMA Appended1 ==
  ASSUME NEW T, NEW s \in Seq(T), NEW x \in T
  PROVE  {Append(s, x)[i] : i \in 1..Len(Append(s, x))} = {s[i] : i \in 1..Len(s)} \cup {x}
<1> DEFINE t == Append(s, x)
<1>1. /\ t \in Seq(T) /\ Len(t) = Len(s) + 1 /\ t[Len(s) + 1] = x /\ Len(s) \in Nat
      /\ \A i \in 1..Len(s) : t[i] = s[i]
  BY AppendProperties
<1> HIDE DEF t
<1>2. 1..Len(t) = 1..Len(s) \cup {Len(s) + 1}
  BY <1>1
<1>3. {t[i] : i \in 1..Len(t)} = {s[i] : i \in 1..Len(s)} \cup {x}
  BY <1>1, <1>2
<1> QED
  BY <1>3 DEF t

\* The first symbol is the first piece.
LEMMA FirstRead ==
  ASSUME NEW str \in Seq(Char), Fitting(str)
  PROVE  ReadSoFar(str, 1, Converted(str, Start, TRUE))
<1> DEFINE e == End(str, 0)
           x == PieceOf(str, 0)
<1>0. 0 \in Heads(str) /\ Begin(str, 0) = 0 /\ Len(str) \in Nat
  BY DEF Heads, Begin
<1>1. /\ e \in 0..Len(str) /\ (\A i \in 1..e : str[i] # Bar) /\ (e = Len(str) \/ str[e + 1] = Bar)
      /\ x \in Seq(Char) /\ Len(x) = e
  <2>1. e \in 0..Len(str) /\ (e = Len(str) \/ str[e + 1] = Bar) /\ x \in Seq(Char) /\ Len(x) = e
    BY <1>0, PieceIs
  <2>2. \A i \in (0 + 1)..End(str, 0) : str[i] # Bar
    BY <1>0, PieceIs
  <2> QED
    BY <2>1, <2>2
<1>2. Len(x) \in 1..MaxName
  BY <1>0 DEF Fitting
<1>3. SymbolEnd(str, 0) = e /\ Symbol(str, 0) = x
  BY <1>0, <1>2, SymbolIs, TextAssumption
<1>4. Start.going /\ Start.symbols = <<>>
  BY DEF Start
<1>5. e > 0
  BY <1>1, <1>2
<1>6. Converted(str, Start, TRUE) = Taken(str, Start, 0)
  BY <1>3, <1>4, <1>5, FirstConverted
<1>7. Taken(str, Start, 0) = [at |-> e, going |-> TRUE, symbols |-> <<x>>]
  <2>1. Append(<<>>, x) = <<x>>
    OBVIOUS
  <2> QED
    BY <1>0, <1>3, <1>4, <2>1, Zenon DEF Taken
<1> DEFINE r == [at |-> e, going |-> TRUE, symbols |-> <<x>>]
<1>8. Passed(str, e) = {}
  BY <1>1 DEF Passed, Bars
<1>9. Cardinality(Passed(str, e)) = 1 - 1
  BY <1>8, FS_EmptySet
<1> HIDE DEF e, x
<1>10. r \in ScanStates /\ r.at = e /\ r.going /\ r.symbols = <<x>>
  BY <1>1 DEF ScanStates
<1>11. {<<x>>[i] : i \in 1..Len(<<x>>)} = {x}
  OBVIOUS
<1>12. {PieceOf(str, k) : k \in {0} \cup Passed(str, e)} = {x}
  BY <1>8 DEF x
<1> HIDE DEF r
<1>13. e \in 1..Len(str)
  BY <1>1, <1>5
<1>a. {r.symbols[i] : i \in 1..Len(r.symbols)} = {PieceOf(str, k) : k \in {0} \cup Passed(str, r.at)}
  BY <1>10, <1>11, <1>12
<1>b. e = Len(str) \/ str[e + 1] = Bar
  BY <1>1
<1>14. ReadSoFar(str, 1, r)
  BY <1>9, <1>10, <1>13, <1>a, <1>b, Zenon DEF ReadSoFar
<1> QED
  BY <1>6, <1>7, <1>14 DEF r

\* Each of the others is the piece behind the next bar, until there is none.
LEMMA NextRead ==
  ASSUME NEW str \in Seq(Char), Fitting(str), NEW n \in Nat, n >= 1, NEW s, ReadSoFar(str, n, s)
  PROVE  ReadSoFar(str, n + 1, Converted(str, s, FALSE))
<1> DEFINE bar == SkipSpace(str, s.at)
           k   == s.at + 1
<1>1. /\ s \in ScanStates /\ s.at \in 1..Len(str) /\ (s.at = Len(str) \/ str[s.at + 1] = Bar)
      /\ {s.symbols[i] : i \in 1..Len(s.symbols)} = {PieceOf(str, j) : j \in {0} \cup Passed(str, s.at)}
      /\ (s.going => Cardinality(Passed(str, s.at)) = n - 1) /\ (~s.going => s.at = Len(str))
  BY Zenon DEF ReadSoFar
<1>2. Len(str) \in Nat /\ s.symbols \in Seq(Seq(Char)) /\ s.going \in BOOLEAN
  BY <1>1 DEF ScanStates
<1>3. bar = s.at
  <2>1. s.at \in 0..Len(str) /\ s.at \in s.at..Len(str) /\ ((s.at + 1)..s.at) = {}
    BY <1>1, <1>2
  <2>2. SpacesEnd(str, s.at, s.at)
    BY <1>1, <2>1, TextAssumption DEF SpacesEnd
  <2> QED
    BY <2>1, <2>2, SpacesOnly
<1>4. k \in Nat \ {0} /\ k = bar + 1
  BY <1>1, <1>2, <1>3
<1> DEFINE goes == /\ s.going /\ bar < Len(str) /\ str[k] = Bar /\ Begin(str, k) < Len(str)
                   /\ SymbolEnd(str, Begin(str, k)) > Begin(str, k)
<1>5. Converted(str, s, FALSE) = IF goes THEN Taken(str, s, k) ELSE Stopped(s)
  BY <1>4, LaterConverted
<1>6. CASE ~s.going \/ s.at = Len(str)
  <2>1. ~goes
    BY <1>2, <1>3, <1>6
  <2>2. s.at = Len(str)
    BY <1>1, <1>6
  <2>3. Converted(str, s, FALSE) = Stopped(s)
    BY <1>5, <2>1
  <2>4. Stopped(s) \in ScanStates /\ Stopped(s).at = s.at /\ Stopped(s).going = FALSE /\ Stopped(s).symbols = s.symbols
    BY <1>1, StoppedIs
  <2>5. ReadSoFar(str, n + 1, Stopped(s))
    BY <1>1, <2>2, <2>4, Zenon DEF ReadSoFar
  <2> QED
    BY <2>3, <2>5
<1>7. CASE s.going /\ s.at # Len(str)
  <2> DEFINE b == Begin(str, k)
             e == End(str, k)
             x == PieceOf(str, k)
             r == Taken(str, s, k)
  <2>1. k \in 1..Len(str) /\ str[k] = Bar /\ k \in Heads(str) /\ k \in Bars(str)
    BY <1>1, <1>2, <1>7 DEF Heads, Bars
  <2>2. /\ b \in k..Len(str) /\ e \in b..Len(str) /\ (\A i \in (k + 1)..e : str[i] # Bar)
        /\ (e = Len(str) \/ str[e + 1] = Bar) /\ x \in Seq(Char) /\ Len(x) = e - b
    BY <2>1, PieceIs
  <2>3. Len(x) \in 1..MaxName
    BY <2>1 DEF Fitting
  <2>4. SymbolEnd(str, b) = e /\ Symbol(str, k) = x
    BY <2>1, <2>3, SymbolIs, TextAssumption
  <2>5. b < e /\ b < Len(str) /\ bar < Len(str) /\ e \in 1..Len(str)
    BY <1>1, <1>2, <1>3, <1>7, <2>1, <2>2, <2>3
  <2>6. goes
    BY <1>7, <2>1, <2>4, <2>5
  <2>7. Converted(str, s, FALSE) = r
    BY <1>5, <2>6
  <2>8. r = [at |-> e, going |-> TRUE, symbols |-> Append(s.symbols, x)]
    BY <2>4, Zenon DEF Taken
  <2>9. Passed(str, e) = Passed(str, s.at) \cup {k} /\ k \notin Passed(str, s.at)
    <3>1. k \notin Passed(str, s.at)
      BY <1>1, <1>2 DEF Passed, Bars
    <3>2. ASSUME NEW j \in Bars(str) PROVE j <= e <=> j <= s.at \/ j = k
      <4>1. j \in 1..Len(str) /\ str[j] = Bar
        BY DEF Bars
      <4>2. j \notin (k + 1)..e
        BY <2>2, <4>1
      <4> QED
        BY <1>1, <1>2, <2>1, <2>2, <4>1, <4>2
    <3> QED
      BY <2>1, <3>1, <3>2 DEF Passed
  <2> HIDE DEF e, x, b, k, goes, bar, r
  <2>10. Cardinality(Passed(str, e)) = (n + 1) - 1
    <3>1. IsFiniteSet(Passed(str, s.at))
      BY BarsAreFinite
    <3>2. Cardinality(Passed(str, s.at) \cup {k}) = Cardinality(Passed(str, s.at)) + 1
      BY <2>9, <3>1, FS_AddElement
    <3> QED
      BY <1>1, <1>7, <2>9, <3>2
  <2>11. Append(s.symbols, x) \in Seq(Seq(Char))
    BY <1>2, <2>2, AppendProperties
  <2>12. r \in ScanStates /\ r.at = e /\ r.going = TRUE /\ r.symbols = Append(s.symbols, x)
    BY <2>5, <1>2, <2>8, <2>11 DEF ScanStates
  <2>13. {r.symbols[i] : i \in 1..Len(r.symbols)} = {s.symbols[i] : i \in 1..Len(s.symbols)} \cup {x}
    BY <1>2, <2>2, <2>12, Appended1, SMTT(20)
  <2>14. {PieceOf(str, j) : j \in {0} \cup Passed(str, e)} = {PieceOf(str, j) : j \in {0} \cup Passed(str, s.at)} \cup {x}
    BY <2>9, Zenon DEF x
  <2>15. {r.symbols[i] : i \in 1..Len(r.symbols)} = {PieceOf(str, j) : j \in {0} \cup Passed(str, e)}
    BY <1>1, <2>13, <2>14, Zenon
  <2>16. ReadSoFar(str, n + 1, r)
    BY <2>2, <2>5, <2>10, <2>12, <2>15, Zenon DEF ReadSoFar
  <2> QED
    BY <2>7, <2>16
<1> QED
  BY <1>2, <1>6, <1>7

----------------------------------------------------------------------------
ScanTurn(str, f, k) == IF k = 0 THEN Start ELSE Converted(str, f[k - 1], k = 1)
ScanTo(str, n, f)   == f = [k \in 0..n |-> ScanTurn(str, f, k)]
ScanFrom(str) ==
  CHOOSE f : f = [k \in 0..MaxSymbols |->
                   IF k = 0 THEN [at |-> 0, going |-> TRUE, symbols |-> <<>>]
                   ELSE Converted(str, f[k - 1], k = 1)]

LEMMA ScanExists ==
  ASSUME NEW str
  PROVE  \E f : ScanTo(str, MaxSymbols, f)
<1> DEFINE N == MaxSymbols
           S == {k \in 0..N : \E f : ScanTo(str, k, f)}
<1>0. N \in Nat /\ N >= 1
  BY TextAssumption
<1>1. 0 \in S
  <2> DEFINE f == [k \in 0..0 |-> Start]
  <2>1. \A k \in 0..0 : k = 0 /\ ScanTurn(str, f, k) = Start
    BY DEF ScanTurn
  <2>2. f = [k \in 0..0 |-> ScanTurn(str, f, k)]
    <3> HIDE DEF f
    <3>1. [k \in 0..0 |-> ScanTurn(str, f, k)] = [k \in 0..0 |-> Start]
      BY <2>1
    <3> QED
      BY <3>1 DEF f
  <2>3. ScanTo(str, 0, f)
    BY <2>2, Zenon DEF ScanTo
  <2>4. 0 \in 0..N
    BY <1>0
  <2> HIDE DEF f
  <2> QED
    BY <2>3, <2>4
<1>2. ASSUME NEW k \in 1..N, k - 1 \in S PROVE k \in S
  <2>1. PICK f : ScanTo(str, k - 1, f)
    BY <1>2
  <2> DEFINE g == [i \in 0..k |-> ScanTurn(str, f, i)]
  <2>2. ASSUME NEW i \in 0..k, i # 0 PROVE g[i - 1] = f[i - 1]
    <3>1. i - 1 \in 0..k /\ i - 1 \in 0..(k - 1)
      BY <1>0, <2>2
    <3>2. f[i - 1] = ScanTurn(str, f, i - 1)
      BY <2>1, <3>1 DEF ScanTo
    <3> QED
      BY <3>1, <3>2
  <2>3. \A i \in 0..k : ScanTurn(str, g, i) = ScanTurn(str, f, i)
    <3> HIDE DEF g
    <3> QED
      BY <2>2 DEF ScanTurn
  <2>4. g = [i \in 0..k |-> ScanTurn(str, g, i)]
    BY <2>3
  <2>5. k \in 0..N
    BY <1>0
  <2> QED
    BY <2>4, <2>5 DEF ScanTo
<1> HIDE DEF S
<1>3. ASSUME NEW i \in 1..(N + 1), \A j \in 1..(i - 1) : j - 1 \in S PROVE i - 1 \in S
  <2>1. CASE i = 1
    BY <1>1, <2>1
  <2>2. CASE i # 1
    <3>1. i - 1 \in 1..N /\ i - 1 \in 1..(i - 1)
      BY <1>0, <2>2
    <3> QED
      BY <1>2, <1>3, <3>1
  <2> QED
    BY <2>1, <2>2
<1>4. \A i \in 1..(N + 1) : i - 1 \in S
  <2> DEFINE U == {i \in 1..(N + 1) : i - 1 \in S}
  <2>1. \A i \in 1..(N + 1) : (\A j \in 1..(i - 1) : j \in U) => i \in U
    BY <1>0, <1>3
  <2>2. N + 1 \in Nat
    BY <1>0
  <2> HIDE DEF U
  <2>3. \A i \in 1..(N + 1) : i \in U
    BY <2>1, <2>2, FromTheStart
  <2> QED
    BY <2>3 DEF U
<1>5. N + 1 \in 1..(N + 1) /\ (N + 1) - 1 = N
  BY <1>0
<1>6. N \in S
  BY <1>4, <1>5
<1> QED
  BY <1>6 DEF S

LEMMA ScanIs ==
  ASSUME NEW str
  PROVE  /\ Scanned(str) = ScanFrom(str)[MaxSymbols].symbols
         /\ ScanFrom(str)[0] = Start
         /\ \A k \in 1..MaxSymbols : ScanFrom(str)[k] = Converted(str, ScanFrom(str)[k - 1], k = 1)
<1>1. PICK f : ScanTo(str, MaxSymbols, f)
  BY ScanExists
<1>2. f = [k \in 0..MaxSymbols |->
             IF k = 0 THEN [at |-> 0, going |-> TRUE, symbols |-> <<>>]
             ELSE Converted(str, f[k - 1], k = 1)]
  BY <1>1, Zenon DEF ScanTo, ScanTurn, Start
<1>3. ScanFrom(str) = [k \in 0..MaxSymbols |->
                        IF k = 0 THEN [at |-> 0, going |-> TRUE, symbols |-> <<>>]
                        ELSE Converted(str, ScanFrom(str)[k - 1], k = 1)]
  BY <1>2, Zenon DEF ScanFrom
<1>4. Scanned(str) = ScanFrom(str)[MaxSymbols].symbols
  BY Zenon DEF Scanned, ScanFrom
<1> HIDE DEF ScanFrom
<1>5. 0 \in 0..MaxSymbols /\ \A k \in 1..MaxSymbols : k \in 0..MaxSymbols /\ k # 0
  BY TextAssumption
<1>6. ScanFrom(str)[0] = Start
  BY <1>3, <1>5, Zenon DEF Start
<1>7. ASSUME NEW k \in 1..MaxSymbols PROVE ScanFrom(str)[k] = Converted(str, ScanFrom(str)[k - 1], k = 1)
  BY <1>3, <1>5, Zenon
<1> QED
  BY <1>4, <1>6, <1>7

\* What holds of the first, and of each behind one it holds of, holds of all.
LEMMA OneByOneOn ==
  ASSUME NEW N \in Nat, N >= 1, NEW S, 1 \in S, \A k \in 1..(N - 1) : k \in S => k + 1 \in S
  PROVE  N \in S
<1>1. ASSUME NEW i \in 1..N, \A j \in 1..(i - 1) : j \in S PROVE i \in S
  <2>1. CASE i = 1
    BY <2>1
  <2>2. CASE i # 1
    <3>1. i - 1 \in 1..(i - 1) /\ i - 1 \in 1..(N - 1) /\ (i - 1) + 1 = i
      BY <2>2
    <3> QED
      BY <1>1, <3>1
  <2> QED
    BY <2>1, <2>2
<1>2. \A i \in 1..N : i \in S
  BY <1>1, FromTheStart
<1> QED
  BY <1>2

\* Every symbol is a piece, or some piece is too long; nothing has no symbols.
LEMMA ScannedFromPieces ==
  ASSUME NEW str \in Seq(Char)
  PROVE  /\ Scanned(str) \in Seq(Seq(Char)) /\ (Len(Scanned(str)) > 0 => Len(str) > 0)
         /\ \A i \in 1..Len(Scanned(str)) : Scanned(str)[i] \in Pieces(str) \/ HasLong(str)
<1> DEFINE f == ScanFrom(str)
           S == {k \in 1..MaxSymbols : FromPieces(str, f[k])}
<1>0. MaxSymbols \in Nat /\ MaxSymbols >= 1 /\ Len(str) \in Nat
  BY TextAssumption
<1>1. f[0] = Start /\ \A k \in 1..MaxSymbols : f[k] = Converted(str, f[k - 1], k = 1)
  BY ScanIs
<1>2. FromPieces(str, Start)
  <2>1. Start \in ScanStates /\ Start.at = 0 /\ Start.symbols = <<>> /\ Len(<<>>) = 0
    BY DEF Start, ScanStates
  <2>2. 0 \in 0..Len(str) /\ 1..0 = {} /\ ~(0 > 0)
    BY <1>0
  <2> QED
    BY <2>1, <2>2 DEF FromPieces
<1> HIDE DEF f
<1>3. 1 \in S
  <2>1. 1 \in 1..MaxSymbols /\ 1 - 1 = 0
    BY <1>0
  <2>2. f[1] = Converted(str, Start, 1 = 1)
    BY <1>1, <2>1
  <2>3. (1 = 1) \in BOOLEAN
    OBVIOUS
  <2>4. FromPieces(str, f[1])
    BY <1>2, <2>2, <2>3, ConvertedFromPieces
  <2> QED
    BY <2>1, <2>4
<1>4. ASSUME NEW k \in 1..(MaxSymbols - 1), k \in S PROVE k + 1 \in S
  <2>1. k + 1 \in 1..MaxSymbols /\ (k + 1) - 1 = k /\ (k + 1 = 1) \in BOOLEAN
    BY <1>0
  <2>2. f[k + 1] = Converted(str, f[k], k + 1 = 1)
    BY <1>1, <2>1
  <2>3. FromPieces(str, f[k])
    BY <1>4
  <2>4. FromPieces(str, f[k + 1])
    BY <2>1, <2>2, <2>3, ConvertedFromPieces
  <2> QED
    BY <2>1, <2>4
<1>5. MaxSymbols \in S
  <2> HIDE DEF S
  <2> QED
    BY <1>0, <1>3, <1>4, OneByOneOn
<1>6. FromPieces(str, f[MaxSymbols]) /\ Scanned(str) = f[MaxSymbols].symbols
  BY <1>5, ScanIs DEF f
<1> QED
  BY <1>6 DEF FromPieces, ScanStates

\* All pieces are read, when they fit and are not too many.
LEMMA ScannedAll ==
  ASSUME NEW str \in Seq(Char), Fitting(str), Cardinality(Bars(str)) < MaxSymbols
  PROVE  {Scanned(str)[i] : i \in 1..Len(Scanned(str))} = Pieces(str)
<1> DEFINE f == ScanFrom(str)
           S == {k \in 1..MaxSymbols : ReadSoFar(str, k, f[k])}
<1>0. MaxSymbols \in Nat /\ MaxSymbols >= 1 /\ Len(str) \in Nat
  BY TextAssumption
<1>1. f[0] = Start /\ \A k \in 1..MaxSymbols : f[k] = Converted(str, f[k - 1], k = 1)
  BY ScanIs
<1>2. f[MaxSymbols].symbols = Scanned(str)
  BY ScanIs
<1> HIDE DEF f
<1>3. 1 \in S
  <2>1. 1 \in 1..MaxSymbols /\ 1 - 1 = 0 /\ (1 = 1) = TRUE
    BY <1>0
  <2>2. f[1] = Converted(str, Start, TRUE)
    BY <1>1, <2>1
  <2>3. ReadSoFar(str, 1, f[1])
    BY <2>2, FirstRead
  <2> QED
    BY <2>1, <2>3
<1>4. ASSUME NEW k \in 1..(MaxSymbols - 1), k \in S PROVE k + 1 \in S
  <2>1. k + 1 \in 1..MaxSymbols /\ (k + 1) - 1 = k /\ (k + 1 = 1) = FALSE /\ k \in Nat /\ k >= 1
    BY <1>0
  <2>2. f[k + 1] = Converted(str, f[k], FALSE)
    BY <1>1, <2>1
  <2>3. ReadSoFar(str, k, f[k])
    BY <1>4
  <2>4. ReadSoFar(str, k + 1, f[k + 1])
    BY <2>1, <2>2, <2>3, NextRead
  <2> QED
    BY <2>1, <2>4
<1>5. MaxSymbols \in S
  <2> HIDE DEF S
  <2> QED
    BY <1>0, <1>3, <1>4, OneByOneOn
<1> DEFINE s == f[MaxSymbols]
<1>6. ReadSoFar(str, MaxSymbols, s)
  BY <1>5
<1> HIDE DEF s
<1>7. /\ s \in ScanStates /\ s.at \in 1..Len(str)
      /\ {s.symbols[i] : i \in 1..Len(s.symbols)} = {PieceOf(str, k) : k \in {0} \cup Passed(str, s.at)}
      /\ (s.going => Cardinality(Passed(str, s.at)) = MaxSymbols - 1) /\ (~s.going => s.at = Len(str))
  BY <1>6, Zenon DEF ReadSoFar
<1>8. Passed(str, s.at) = Bars(str)
  <2>1. CASE s.going
    <3>1. IsFiniteSet(Bars(str)) /\ Passed(str, s.at) \subseteq Bars(str) /\ IsFiniteSet(Passed(str, s.at))
      BY BarsAreFinite
    <3>2. Cardinality(Bars(str)) \in Nat /\ Cardinality(Passed(str, s.at)) = MaxSymbols - 1
      BY <1>7, <2>1, <3>1, FS_CardinalityType
    <3>3. Cardinality(Passed(str, s.at)) <= Cardinality(Bars(str))
      BY <3>1, FS_Subset
    <3>4. Cardinality(Passed(str, s.at)) = Cardinality(Bars(str))
      BY <1>0, <3>2, <3>3
    <3> QED
      BY <3>1, <3>4, FS_Subset
  <2>2. CASE ~s.going
    BY <1>0, <1>7, <2>2 DEF Passed, Bars
  <2> QED
    BY <2>1, <2>2
<1>9. {PieceOf(str, k) : k \in {0} \cup Passed(str, s.at)} = Pieces(str)
  BY <1>8, PiecesAre, Zenon DEF Heads
<1>10. s.symbols = Scanned(str)
  BY <1>2 DEF s
<1> QED
  BY <1>7, <1>9, <1>10

----------------------------------------------------------------------------
\* What a table of names is.
IsTable(t) ==
  /\ t \in Seq([name : Seq(Char), bits : SUBSET Nat])
  /\ \A i, j \in DOMAIN t : t[i].name = t[j].name => i = j
  /\ \A i \in DOMAIN t :
       Len(t[i].name) \in 1..MaxName /\ t[i].name[1] # Space /\ Bar \notin Range(t[i].name)

LEMMA TablesAre == \A t \in Table : IsTable(t)
  BY TableAssumption DEF IsTable

LEMMA NamesFit ==
  ASSUME NEW t, IsTable(t)
  PROVE  \A p \in NamesOf(t) : Len(p) \in 1..MaxName
  BY Zenon DEF IsTable, NamesOf

\* str2bits with a table: the symbols are the pieces, when these are known.
LEMMA BitsAreRead ==
  ASSUME NEW str \in Seq(Char), NEW t, IsTable(t), NEW known, known = {p \in Pieces(str) : p \in NamesOf(t)}
  PROVE  /\ str2bits(str, t).rtn = -1 => Pieces(str) # known
         /\ Pieces(str) = known /\ Cardinality(Bars(str)) < MaxSymbols =>
              str2bits(str, t) = [rtn |-> 0, bits |-> UNION {BitsNamed(p, t) : p \in known}]
<1> DEFINE symbols == Scanned(str)
           unknown == {i \in DOMAIN symbols : symbols[i] \notin NamesOf(t)}
           heeded  == {i \in DOMAIN symbols : \A u \in unknown : i < u}
<1>1. str2bits(str, t) = [rtn |-> IF unknown = {} THEN 0 ELSE -1,
                          bits |-> UNION {BitsNamed(symbols[i], t) : i \in heeded}]
  BY Zenon DEF str2bits
<1>2. /\ symbols \in Seq(Seq(Char)) /\ DOMAIN symbols = 1..Len(symbols)
      /\ \A i \in 1..Len(symbols) : symbols[i] \in Pieces(str) \/ HasLong(str)
  <2>1. symbols \in Seq(Seq(Char)) /\ \A i \in 1..Len(symbols) : symbols[i] \in Pieces(str) \/ HasLong(str)
    BY ScannedFromPieces
  <2> HIDE DEF symbols
  <2> QED
    BY <2>1
<1> HIDE DEF symbols
<1>3. ASSUME Pieces(str) = known PROVE unknown = {} /\ heeded = DOMAIN symbols /\ Fitting(str)
  <2>1. \A p \in Pieces(str) : p \in NamesOf(t) /\ Len(p) \in 1..MaxName
    BY <1>3, NamesFit, Zenon
  <2>2. ~HasLong(str)
    <3>1. \A n \in 1..MaxName : ~(n > MaxName)
      BY TextAssumption
    <3> QED
      BY <2>1, <3>1, Zenon DEF HasLong
  <2>3. unknown = {}
    BY <1>2, <2>1, <2>2, Zenon
  <2>4. heeded = DOMAIN symbols
    BY <2>3
  <2>5. Fitting(str)
    BY <2>1, PiecesAre, Zenon DEF Fitting
  <2> QED
    BY <2>3, <2>4, <2>5
<1>4. ASSUME str2bits(str, t).rtn = -1 PROVE Pieces(str) # known
  <2>1. unknown # {}
    <3> HIDE DEF unknown, heeded
    <3> QED
      BY <1>1, <1>4
  <2> QED
    BY <1>3, <2>1
<1>5. ASSUME Pieces(str) = known, Cardinality(Bars(str)) < MaxSymbols
      PROVE  str2bits(str, t) = [rtn |-> 0, bits |-> UNION {BitsNamed(p, t) : p \in known}]
  <2>1. {symbols[i] : i \in 1..Len(symbols)} = known
    BY <1>3, <1>5, ScannedAll, Zenon DEF symbols
  <2>2. {BitsNamed(symbols[i], t) : i \in DOMAIN symbols} = {BitsNamed(p, t) : p \in known}
    BY <1>2, <2>1, Zenon
  <2>3. unknown = {} /\ heeded = DOMAIN symbols
    BY <1>3, <1>5
  <2> HIDE DEF unknown, heeded
  <2>4. {BitsNamed(symbols[i], t) : i \in heeded} = {BitsNamed(p, t) : p \in known}
    BY <2>2, <2>3, Zenon
  <2> QED
    BY <1>1, <2>3, <2>4
<1> QED
  BY <1>4, <1>5

\* A name is one piece, and a name behind a bar another one.
Nameable(n) == n \in Seq(Char) /\ Len(n) > 0 /\ n[1] # Space /\ \A i \in 1..Len(n) : n[i] # Bar

LEMMA NameIsPiece ==
  ASSUME NEW n, Nameable(n)
  PROVE  Bars(n) = {} /\ Pieces(n) = {n}
<1>1. n \in Seq(Char) /\ Len(n) \in Nat /\ \A i \in 1..Len(n) : n[i] # Bar
  BY DEF Nameable
<1>2. Bars(n) = {}
  BY <1>1 DEF Bars
<1>3. Len(n) \in 0..Len(n) /\ 0 \in 0..Len(n) /\ \A i \in (0 + 1)..Len(n) : n[i] # Bar
  BY <1>1
<1>4. PieceEnds(n, 0, Len(n))
  BY <1>3, Zenon DEF PieceEnds
<1>5. End(n, 0) = Len(n)
  BY <1>1, <1>3, <1>4, EndOnly
<1>6. PieceOf(n, 0) = n
  <2>1. PieceOf(n, 0) = SubSeq(n, 0 + 1, Len(n))
    BY <1>5, Zenon DEF PieceOf, Begin
  <2>2. SubSeq(n, 1, Len(n)) = n
    BY <1>1, SubSeqFull
  <2>3. 0 + 1 = 1
    OBVIOUS
  <2> QED
    BY <2>1, <2>2, <2>3
<1>7. Heads(n) = {0}
  BY <1>2 DEF Heads
<1>8. Pieces(n) = {PieceOf(n, 0)}
  BY <1>7, PiecesAre
<1> QED
  BY <1>2, <1>6, <1>8

LEMMA SameParts ==
  ASSUME NEW s, NEW t, NEW b \in Nat, NEW e \in Nat,
         \A i \in (b + 1)..e : t[i] \in Char, \A i \in (b + 1)..e : s[i] = t[i]
  PROVE  SubSeq(s, b + 1, e) = SubSeq(t, b + 1, e)
<1> DEFINE x == SubSeq(s, b + 1, e)
           y == SubSeq(t, b + 1, e)
           n == IF b + 1 <= e THEN e - (b + 1) + 1 ELSE 0
<1>1. b + 1 \in Int /\ e \in Int /\ \A i \in (b + 1)..e : s[i] \in Char
  OBVIOUS
<1>2. /\ x \in Seq(Char) /\ Len(x) = n
      /\ \A i \in 1..(e - (b + 1) + 1) : x[i] = s[(b + 1) + i - 1]
  BY <1>1, SubSeqProperties
<1>3. /\ y \in Seq(Char) /\ Len(y) = n
      /\ \A i \in 1..(e - (b + 1) + 1) : y[i] = t[(b + 1) + i - 1]
  BY <1>1, SubSeqProperties
<1>4. \A i \in 1..n : i \in 1..(e - (b + 1) + 1) /\ (b + 1) + i - 1 \in (b + 1)..e
  OBVIOUS
<1> HIDE DEF x, y, n
<1>5. \A i \in 1..Len(x) : x[i] = y[i]
  BY <1>2, <1>3, <1>4, Zenon
<1>6. x = y
  BY <1>2, <1>3, <1>5, SeqEqual
<1> QED
  BY <1>6 DEF x, y

LEMMA PiecesGrow ==
  ASSUME NEW t \in Seq(Char), NEW n, Nameable(n), NEW u, u = t \o (<<Bar>> \o n), Bar \in Char
  PROVE  /\ u \in Seq(Char) /\ Bars(u) = Bars(t) \cup {Len(t) + 1} /\ Len(t) + 1 \notin Bars(t)
         /\ Pieces(u) = Pieces(t) \cup {n}
<1> DEFINE m == Len(t)
           l == Len(n)
           h == m + 1
<1>1. n \in Seq(Char) /\ l \in Nat /\ l > 0 /\ m \in Nat /\ n[1] # Space /\ \A i \in 1..l : n[i] # Bar
  BY DEF Nameable
<1>2. /\ u \in Seq(Char) /\ Len(u) = h + l /\ u[h] = Bar
      /\ (\A i \in 1..m : u[i] = t[i]) /\ (\A i \in 1..l : u[h + i] = n[i])
  <2> DEFINE c == <<Bar>> \o n
  <2>1. <<Bar>> \in Seq(Char) /\ Len(<<Bar>>) = 1 /\ <<Bar>>[1] = Bar /\ 1 \in 1..1
    OBVIOUS
  <2>2. /\ c \in Seq(Char) /\ Len(c) = 1 + l /\ c[1] = Bar /\ \A i \in 1..l : c[1 + i] = n[i]
    BY <1>1, <2>1, ConcatProperties
  <2> HIDE DEF c
  <2>3. /\ u \in Seq(Char) /\ Len(u) = m + (1 + l)
        /\ \A i \in 1..(m + (1 + l)) : u[i] = IF i <= m THEN t[i] ELSE c[i - m]
    BY <2>2, ConcatProperties DEF c
  <2>4. h \in 1..(m + (1 + l)) /\ ~(h <= m) /\ h - m = 1 /\ m + (1 + l) = h + l
    BY <1>1
  <2>5. \A i \in 1..m : i \in 1..(m + (1 + l)) /\ i <= m
    BY <1>1
  <2>6. \A i \in 1..l : h + i \in 1..(m + (1 + l)) /\ ~(h + i <= m) /\ (h + i) - m = 1 + i
    BY <1>1
  <2> QED
    BY <2>2, <2>3, <2>4, <2>5, <2>6
<1> HIDE DEF l
<1>3. Bars(u) = Bars(t) \cup {h} /\ h \notin Bars(t)
  <2>1. \A b \in Bars(u) : b \in 1..(h + l) /\ u[b] = Bar
    BY <1>2 DEF Bars
  <2>2. \A b \in Bars(t) : b \in 1..m /\ t[b] = Bar
    BY <1>1 DEF Bars
  <2>3. ASSUME NEW b \in Bars(u), b # h PROVE b \in Bars(t)
    <3>1. b \in 1..m \/ b - h \in 1..l
      BY <1>1, <2>1, <2>3
    <3>2. CASE b - h \in 1..l
      <4>1. h + (b - h) = b
        BY <1>1, <2>1
      <4>2. u[h + (b - h)] = n[b - h] /\ n[b - h] # Bar
        BY <1>1, <1>2, <3>2, Zenon
      <4>3. u[b] # Bar
        BY <4>1, <4>2
      <4> QED
        BY <2>1, <4>3
    <3>3. CASE b \in 1..m
      BY <1>2, <2>1, <3>3 DEF Bars
    <3> QED
      BY <3>1, <3>2, <3>3
  <2>4. ASSUME NEW b \in Bars(t) PROVE b \in Bars(u)
    <3>1. b \in 1..Len(u) /\ u[b] = Bar
      BY <1>1, <1>2, <2>2
    <3> QED
      BY <1>2, <3>1 DEF Bars
  <2>5. h \in Bars(u)
    BY <1>1, <1>2 DEF Bars
  <2> QED
    BY <1>1, <2>2, <2>3, <2>4, <2>5, SMTT(20)
<1>4. ASSUME NEW k \in Heads(t) PROVE PieceOf(u, k) = PieceOf(t, k)
  <2> DEFINE b == Begin(t, k)
             e == End(t, k)
  <2>1. k \in 0..m /\ b \in k..m /\ e \in b..m /\ (\A i \in (k + 1)..e : t[i] # Bar) /\ (e = m \/ t[e + 1] = Bar)
    BY PieceIs
  <2>2. k = 0 => b = 0
    BY DEF Begin
  <2>3. k # 0 => b = SkipSpace(t, k)
    BY DEF Begin
  <2>4. k \in 0..Len(u)
    BY <1>1, <1>2, <2>1
  <2>5. Begin(u, k) = b
    <3>1. CASE k = 0
      BY <2>2, <3>1 DEF Begin
    <3>2. CASE k # 0
      <4>1. SpacesEnd(t, k, b)
        BY <2>1, <2>3, <3>2, SpacesAre
      <4>2. (\A i \in (k + 1)..b : t[i] = Space) /\ (b = m \/ t[b + 1] # Space)
        BY <4>1 DEF SpacesEnd
      <4> HIDE DEF b, e
      <4>3. b \in k..Len(u) /\ \A i \in (k + 1)..b : u[i] = Space
        BY <1>1, <1>2, <2>1, <4>2
      <4>4. u[b + 1] # Space
        <5>1. CASE b = m
          BY <1>2, <5>1, TextAssumption
        <5>2. CASE b # m
          <6>1. b + 1 \in 1..m
            BY <1>1, <2>1, <5>2
          <6> QED
            BY <1>2, <4>2, <5>2, <6>1
        <5> QED
          BY <5>1, <5>2
      <4>5. SpacesEnd(u, k, b)
        BY <4>3, <4>4, Zenon DEF SpacesEnd
      <4>6. SkipSpace(u, k) = b
        BY <1>2, <2>4, <4>5, SpacesOnly
      <4> QED
        BY <3>2, <4>6 DEF Begin
    <3> QED
      BY <3>1, <3>2
  <2> HIDE DEF b, e
  <2>6. End(u, k) = e
    <3>1. e \in k..Len(u) /\ \A i \in (k + 1)..e : u[i] # Bar
      BY <1>1, <1>2, <2>1
    <3>2. u[e + 1] = Bar
      <4>1. CASE e = m
        BY <1>2, <4>1
      <4>2. CASE e # m
        <5>1. e + 1 \in 1..m
          BY <1>1, <2>1, <4>2
        <5> QED
          BY <1>2, <2>1, <4>2, <5>1
      <4> QED
        BY <4>1, <4>2
    <3>3. PieceEnds(u, k, e)
      BY <3>1, <3>2, Zenon DEF PieceEnds
    <3> QED
      BY <1>2, <2>4, <3>3, EndOnly
  <2>7. PieceOf(u, k) = SubSeq(u, b + 1, e) /\ PieceOf(t, k) = SubSeq(t, b + 1, e)
    BY <2>5, <2>6, Zenon DEF PieceOf, b, e
  <2>8. SubSeq(u, b + 1, e) = SubSeq(t, b + 1, e)
    <3>1. \A i \in (b + 1)..e : u[i] = t[i]
      BY <1>1, <1>2, <2>1
    <3>2. b \in Nat /\ e \in Nat /\ \A i \in (b + 1)..e : t[i] \in Char
      BY <1>1, <2>1
    <3> QED
      BY <3>1, <3>2, SameParts
  <2> QED
    BY <2>7, <2>8
<1>5. PieceOf(u, h) = n
  <2>1. h \in 0..Len(u) /\ h # 0
    BY <1>1, <1>2
  <2>2. 1 \in 1..l /\ h \in h..Len(u) /\ ((h + 1)..h) = {}
    BY <1>1, <1>2
  <2>3. u[h + 1] # Space
    BY <1>1, <1>2, <2>2
  <2>4. SpacesEnd(u, h, h)
    BY <2>2, <2>3 DEF SpacesEnd
  <2>5. SkipSpace(u, h) = h
    BY <1>2, <2>1, <2>4, SpacesOnly
  <2>6. ASSUME NEW i \in (h + 1)..Len(u) PROVE u[i] # Bar
    <3>1. i - h \in 1..l /\ h + (i - h) = i
      BY <1>1, <1>2, <2>6
    <3> QED
      BY <1>1, <1>2, <3>1
  <2>7. Len(u) \in h..Len(u)
    BY <1>1, <1>2
  <2>8. PieceEnds(u, h, Len(u))
    BY <2>6, <2>7, Zenon DEF PieceEnds
  <2>9. End(u, h) = Len(u)
    BY <1>2, <2>1, <2>8, EndOnly
  <2>10. PieceOf(u, h) = SubSeq(u, h + 1, Len(u))
    BY <2>1, <2>5, <2>9, Zenon DEF PieceOf, Begin
  <2> DEFINE r == Rest(u, h)
  <2>11. r \in Seq(Char) /\ Len(r) = l /\ \A i \in 1..l : r[i] = u[h + i]
    <3>1. Len(u) - h = l
      BY <1>1, <1>2
    <3> QED
      BY <1>2, <2>1, <3>1, RestIs
  <2> HIDE DEF r
  <2>12. r = n
    <3>1. Len(n) = l /\ n \in Seq(Char)
      BY <1>1 DEF l
    <3>2. \A i \in 1..Len(r) : r[i] = n[i]
      BY <1>2, <2>11
    <3> QED
      BY <2>11, <3>1, <3>2, SeqEqual
  <2> QED
    BY <2>10, <2>12, Zenon DEF r, Rest
<1>6. Heads(u) = Heads(t) \cup {h}
  BY <1>3 DEF Heads
<1> HIDE DEF h
<1>7. {PieceOf(u, k) : k \in Heads(u)} = {PieceOf(t, k) : k \in Heads(t)} \cup {n}
  <2>1. {PieceOf(u, k) : k \in Heads(t)} = {PieceOf(t, k) : k \in Heads(t)}
    BY <1>4
  <2>2. {PieceOf(u, k) : k \in Heads(t) \cup {h}} = {PieceOf(u, k) : k \in Heads(t)} \cup {PieceOf(u, h)}
    OBVIOUS
  <2> QED
    BY <1>5, <1>6, <2>1, <2>2
<1>8. Pieces(u) = Pieces(t) \cup {n}
  BY <1>7, PiecesAre, Zenon
<1> QED
  BY <1>2, <1>3, <1>8 DEF h

----------------------------------------------------------------------------
(* The names of the bits that are set *)

ShownTo(bits, t, k) == {i \in Shown(bits, t) : i <= k}
RowText(bits, t, i) == IF i \in Shown(bits, t) THEN Mark(bits, t, i) \o t[i].name ELSE <<>>

\* text names the rows up to k that are shown.
Names(bits, t, k, text) ==
  /\ text \in Seq(Char)
  /\ ShownTo(bits, t, k) = {} => text = <<>>
  /\ ShownTo(bits, t, k) # {} =>
       /\ Pieces(text) = {t[i].name : i \in ShownTo(bits, t, k)}
       /\ Cardinality(Bars(text)) = Cardinality(ShownTo(bits, t, k)) - 1

LEMMA RowsAre ==
  ASSUME NEW t, IsTable(t)
  PROVE  /\ Len(t) \in Nat /\ DOMAIN t = 1..Len(t)
         /\ \A i \in 1..Len(t) : Nameable(t[i].name)
<1>1. Len(t) \in Nat /\ DOMAIN t = 1..Len(t) /\ \A i \in 1..Len(t) : t[i] \in [name : Seq(Char), bits : SUBSET Nat]
  <2> DEFINE R == [name : Seq(Char), bits : SUBSET Nat]
  <2>1. t \in Seq(R)
    BY Zenon DEF IsTable
  <2> HIDE DEF R
  <2>2. Len(t) \in Nat /\ DOMAIN t = 1..Len(t) /\ \A i \in 1..Len(t) : t[i] \in R
    BY <2>1
  <2> QED
    BY <2>2 DEF R
<1>2. ASSUME NEW i \in 1..Len(t) PROVE Nameable(t[i].name)
  <2> DEFINE n == t[i].name
  <2>1. n \in Seq(Char)
    BY <1>1
  <2>2. Len(n) \in 1..MaxName /\ n[1] # Space /\ Bar \notin Range(n)
    BY <1>1, Zenon DEF IsTable
  <2> HIDE DEF n
  <2>3. Len(n) > 0 /\ \A j \in 1..Len(n) : j \in DOMAIN n
    BY <2>1, <2>2, TextAssumption
  <2>4. \A j \in 1..Len(n) : n[j] # Bar
    BY <2>2, <2>3, Zenon DEF Range
  <2> QED
    BY <2>1, <2>2, <2>3, <2>4 DEF Nameable, n
<1> QED
  BY <1>1, <1>2

LEMMA ShownIs ==
  ASSUME NEW t, IsTable(t), NEW bits
  PROVE  /\ Shown(bits, t) \subseteq 1..Len(t) /\ IsFiniteSet(Shown(bits, t))
         /\ \A k : IsFiniteSet(ShownTo(bits, t, k)) /\ ShownTo(bits, t, k) \subseteq Shown(bits, t)
<1>1. Len(t) \in Nat /\ DOMAIN t = 1..Len(t)
  BY RowsAre
<1>2. Shown(bits, t) \subseteq 1..Len(t) /\ IsFiniteSet(1..Len(t))
  BY <1>1, FS_Interval DEF Shown
<1>3. IsFiniteSet(Shown(bits, t))
  BY <1>2, FS_Subset
<1>4. ASSUME NEW k PROVE IsFiniteSet(ShownTo(bits, t, k)) /\ ShownTo(bits, t, k) \subseteq Shown(bits, t)
  <2>1. ShownTo(bits, t, k) \subseteq Shown(bits, t)
    BY DEF ShownTo
  <2> QED
    BY <1>3, <2>1, FS_Subset
<1> QED
  BY <1>2, <1>3, <1>4

LEMMA NextRow ==
  ASSUME Bar \in Char, NEW t, IsTable(t), NEW bits, NEW i \in 1..Len(t), NEW text, Names(bits, t, i - 1, text)
  PROVE  Names(bits, t, i, text \o RowText(bits, t, i)) /\ RowText(bits, t, i) \in Seq(Char)
<1> DEFINE before == ShownTo(bits, t, i - 1)
           upto   == ShownTo(bits, t, i)
           n      == t[i].name
           row    == RowText(bits, t, i)
<1>0. Len(t) \in Nat /\ Shown(bits, t) \subseteq 1..Len(t) /\ Nameable(n) /\ text \in Seq(Char)
  BY RowsAre, ShownIs DEF Names
<1>1. IsFiniteSet(before) /\ IsFiniteSet(upto)
  BY ShownIs
<1>2. before = {} => text = <<>>
  BY DEF Names
<1>3. before # {} => Pieces(text) = {t[j].name : j \in before} /\ Cardinality(Bars(text)) = Cardinality(before) - 1
  BY DEF Names
<1>4. i \notin before /\ upto = IF i \in Shown(bits, t) THEN before \cup {i} ELSE before
  BY <1>0 DEF ShownTo
<1>5. n \in Seq(Char)
  BY <1>0 DEF Nameable
<1>6. CASE i \notin Shown(bits, t)
  <2>1. row = <<>> /\ upto = before
    BY <1>4, <1>6 DEF RowText
  <2>2. text \o <<>> = text /\ <<>> \in Seq(Char)
    BY <1>0, ConcatEmptySeq
  <2> QED
    BY <2>1, <2>2 DEF Names
<1>7. CASE i \in Shown(bits, t) /\ before = {}
  <2>1. Mark(bits, t, i) = <<>>
    <3>1. \A j \in Shown(bits, t) : ~(j < i)
      BY <1>0, <1>7 DEF ShownTo
    <3> QED
      BY <3>1 DEF Mark
  <2>2. row = n
    <3>1. <<>> \o n = n
      BY <1>5, ConcatEmptySeq
    <3> QED
      BY <1>7, <2>1, <3>1 DEF RowText
  <2>3. text \o row = n
    BY <1>2, <1>5, <1>7, <2>2, ConcatEmptySeq
  <2>4. Bars(n) = {} /\ Pieces(n) = {n}
    BY <1>0, NameIsPiece
  <2>5. upto = {i}
    BY <1>4, <1>7
  <2> HIDE DEF upto, row
  <2>6. Cardinality(Bars(n)) = Cardinality(upto) - 1
    <3>1. Cardinality({i}) = 1 /\ Cardinality({}) = 0
      BY FS_EmptySet, FS_Singleton, Zenon
    <3>2. Cardinality(upto) = 1 /\ Cardinality(Bars(n)) = 0
      BY <2>4, <2>5, <3>1, Zenon
    <3> QED
      BY <3>2
  <2>7. Pieces(n) = {t[j].name : j \in upto} /\ upto # {}
    BY <2>4, <2>5
  <2>8. Names(bits, t, i, n)
    BY <1>5, <2>6, <2>7 DEF Names, upto
  <2> QED
    BY <1>5, <2>2, <2>3, <2>8 DEF row
<1>8. CASE i \in Shown(bits, t) /\ before # {}
  <2>1. Mark(bits, t, i) = <<Bar>>
    <3>1. \E j \in Shown(bits, t) : j < i
      BY <1>0, <1>8 DEF ShownTo
    <3> QED
      BY <3>1 DEF Mark
  <2>2. row = <<Bar>> \o n
    BY <1>8, <2>1 DEF RowText
  <2> DEFINE u == text \o row
  <2>3. u = text \o (<<Bar>> \o n)
    BY <2>2
  <2> HIDE DEF u, n
  <2>4. /\ u \in Seq(Char) /\ Bars(u) = Bars(text) \cup {Len(text) + 1} /\ Len(text) + 1 \notin Bars(text)
        /\ Pieces(u) = Pieces(text) \cup {n}
    BY <1>0, <2>3, PiecesGrow
  <2>5. upto = before \cup {i} /\ upto # {}
    BY <1>4, <1>8
  <2> HIDE DEF before, upto
  <2>6. Pieces(u) = {t[j].name : j \in upto}
    BY <1>3, <1>8, <2>4, <2>5 DEF n
  <2>7. Cardinality(Bars(u)) = Cardinality(upto) - 1
    <3>1. IsFiniteSet(Bars(text))
      BY <1>0, BarsAreFinite
    <3>2. Cardinality(Bars(u)) = Cardinality(Bars(text)) + 1
      BY <2>4, <3>1, FS_AddElement
    <3>3. Cardinality(upto) = Cardinality(before) + 1
      BY <1>1, <1>4, <2>5, FS_AddElement
    <3>4. Cardinality(before) \in Nat
      BY <1>1, FS_CardinalityType
    <3> QED
      BY <1>3, <1>8, <3>2, <3>3, <3>4
  <2>8. Names(bits, t, i, u)
    BY <2>4, <2>5, <2>6, <2>7, Zenon DEF Names, upto
  <2>9. <<Bar>> \o n \in Seq(Char)
    <3>1. <<Bar>> \in Seq(Char)
      OBVIOUS
    <3> QED
      BY <1>5, <3>1, ConcatProperties DEF n
  <2> QED
    BY <2>2, <2>8, <2>9 DEF u, n
<1> QED
  BY <1>6, <1>7, <1>8

LEMMA BitsAreNamed ==
  ASSUME Bar \in Char, NEW t, IsTable(t), NEW bits
  PROVE  Names(bits, t, Len(t), bits2str(bits, t))
<1> DEFINE N == Len(t)
           ss == [i \in 1..N |-> RowText(bits, t, i)]
           S == {k \in 1..(N + 1) : Names(bits, t, k - 1, Upto(ss, k - 1))}
<1>0. N \in Nat /\ DOMAIN t = 1..N
  BY RowsAre
<1>a. Names(bits, t, 0, <<>>)
  <2>1. ShownTo(bits, t, 0) = {}
    BY <1>0, ShownIs DEF ShownTo
  <2> QED
    BY <2>1 DEF Names
<1>b. \A i \in 1..N : RowText(bits, t, i) \in Seq(Char)
  <2>1. ASSUME NEW i \in 1..N PROVE RowText(bits, t, i) \in Seq(Char)
    <3> DEFINE n == t[i].name
    <3>1. n \in Seq(Char)
      BY RowsAre DEF Nameable
    <3>2. <<>> \in Seq(Char) /\ <<Bar>> \in Seq(Char)
      OBVIOUS
    <3>3. Mark(bits, t, i) \in Seq(Char)
      BY <3>2 DEF Mark
    <3> HIDE DEF n
    <3>4. Mark(bits, t, i) \o n \in Seq(Char)
      BY <3>1, <3>3, ConcatProperties
    <3> QED
      BY <3>2, <3>4 DEF RowText, n
  <2> QED
    BY <2>1
<1>1. ss \in Seq(Seq(Char)) /\ Len(ss) = N /\ \A i \in 1..N : ss[i] = RowText(bits, t, i)
  BY <1>0, <1>b
<1>2. \A x : FlattenSeq(x) = Seqs!FlattenSeq(x)
  BY DEF FlattenSeq, Seqs!FlattenSeq
<1>3. bits2str(bits, t) = Seqs!FlattenSeq(ss)
  BY <1>0, <1>2, Zenon DEF bits2str, RowText
<1> HIDE DEF ss, N
<1>4. /\ Upto(ss, 0) = <<>> /\ Upto(ss, N) = Seqs!FlattenSeq(ss)
      /\ \A k \in 0..(N - 1) : Upto(ss, k + 1) = Upto(ss, k) \o ss[k + 1]
  BY <1>1, UptoGrows
<1>5. 1 \in S
  BY <1>0, <1>a, <1>4
<1>6. ASSUME NEW k \in 1..N, k \in S PROVE k + 1 \in S
  <2>1. k + 1 \in 1..(N + 1) /\ (k + 1) - 1 = k /\ k - 1 \in 0..(N - 1) /\ (k - 1) + 1 = k
    BY <1>0
  <2>2. Names(bits, t, k - 1, Upto(ss, k - 1))
    BY <1>6
  <2>3. Upto(ss, k) = Upto(ss, k - 1) \o RowText(bits, t, k)
    BY <1>1, <1>4, <2>1
  <2>4. Names(bits, t, k, Upto(ss, k))
    BY <2>2, <2>3, NextRow DEF N
  <2> QED
    BY <2>1, <2>4
<1>7. N + 1 \in S
  <2> DEFINE K == N + 1
  <2>1. K \in Nat /\ K >= 1 /\ K - 1 = N
    BY <1>0
  <2> HIDE DEF S, K
  <2>2. \A k \in 1..(K - 1) : k \in S => k + 1 \in S
    BY <1>6, <2>1
  <2>3. K \in S
    BY <1>5, <2>1, <2>2, OneByOneOn
  <2> QED
    BY <2>3 DEF K
<1>8. (N + 1) - 1 = N
  BY <1>0
<1>9. Names(bits, t, N, Upto(ss, N))
  BY <1>7, <1>8
<1> QED
  BY <1>3, <1>4, <1>9 DEF N

\* Without bits there is no text, and no symbol.
LEMMA NothingScanned ==
  ASSUME NEW t
  PROVE  str2bits(<<>>, t) = [rtn |-> 0, bits |-> {}]
<1> DEFINE symbols == Scanned(<<>>)
<1>1. <<>> \in Seq(Char) /\ Len(<<>>) = 0
  OBVIOUS
<1>2. symbols \in Seq(Seq(Char)) /\ (Len(symbols) > 0 => Len(<<>>) > 0)
  BY <1>1, ScannedFromPieces
<1> HIDE DEF symbols
<1>3. DOMAIN symbols = {}
  BY <1>1, <1>2
<1>4. {i \in DOMAIN symbols : symbols[i] \notin NamesOf(t)} = {}
  BY <1>3
<1>5. {BitsNamed(symbols[i], t) : i \in {j \in DOMAIN symbols :
         \A u \in {i \in DOMAIN symbols : symbols[i] \notin NamesOf(t)} : j < u}} = {}
  BY <1>3
<1>6. UNION {} = {}
  OBVIOUS
<1> QED
  BY <1>4, <1>5, <1>6, Zenon DEF str2bits, symbols

\* The bits of a name are those of its row.
LEMMA BitsOfName ==
  ASSUME NEW t, IsTable(t), NEW i \in 1..Len(t)
  PROVE  BitsNamed(t[i].name, t) = t[i].bits
<1> DEFINE S == {j \in DOMAIN t : t[j].name = t[i].name}
<1>1. Len(t) \in Nat /\ DOMAIN t = 1..Len(t)
  BY RowsAre
<1>2. S = {i}
  BY <1>1, Zenon DEF IsTable
<1>3. S \in SUBSET Nat /\ i \in S /\ \A j \in S : i <= j
  BY <1>1, <1>2
<1> HIDE DEF S
<1>4. Min(S) = i
  BY <1>3, LeastIs
<1> QED
  BY <1>4, Zenon DEF BitsNamed, S

LEMMA NamesReadBack ==
  ASSUME Bar \in Char, NEW t, IsTable(t), NEW bits, Cardinality(Shown(bits, t)) <= MaxSymbols
  PROVE  str2bits(bits2str(bits, t), t) = [rtn |-> 0, bits |-> UNION {t[i].bits : i \in Shown(bits, t)}]
<1> DEFINE text == bits2str(bits, t)
           shown == Shown(bits, t)
<1>1. Len(t) \in Nat /\ shown \subseteq 1..Len(t) /\ IsFiniteSet(shown)
  BY RowsAre, ShownIs
<1>2. ShownTo(bits, t, Len(t)) = shown
  BY <1>1 DEF ShownTo
<1>3. Names(bits, t, Len(t), text)
  BY BitsAreNamed
<1> HIDE DEF text
<1>4. /\ text \in Seq(Char) /\ (shown = {} => text = <<>>)
      /\ shown # {} => Pieces(text) = {t[i].name : i \in shown} /\ Cardinality(Bars(text)) = Cardinality(shown) - 1
  BY <1>2, <1>3, Zenon DEF Names
<1> HIDE DEF shown
<1>5. CASE shown = {}
  <2>1. UNION {t[i].bits : i \in shown} = {}
    BY <1>5
  <2>2. str2bits(text, t) = [rtn |-> 0, bits |-> {}]
    BY <1>4, <1>5, NothingScanned
  <2> QED
    BY <2>1, <2>2 DEF text, shown
<1>6. CASE shown # {}
  <2> DEFINE known == {p \in Pieces(text) : p \in NamesOf(t)}
  <2>1. Pieces(text) = {t[i].name : i \in shown} /\ Cardinality(Bars(text)) = Cardinality(shown) - 1
    BY <1>4, <1>6
  <2>2. Cardinality(Bars(text)) < MaxSymbols
    <3>1. Cardinality(shown) \in Nat /\ MaxSymbols \in Nat /\ Cardinality(shown) <= MaxSymbols
      BY <1>1, FS_CardinalityType, TextAssumption DEF shown
    <3> QED
      BY <2>1, <3>1
  <2>3. \A i \in shown : t[i].name \in NamesOf(t)
    BY <1>1, RowsAre DEF NamesOf
  <2>4. Pieces(text) = known
    BY <2>1, <2>3
  <2> HIDE DEF known
  <2>5. str2bits(text, t) = [rtn |-> 0, bits |-> UNION {BitsNamed(p, t) : p \in known}]
    BY <1>4, <2>2, <2>4, BitsAreRead DEF known
  <2>6. \A i \in shown : BitsNamed(t[i].name, t) = t[i].bits
    BY <1>1, BitsOfName
  <2>7. {BitsNamed(p, t) : p \in known} = {t[i].bits : i \in shown}
    BY <2>1, <2>4, <2>6
  <2> QED
    BY <2>5, <2>7 DEF text, shown
<1> QED
  BY <1>5, <1>6

----------------------------------------------------------------------------
(* Hexadecimal digits *)

Digits(b) == <<b \div 16, b % 16>>

\* text has the digits of the first k bytes.
Shows(bytes, k, text) ==
  /\ text \in Seq(Nat) /\ Len(text) = 2 * k
  /\ \A i \in 1..k : text[2 * i - 1] = bytes[i] \div 16 /\ text[2 * i] = bytes[i] % 16

LEMMA DigitsAre ==
  ASSUME NEW b \in Nat
  PROVE  /\ Digits(b) \in Seq(Nat) /\ Len(Digits(b)) = 2 /\ Digits(b)[1] = b \div 16 /\ Digits(b)[2] = b % 16
         /\ 16 * (b \div 16) + (b % 16) = b
<1>1. b \div 16 \in Nat /\ b % 16 \in Nat /\ 16 * (b \div 16) + (b % 16) = b
  OBVIOUS
<1> DEFINE q == b \div 16
           r == b % 16
<1> HIDE DEF q, r
<1>2. q \in Nat /\ r \in Nat
  BY <1>1 DEF q, r
<1>3. <<q, r>> \in Seq(Nat) /\ Len(<<q, r>>) = 2 /\ <<q, r>>[1] = q /\ <<q, r>>[2] = r
  BY <1>2
<1> QED
  BY <1>1, <1>3 DEF Digits, q, r

LEMMA MoreDigits ==
  ASSUME NEW bytes \in Seq(Nat), NEW k \in 0..(Len(bytes) - 1), NEW text, Shows(bytes, k, text)
  PROVE  Shows(bytes, k + 1, text \o Digits(bytes[k + 1]))
<1> DEFINE d == Digits(bytes[k + 1])
           u == text \o d
           q == bytes[k + 1] \div 16
           r == bytes[k + 1] % 16
<1>1. k \in Nat /\ k + 1 \in 1..Len(bytes) /\ bytes[k + 1] \in Nat
  OBVIOUS
<1>2. d \in Seq(Nat) /\ Len(d) = 2 /\ d[1] = q /\ d[2] = r
  BY <1>1, DigitsAre
<1>3. /\ text \in Seq(Nat) /\ Len(text) = 2 * k
      /\ \A i \in 1..k : text[2 * i - 1] = bytes[i] \div 16 /\ text[2 * i] = bytes[i] % 16
  BY DEF Shows
<1> HIDE DEF d, q, r
<1>4. /\ u \in Seq(Nat) /\ Len(u) = 2 * k + 2
      /\ \A i \in 1..(2 * k + 2) : u[i] = IF i <= 2 * k THEN text[i] ELSE d[i - 2 * k]
  <2> DEFINE n == Len(text)
             m == Len(d)
  <2>1. u \in Seq(Nat) /\ Len(u) = n + m /\ \A i \in 1..(n + m) : u[i] = IF i <= n THEN text[i] ELSE d[i - n]
    BY <1>2, <1>3, ConcatProperties, Zenon
  <2>2. n = 2 * k /\ m = 2
    BY <1>2, <1>3
  <2> HIDE DEF n, m, u
  <2> QED
    BY <2>1, <2>2
<1> HIDE DEF u
<1>5. u[2 * (k + 1) - 1] = q /\ u[2 * (k + 1)] = r /\ Len(u) = 2 * (k + 1)
  <2>1. 2 * (k + 1) - 1 = 2 * k + 1 /\ 2 * (k + 1) = 2 * k + 2
    BY <1>1
  <2>2. 2 * k + 1 \in 1..(2 * k + 2) /\ ~(2 * k + 1 <= 2 * k) /\ (2 * k + 1) - 2 * k = 1
    BY <1>1
  <2>3. 2 * k + 2 \in 1..(2 * k + 2) /\ ~(2 * k + 2 <= 2 * k) /\ (2 * k + 2) - 2 * k = 2
    BY <1>1
  <2> QED
    BY <1>2, <1>4, <2>1, <2>2, <2>3
<1>6. ASSUME NEW i \in 1..k PROVE u[2 * i - 1] = text[2 * i - 1] /\ u[2 * i] = text[2 * i]
  <2>1. 2 * i - 1 \in 1..(2 * k + 2) /\ 2 * i - 1 <= 2 * k /\ 2 * i \in 1..(2 * k + 2) /\ 2 * i <= 2 * k
    BY <1>1
  <2> QED
    BY <1>4, <2>1
<1>7. ASSUME NEW i \in 1..(k + 1) PROVE u[2 * i - 1] = bytes[i] \div 16 /\ u[2 * i] = bytes[i] % 16
  <2>1. CASE i = k + 1
    BY <1>5, <2>1, Zenon DEF q, r
  <2>2. CASE i # k + 1
    <3>1. i \in 1..k
      BY <1>1, <2>2
    <3> QED
      BY <1>3, <1>6, <3>1, Zenon
  <2> QED
    BY <2>1, <2>2
<1> QED
  BY <1>4, <1>5, <1>7, Zenon DEF Shows, u, d

LEMMA AllDigits ==
  ASSUME NEW bytes \in Seq(Nat)
  PROVE  Shows(bytes, Len(bytes), FlattenSeq([i \in DOMAIN bytes |-> <<bytes[i] \div 16, bytes[i] % 16>>]))
<1> DEFINE N == Len(bytes)
           ss == [i \in 1..N |-> Digits(bytes[i])]
           S == {k \in 1..(N + 1) : Shows(bytes, k - 1, Upto(ss, k - 1))}
<1>0. N \in Nat /\ DOMAIN bytes = 1..N /\ \A i \in 1..N : bytes[i] \in Nat
  OBVIOUS
<1>1. ss \in Seq(Seq(Nat)) /\ Len(ss) = N /\ \A i \in 1..N : ss[i] = Digits(bytes[i])
  BY <1>0, DigitsAre
<1>2. \A x : FlattenSeq(x) = Seqs!FlattenSeq(x)
  BY DEF FlattenSeq, Seqs!FlattenSeq
<1>3. FlattenSeq([i \in DOMAIN bytes |-> <<bytes[i] \div 16, bytes[i] % 16>>]) = Seqs!FlattenSeq(ss)
  BY <1>0, <1>2, Zenon DEF Digits
<1> HIDE DEF ss, N
<1>4. /\ Upto(ss, 0) = <<>> /\ Upto(ss, N) = Seqs!FlattenSeq(ss)
      /\ \A k \in 0..(N - 1) : Upto(ss, k + 1) = Upto(ss, k) \o ss[k + 1]
  BY <1>1, UptoGrows
<1>5. 1 \in S
  <2>1. <<>> \in Seq(Nat) /\ Len(<<>>) = 2 * 0 /\ 1..0 = {} /\ 1 - 1 = 0
    OBVIOUS
  <2>2. Shows(bytes, 0, <<>>)
    BY <2>1 DEF Shows
  <2> QED
    BY <1>0, <1>4, <2>1, <2>2
<1>6. ASSUME NEW k \in 1..N, k \in S PROVE k + 1 \in S
  <2>1. k + 1 \in 1..(N + 1) /\ (k + 1) - 1 = k /\ k - 1 \in 0..(N - 1) /\ (k - 1) + 1 = k
    BY <1>0
  <2>2. Shows(bytes, k - 1, Upto(ss, k - 1))
    BY <1>6
  <2>3. Upto(ss, k) = Upto(ss, k - 1) \o Digits(bytes[k])
    BY <1>1, <1>4, <2>1
  <2>4. Shows(bytes, (k - 1) + 1, Upto(ss, k - 1) \o Digits(bytes[(k - 1) + 1]))
    BY <2>1, <2>2, MoreDigits DEF N
  <2>5. Shows(bytes, k, Upto(ss, k))
    BY <2>1, <2>3, <2>4
  <2> QED
    BY <2>1, <2>5
<1>7. N + 1 \in S
  <2> DEFINE K == N + 1
  <2>1. K \in Nat /\ K >= 1 /\ K - 1 = N
    BY <1>0
  <2> HIDE DEF S, K
  <2>2. \A k \in 1..(K - 1) : k \in S => k + 1 \in S
    BY <1>6, <2>1
  <2>3. K \in S
    BY <1>5, <2>1, <2>2, OneByOneOn
  <2> QED
    BY <2>3 DEF K
<1>8. (N + 1) - 1 = N
  BY <1>0
<1>9. Shows(bytes, N, Upto(ss, N))
  BY <1>7, <1>8
<1> QED
  BY <1>3, <1>4, <1>9 DEF N

LEMMA SmallIs == \A x \in Nat : \A m \in Nat : x < m => x % m = x
  OBVIOUS

LEMMA DigitsReadBack ==
  ASSUME NEW bytes \in Seq(Nat), 2 * Len(bytes) < UintMod, NEW rtn_sz \in Nat,
         NEW a, a = bytes_2_hexStr(rtn_sz, bytes), a # <<-1>>
  PROVE  /\ Len(a) < rtn_sz
         /\ bytes = [i \in 1..(Len(a) \div 2) |-> 16 * a[2*i - 1] + a[2*i]]
<1> DEFINE N == Len(bytes)
<1>1. N \in Nat /\ DOMAIN bytes = 1..N /\ UintMod \in Nat /\ \A i \in 1..N : bytes[i] \in Nat
  BY TextAssumption
<1>2. a = FlattenSeq([i \in DOMAIN bytes |-> <<bytes[i] \div 16, bytes[i] % 16>>]) /\ ~((2 * N) % UintMod >= rtn_sz)
  BY Zenon DEF bytes_2_hexStr
<1>3. Shows(bytes, N, a)
  BY <1>2, AllDigits
<1>4. Len(a) = 2 * N /\ \A i \in 1..N : a[2 * i - 1] = bytes[i] \div 16 /\ a[2 * i] = bytes[i] % 16
  BY <1>3 DEF Shows
<1> HIDE DEF N
<1>5. (2 * N) % UintMod = 2 * N
  <2>1. UintMod \in Nat /\ UintMod > 0 /\ 2 * N \in Nat /\ 2 * N < UintMod
    BY <1>1 DEF N
  <2> QED
    BY <2>1, SmallIs
<1>6. Len(a) < rtn_sz
  BY <1>1, <1>2, <1>4, <1>5
<1>7. Len(a) \div 2 = N
  BY <1>1, <1>4
<1>8. \A i \in 1..N : 16 * a[2*i - 1] + a[2*i] = bytes[i]
  BY <1>1, <1>4, DigitsAre
<1>9. bytes = [i \in 1..N |-> bytes[i]]
  BY <1>1
<1>10. [i \in 1..N |-> bytes[i]] = [i \in 1..N |-> 16 * a[2*i - 1] + a[2*i]]
  BY <1>8
<1> QED
  BY <1>6, <1>7, <1>9, <1>10

----------------------------------------------------------------------------
LEMMA AskedText ==
  ASSUME ask \in Asks
  PROVE  /\ ask.fn = "bits2str" \/ ask.fn = "str2bits" => ask.table \in Table
         /\ ask.fn = "str2bits" => ask.str \in Text
         /\ ask.fn = "bytes_2_hexStr" => ask.src \in Bytes /\ ask.rtn_sz \in 0..6
BY DEF Asks

LEMMA TextAnswers == UtilInv => TextsReadBack
<1> SUFFICES ASSUME UtilInv PROVE TextsReadBack
  OBVIOUS
<1>1. ask \in Asks
  BY DEF UtilInv
<1>2. ASSUME Answered("bits2str"), Cardinality(Shown(ask.bits, ask.table)) <= MaxSymbols
      PROVE  str2bits(answer, ask.table) =
               [rtn |-> 0, bits |-> UNION {ask.table[i].bits : i \in Shown(ask.bits, ask.table)}]
  <2>1. answer = bits2str(ask.bits, ask.table)
    BY <1>2, Zenon DEF UtilInv, AnswerIs, Answered
  <2>2. IsTable(ask.table) /\ Bar \in Char
    BY <1>1, <1>2, AskedText, TablesAre, TextsAssumption DEF Answered
  <2> QED
    BY <1>2, <2>1, <2>2, NamesReadBack
<1>3. ASSUME Answered("str2bits"), NEW known, known = {p \in Pieces(ask.str) : p \in NamesOf(ask.table)}
      PROVE  /\ answer.rtn = -1 => Pieces(ask.str) # known
             /\ Pieces(ask.str) = known /\ Cardinality(Bars(ask.str)) < MaxSymbols =>
                  answer = [rtn |-> 0, bits |-> UNION {BitsNamed(p, ask.table) : p \in known}]
  <2>1. answer = str2bits(ask.str, ask.table)
    BY <1>3, Zenon DEF UtilInv, AnswerIs, Answered
  <2>2. ask.str \in Seq(Char) /\ IsTable(ask.table)
    BY <1>1, <1>3, AskedText, TablesAre, TextsAssumption DEF Answered
  <2> QED
    BY <1>3, <2>1, <2>2, BitsAreRead
<1>4. ASSUME Answered("bytes_2_hexStr"), answer # <<-1>>
      PROVE  /\ Len(answer) < ask.rtn_sz
             /\ ask.src = [i \in 1..(Len(answer) \div 2) |-> 16 * answer[2*i - 1] + answer[2*i]]
  <2>1. answer = bytes_2_hexStr(ask.rtn_sz, ask.src)
    BY <1>4, Zenon DEF UtilInv, AnswerIs, Answered
  <2>2. ask.src \in Bytes /\ ask.rtn_sz \in 0..6
    BY <1>1, <1>4, AskedText, Zenon DEF Answered
  <2>3. ask.src \in Seq(0..255) /\ 2 * Len(ask.src) < UintMod
    BY <2>2, TextsAssumption, Zenon
  <2> DEFINE B == 0..255
  <2>4. B \subseteq Nat /\ ask.src \in Seq(B)
    BY <2>3
  <2>5. \A n \in 0..6 : n \in Nat
    OBVIOUS
  <2>6. ask.src \in Seq(Nat)
    <3> HIDE DEF B
    <3> QED
      BY <2>4, SeqOfMore
  <2>7. ask.rtn_sz \in Nat
    BY <2>2, <2>5
  <2> DEFINE bytes == ask.src
             sz == ask.rtn_sz
             a == answer
  <2> HIDE DEF bytes, sz, a
  <2>8. bytes \in Seq(Nat) /\ 2 * Len(bytes) < UintMod /\ sz \in Nat /\ a = bytes_2_hexStr(sz, bytes) /\ a # <<-1>>
    BY <1>4, <2>1, <2>3, <2>6, <2>7, Zenon DEF bytes, sz, a
  <2>9. Len(a) < sz /\ bytes = [i \in 1..(Len(a) \div 2) |-> 16 * a[2*i - 1] + a[2*i]]
    BY <2>8, DigitsReadBack
  <2> QED
    BY <2>9, Zenon DEF bytes, sz, a
<1> QED
  BY <1>2, <1>3, <1>4, Zenon DEF TextsReadBack

\* With any tables of names that fit: the text of any bits, when it has no more names
\* than str2bits takes, gives these bits back; any text of known names gives their
\* bits, and is refused for an unknown one only; and two digits give back each byte.
THEOREM TextsAreReadBack == Spec => []TextsReadBack
BY AnswersHold, TextAnswers, PTL
=============================================================================
