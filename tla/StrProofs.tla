----------------------------- MODULE StrProofs -----------------------------
(***************************************************************************)
(* What a STR keeps and promises, for any texts, sizes and refusals of     *)
(* memory.  All of it rests on the first len characters, which no write    *)
(* touches, and on what vsnprintf() has left behind them.                  *)
(***************************************************************************)
EXTENDS Str, SequenceTheorems, TLAPS

----------------------------------------------------------------------------
(* Sequences and sizes *)

\* The smaller of two numbers.
LEMMA MinOfTwo ==
  ASSUME NEW a \in Int, NEW b \in Int
  PROVE  S!Min({a, b}) \in {a, b} /\ S!Min({a, b}) <= a /\ S!Min({a, b}) <= b
<1>1. \E x \in {a, b} : \A y \in {a, b} : x <= y
  OBVIOUS
<1>. QED  BY <1>1 DEF S!Min

\* The beginning of a sequence.
LEMMA Beginning ==
  ASSUME NEW C, NEW s \in Seq(C), NEW n \in 0..Len(s)
  PROVE  /\ SubSeq(s, 1, n) \in Seq(C) /\ Len(SubSeq(s, 1, n)) = n
         /\ \A i \in 1..n : SubSeq(s, 1, n)[i] = s[i]
  OBVIOUS

\* What is put behind a sequence leaves it alone.
LEMMA PutBehind ==
  ASSUME NEW C, NEW v \in Seq(C), NEW s \in Seq(C)
  PROVE  /\ v \o s \in Seq(C) /\ Len(v \o s) = Len(v) + Len(s)
         /\ SubSeq(v \o s, 1, Len(v)) = v
         /\ SubSeq(v \o s, 1, Len(v) + Len(s)) = v \o s
<1>1. v \o s \in Seq(C) /\ Len(v \o s) = Len(v) + Len(s)
  OBVIOUS
<1>2. SubSeq(v \o s, 1, Len(v)) = v
  OBVIOUS
<1>3. SubSeq(v \o s, 1, Len(v) + Len(s)) = v \o s
  BY <1>1, SubSeqFull
<1>. QED  BY <1>1, <1>2, <1>3

\* growbuf never asks for less than there is.
LEMMA SizesGrow ==
  ASSUME NEW n \in Sizes, sz \in Nat
  PROVE  n \in Nat /\ n >= sz
<1>1. PICK i \in 11..20 : n = (sz * i) \div 10
  BY DEF Sizes
<1>2. sz * i \in Nat /\ sz * i >= 10 * sz
  BY <1>1
<1>. QED  BY <1>1, <1>2

----------------------------------------------------------------------------
(* The invariant *)

\* What a call may append.
OneText == Text \cup {<<c>> : c \in Char}

\* A raw STR holds nothing and is in no call.  What is due is what there was
\* with the whole text behind it, until a piece of a file has been refused; and
\* what vsnprintf() has written behind the string is the beginning of its text.
StrInv ==
  /\ TypeOK
  /\ life = "raw" => text = <<>> /\ len = 0 /\ op = "none"
  /\ op \notin {"none", "read"} => arg \in OneText
  /\ op = "putc" => Len(arg) = 1
  /\ op \in {"append", "putc", "format", "printed", "garbled"} => due = Value \o arg
  /\ op = "printed" => text = Value \o SubSeq(arg, 1, S!Min({Len(arg), sz - len - 1}))

LEMMA StrFacts ==
  ASSUME StrInv
  PROVE  /\ sz \in Nat /\ HeapMax \in Nat /\ sz <= HeapMax
         /\ text \in Seq(Char) /\ Len(text) \in Nat /\ len \in Nat /\ len <= Len(text)
         /\ Value \in Seq(Char) /\ Len(Value) = len
         /\ arg \in Seq(Char) /\ Len(arg) \in Nat /\ due \in Seq(Char)
         /\ life \in {"raw", "live"} /\ (life = "live" => Len(text) < sz)
         /\ (op # "none" => life = "live")
<1>1. TypeOK /\ HeapMax \in Nat
  BY SizeAssumption DEF StrInv
<1>2. text \in Seq(Char) /\ Len(text) \in Nat /\ len \in 0..Len(text)
  BY <1>1 DEF TypeOK
<1>3. Value \in Seq(Char) /\ Len(Value) = len
  BY <1>2, Beginning DEF Value
<1>. QED  BY <1>1, <1>2, <1>3 DEF TypeOK, StrInv

\* A string that is left alone is that of the abstract specification, too.
LEMMA SameString ==
  ASSUME UNCHANGED <<text, len, life>>
  PROVE  Value' = Value /\ UNCHANGED A!avars
  BY DEF Value, A!avars

\* What is written behind the characters that count changes none of them.
LEMMA PutOK ==
  ASSUME StrInv, NEW s \in Seq(Char), Put(s)
  PROVE  /\ text' \in Seq(Char) /\ Len(text') = len + Len(s)
         /\ len' = len => Value' = Value
         /\ len' = len + Len(s) => Value' = Value \o s
<1>1. Value \in Seq(Char) /\ Len(Value) = len /\ text' = Value \o s
  BY StrFacts DEF Put
<1>2. /\ Value \o s \in Seq(Char) /\ Len(Value \o s) = len + Len(s)
      /\ SubSeq(Value \o s, 1, len) = Value
      /\ SubSeq(Value \o s, 1, len + Len(s)) = Value \o s
  BY <1>1, PutBehind
<1>3. Value' = SubSeq(text', 1, len')
  BY DEF Value
<1>. QED  BY <1>1, <1>2, <1>3

----------------------------------------------------------------------------
(* The steps of one call after the other *)

LEMMA ConstructOK == StrInv /\ Construct => StrInv' /\ A!Construct
<1>. SUFFICES ASSUME StrInv, Construct PROVE StrInv' /\ A!Construct
  OBVIOUS
<1>1. /\ life = "raw" /\ sz' = SizeHint /\ life' \in {"raw", "live"} /\ ret' \in Int
      /\ UNCHANGED <<len, text, op, arg, due, chunks>>
  BY DEF Construct, call
<1>2. text = <<>> /\ len = 0 /\ op = "none"
  BY <1>1 DEF StrInv
<1>3. sz' \in 0..HeapMax /\ sz' > 0
  BY <1>1, SizeAssumption
<1>4. Len(text') = 0
  BY <1>1, <1>2
<1>5. TypeOK'
  BY <1>1, <1>2, <1>3, <1>4 DEF StrInv, TypeOK
<1>6. StrInv'
  BY <1>1, <1>2, <1>5 DEF StrInv
<1>7. Value' = <<>>
  BY <1>1, <1>2, SubSeqEmpty DEF Value
<1>. QED  BY <1>1, <1>6, <1>7 DEF A!Construct

LEMMA ResetOK == StrInv /\ Reset => StrInv' /\ A!Reset
<1>. SUFFICES ASSUME StrInv, Reset PROVE StrInv' /\ A!Reset
  OBVIOUS
<1>1. /\ life = "live" /\ op = "none" /\ len' = 0 /\ text' = <<>> /\ ret' = 0
      /\ UNCHANGED <<sz, life, op, arg, due, chunks>>
  BY DEF Reset, call
<1>2. sz \in Nat /\ sz > 0 /\ Len(text') = 0
  BY <1>1, StrFacts
<1>3. TypeOK'
  BY <1>1, <1>2 DEF StrInv, TypeOK
<1>4. Value' = <<>>
  BY <1>1, SubSeqEmpty DEF Value
<1>. QED  BY <1>1, <1>3, <1>4 DEF StrInv, A!Reset

\* Lower case of the C string is lower case of the characters that count.
LEMMA ToLowerOK == StrInv /\ ToLower => StrInv' /\ A!ToLower
<1>. SUFFICES ASSUME StrInv, ToLower PROVE StrInv' /\ A!ToLower
  OBVIOUS
<1>1. /\ life = "live" /\ op = "none"
      /\ text' = [i \in DOMAIN text |-> Lower[text[i]]]
      /\ UNCHANGED <<sz, len, life, op, arg, due, chunks, ret>>
  BY DEF ToLower, call
<1>2. /\ text \in Seq(Char) /\ Len(text) \in Nat /\ len \in 0..Len(text)
      /\ Value \in Seq(Char) /\ Len(Value) = len
  BY StrFacts
<1>3. DOMAIN text = 1..Len(text) /\ DOMAIN Value = 1..len
  BY <1>2
<1>4. \A i \in 1..Len(text) : text[i] \in Char /\ Lower[text[i]] \in Char
  BY <1>2, TextAssumption
<1>5. text' \in [1..Len(text) -> Char]
  BY <1>1, <1>3, <1>4
<1>6. text' \in Seq(Char) /\ Len(text') = Len(text)
  BY <1>2, <1>5
<1>7. TypeOK'
  BY <1>1, <1>6 DEF StrInv, TypeOK
<1>8. StrInv'
  BY <1>1, <1>7 DEF StrInv
<1>9. Value' = [i \in DOMAIN Value |-> Lower[Value[i]]]
  <2>. DEFINE w == [i \in DOMAIN Value |-> Lower[Value[i]]]
  <2>1. Value' = SubSeq(text', 1, len)
    BY <1>1 DEF Value
  <2>2. /\ Value' \in Seq(Char) /\ Len(Value') = len
        /\ \A i \in 1..len : Value'[i] = text'[i]
    BY <1>2, <1>6, <2>1, Beginning
  <2>3. \A i \in 1..len : Value[i] = text[i]
    BY <1>2, Beginning DEF Value
  <2>4. \A i \in 1..len : i \in 1..Len(text)
    BY <1>2
  <2>5. w \in [1..len -> Char]
    BY <1>3, <1>4, <2>3, <2>4
  <2>6. w \in Seq(Char) /\ Len(w) = len
    BY <1>2, <2>5
  <2>7. \A i \in 1..len : w[i] = Value'[i]
    BY <1>1, <1>3, <2>2, <2>3, <2>4
  <2>. HIDE DEF w
  <2>8. Value' = w
    BY <2>2, <2>6, <2>7, SeqEqual
  <2>. QED  BY <2>8 DEF w
<1>. QED  BY <1>1, <1>8, <1>9 DEF A!ToLower

LEMMA DestroyOK == StrInv /\ Destroy => StrInv' /\ A!Destroy
<1>. SUFFICES ASSUME StrInv, Destroy PROVE StrInv' /\ A!Destroy
  OBVIOUS
<1>1. /\ life = "live" /\ op = "none" /\ life' = "raw" /\ sz' = 0 /\ len' = 0 /\ text' = <<>>
      /\ UNCHANGED <<op, arg, due, chunks, ret>>
  BY DEF Destroy, call
<1>2. 0 \in 0..HeapMax /\ Len(text') = 0
  BY <1>1, SizeAssumption
<1>3. TypeOK'
  BY <1>1, <1>2 DEF StrInv, TypeOK
<1>4. Value' = <<>>
  BY <1>1, SubSeqEmpty DEF Value
<1>. QED  BY <1>1, <1>3, <1>4 DEF StrInv, A!Destroy

----------------------------------------------------------------------------
(* The steps within a call *)

\* A call begins: what is due is formed, and nothing is written yet.
LEMMA BeginOK ==
  ASSUME StrInv, NEW o \in {"append", "putc", "format", "read"}, NEW s \in Seq(Char),
         o = "read" \/ s \in OneText, o = "putc" => Len(s) = 1, Begin(o, s), UNCHANGED <<sz, len, text, life, ret>>
  PROVE  StrInv' /\ UNCHANGED A!avars
<1>1. /\ life = "live" /\ op' = o /\ arg' = s /\ due' = Value \o s /\ chunks' = 0
      /\ Value' = Value /\ UNCHANGED A!avars
  BY SameString DEF Begin
<1>2. due' \in Seq(Char)
  BY <1>1, StrFacts
<1>3. TypeOK'
  BY <1>1, <1>2, SizeAssumption DEF StrInv, TypeOK
<1>. QED  BY <1>1, <1>3 DEF StrInv

\* A call ends without touching the string.
LEMMA EndOK ==
  ASSUME StrInv, NEW rc \in Int, Return(rc), UNCHANGED <<sz, len, text, life>>
  PROVE  StrInv' /\ UNCHANGED A!avars
<1>1. op' = "none" /\ arg' = <<>> /\ due' = <<>> /\ chunks' = 0 /\ ret' = rc
  BY DEF Return
<1>2. TypeOK'
  BY <1>1, SizeAssumption DEF StrInv, TypeOK
<1>. QED  BY <1>1, <1>2, SameString DEF StrInv

LEMMA VsnprintfOK == StrInv /\ (Vsnprintf \/ VsnprintfFails) => StrInv' /\ UNCHANGED A!avars
<1>. SUFFICES ASSUME StrInv, Vsnprintf \/ VsnprintfFails PROVE StrInv' /\ UNCHANGED A!avars
  OBVIOUS
<1>. DEFINE m == S!Min({Len(arg), sz - len - 1})
<1>1. /\ op = "format" /\ op' \in {"printed", "garbled"}
      /\ UNCHANGED <<sz, len, life, arg, due, chunks, ret>>
  BY DEF Vsnprintf, VsnprintfFails
<1>2. /\ sz \in Nat /\ len \in Nat /\ len < sz /\ arg \in Seq(Char) /\ Len(arg) \in Nat
      /\ life = "live"
  BY <1>1, StrFacts
<1>3. m \in 0..Len(arg) /\ m <= sz - len - 1
  <2>. DEFINE a == Len(arg)  b == sz - len - 1
  <2>1. a \in Nat /\ b \in Nat
    BY <1>2
  <2>2. m = S!Min({a, b})
    OBVIOUS
  <2>. HIDE DEF a, b, m
  <2>3. m \in {a, b} /\ m <= a /\ m <= b
    BY <2>1, <2>2, MinOfTwo
  <2>4. m \in 0..a /\ m <= b
    BY <2>1, <2>3
  <2>. QED  BY <2>4 DEF a, b
<1>. HIDE DEF m
<1>4. PICK k \in 0..m : Put(SubSeq(arg, 1, k)) /\ (op' = "printed" => k = m)
  BY <1>3 DEF Vsnprintf, VsnprintfFails, m
<1>5. k \in 0..Len(arg) /\ k <= sz - len - 1
  BY <1>2, <1>3, <1>4
<1>6. SubSeq(arg, 1, k) \in Seq(Char) /\ Len(SubSeq(arg, 1, k)) = k
  BY <1>2, <1>5, Beginning
<1>7. text' \in Seq(Char) /\ Len(text') = len + k /\ Value' = Value
  BY <1>1, <1>4, <1>6, PutOK
<1>8. len' \in 0..Len(text') /\ Len(text') < sz'
  BY <1>1, <1>2, <1>5, <1>7
<1>9. TypeOK'
  BY <1>1, <1>7, <1>8 DEF StrInv, TypeOK
<1>10. op' = "printed" => text' = Value' \o SubSeq(arg', 1, S!Min({Len(arg'), sz' - len' - 1}))
  BY <1>1, <1>4, <1>7 DEF Put, m
<1>11. StrInv'
  BY <1>1, <1>2, <1>7, <1>9, <1>10 DEF StrInv
<1>. QED  BY <1>1, <1>7, <1>11 DEF A!avars

LEMMA GrowOK == StrInv /\ Grow => StrInv' /\ UNCHANGED A!avars
<1>. SUFFICES ASSUME StrInv, Grow PROVE StrInv' /\ UNCHANGED A!avars
  OBVIOUS
<1>1. /\ TooSmall /\ sz' \in Sizes /\ sz' <= HeapMax
      /\ op' = IF op = "printed" THEN "format" ELSE op
      /\ UNCHANGED <<len, text, life, arg, due, chunks, ret>>
  BY DEF Grow
<1>2. op \in {"putc", "append", "file", "printed", "garbled"} /\ life = "live"
  BY <1>1, StrFacts DEF TooSmall
<1>3. sz' \in Nat /\ sz' >= sz /\ sz \in Nat /\ Len(text) < sz /\ Len(text) \in Nat
  BY <1>1, <1>2, SizesGrow, StrFacts
<1>4. sz' \in 0..HeapMax /\ Len(text') < sz'
  BY <1>1, <1>3, SizeAssumption
<1>5. TypeOK'
  BY <1>1, <1>2, <1>4 DEF StrInv, TypeOK
<1>. QED  BY <1>1, <1>2, <1>5, SameString DEF StrInv

\* The piece of a file is given up, and the next one is read.
LEMMA GrowFailsOK == StrInv /\ GrowFails => StrInv' /\ UNCHANGED A!avars
<1>. SUFFICES ASSUME StrInv, GrowFails PROVE StrInv' /\ UNCHANGED A!avars
  OBVIOUS
<1>1. UNCHANGED <<sz, len, text, life>>
  BY DEF GrowFails
<1>2. CASE Return(1) \/ Return(-1)
  BY <1>1, <1>2, EndOK
<1>3. CASE op = "file" /\ op' = "read" /\ UNCHANGED <<arg, due, chunks, ret>>
  BY <1>1, <1>3, SameString DEF StrInv, TypeOK
<1>. QED  BY <1>2, <1>3 DEF GrowFails

\* All of the text is there, and the string reaches to the end of it.
LEMMA FinishOK ==
  ASSUME StrInv, Finish
  PROVE  /\ StrInv' /\ A!Extend(arg) /\ arg \in OneText
         /\ op # "file" => text' = due /\ len' = Len(due)
<1>1. /\ op \in {"append", "putc", "file", "printed"} /\ ~TooSmall
      /\ len' = len + Len(arg) /\ UNCHANGED <<sz, life>>
  BY DEF Finish
<1>2. /\ sz \in Nat /\ len \in Nat /\ len < sz /\ arg \in Seq(Char) /\ Len(arg) \in Nat
      /\ life = "live" /\ Value \in Seq(Char) /\ Len(Value) = len
  BY <1>1, StrFacts
<1>3. len + Len(arg) < sz
  <2>1. CASE op \in {"append", "file"}
    BY <1>1, <1>2, <2>1 DEF TooSmall
  <2>2. CASE op = "printed"
    BY <1>1, <1>2, <2>2 DEF TooSmall
  <2>3. CASE op = "putc"
    <3>1. len + 1 < sz
      BY <1>1, <1>2, <2>3 DEF TooSmall
    <3>2. Len(arg) = 1
      BY <2>3 DEF StrInv
    <3>. QED  BY <3>1, <3>2
  <2>. QED  BY <1>1, <2>1, <2>2, <2>3
<1>4. text' = Value \o arg
  <2>1. CASE op = "printed"
    <3>1. S!Min({Len(arg), sz - len - 1}) = Len(arg)
      <4>. DEFINE a == Len(arg)  b == sz - len - 1
      <4>1. a \in Int /\ b \in Int /\ a <= b
        BY <1>2, <1>3
      <4>. HIDE DEF a, b
      <4>2. S!Min({a, b}) \in {a, b} /\ S!Min({a, b}) <= a
        BY <4>1, MinOfTwo
      <4>3. S!Min({a, b}) = a
        BY <4>1, <4>2
      <4>. QED  BY <4>3 DEF a, b
    <3>2. SubSeq(arg, 1, Len(arg)) = arg
      BY <1>2, SubSeqFull
    <3>3. text' = text
      BY <2>1 DEF Finish
    <3>. QED  BY <2>1, <3>1, <3>2, <3>3 DEF StrInv
  <2>2. CASE op # "printed"
    BY <2>2 DEF Finish, Put
  <2>. QED  BY <2>1, <2>2
<1>5. Put(arg)
  BY <1>4 DEF Put
<1>6. text' \in Seq(Char) /\ Len(text') = len + Len(arg) /\ Value' = Value \o arg
  BY <1>1, <1>2, <1>5, PutOK
<1>7. arg \in OneText
  BY <1>1 DEF StrInv
<1>8. len' \in 0..Len(text') /\ Len(text') < sz'
  BY <1>1, <1>2, <1>3, <1>6
<1>9. /\ op' \in {"none", "read"} /\ arg' \in Seq(Char) /\ due' \in Seq(Char)
      /\ chunks' \in 0..FileChunks /\ ret' \in Int
  <2>1. CASE op = "file"
    BY <2>1, <1>2, StrFacts DEF Finish, StrInv, TypeOK
  <2>2. CASE op # "file"
    <3>1. \E rc \in Int : Return(rc)
      BY <1>1, <1>2, <2>2 DEF Finish
    <3>. QED  BY <3>1, SizeAssumption DEF Return
  <2>. QED  BY <2>1, <2>2
<1>10. TypeOK'
  BY <1>1, <1>2, <1>6, <1>8, <1>9 DEF StrInv, TypeOK
<1>11. StrInv'
  BY <1>1, <1>2, <1>9, <1>10 DEF StrInv
<1>12. op # "file" => text' = due /\ len' = Len(due)
  <2>1. op # "file" => due = Value \o arg
    BY <1>1 DEF StrInv
  <2>2. Len(Value \o arg) = len + Len(arg)
    BY <1>4, <1>6
  <2>. QED  BY <1>1, <1>4, <2>1, <2>2
<1>. QED  BY <1>1, <1>2, <1>6, <1>7, <1>11, <1>12 DEF A!Extend

LEMMA FileReadOK ==
  ASSUME StrInv, NEW s \in Text, FileRead(s)
  PROVE  StrInv' /\ UNCHANGED A!avars
<1>1. /\ op = "read" /\ op' = "file" /\ arg' = s /\ due' = due \o s /\ chunks < FileChunks
      /\ chunks' = chunks + 1 /\ UNCHANGED <<sz, len, text, life, ret>>
  BY DEF FileRead
<1>2. s \in Seq(Char) /\ s \in OneText /\ due' \in Seq(Char)
  BY <1>1, StrFacts, TextAssumption DEF OneText
<1>3. chunks' \in 0..FileChunks
  BY <1>1, SizeAssumption DEF StrInv, TypeOK
<1>4. TypeOK'
  BY <1>1, <1>2, <1>3 DEF StrInv, TypeOK
<1>. QED  BY <1>1, <1>2, <1>4, SameString DEF StrInv

----------------------------------------------------------------------------
(* All steps *)

\* What SuccessIsWhole says of a step.
Whole ==
  /\ op \in {"append", "putc", "printed"} /\ op' = "none"
  /\ ret' = IF op = "printed" THEN Len(arg) ELSE 0
  => text' = due /\ len' = Len(due)

LEMMA StepOK == StrInv /\ [Next]_vars => StrInv' /\ [A!Next]_(A!avars) /\ Whole
<1>. SUFFICES ASSUME StrInv, [Next]_vars
              PROVE  StrInv' /\ [A!Next]_(A!avars) /\ Whole
  OBVIOUS
<1>1. CASE Construct
  <2>1. Whole
    BY <1>1 DEF Construct, Whole, StrInv
  <2>. QED  BY <1>1, <2>1, ConstructOK DEF A!Next
<1>2. CASE Reset \/ ToLower \/ Destroy
  <2>1. op = "none"
    BY <1>2 DEF Reset, ToLower, Destroy
  <2>. QED  BY <1>2, <2>1, ResetOK, ToLowerOK, DestroyOK DEF A!Next, Whole
<1>3. CASE UNCHANGED vars
  <2>1. UNCHANGED <<sz, len, text, life, op, arg, due, chunks, ret>>
    BY <1>3 DEF vars, call
  <2>. QED  BY <2>1, SameString DEF StrInv, TypeOK, Whole
<1>4. ASSUME op = "none", life = "live", ret' \in {0, -1}, UNCHANGED <<sz, len, text, life, call>>
      PROVE  StrInv' /\ [A!Next]_(A!avars) /\ Whole
  BY <1>4, SameString DEF StrInv, TypeOK, Whole, call
<1>5. ASSUME NEW o \in {"append", "putc", "format", "read"}, NEW s \in Seq(Char),
             o = "read" \/ s \in OneText, o = "putc" => Len(s) = 1, Begin(o, s),
             UNCHANGED <<sz, len, text, life, ret>>
      PROVE  StrInv' /\ [A!Next]_(A!avars) /\ Whole
  BY <1>5, BeginOK DEF Begin, Whole
<1>6. CASE SprintfEmpty
  BY <1>4, <1>6 DEF SprintfEmpty
<1>7. CASE AppendFile
  <2>1. <<>> \in Seq(Char)
    OBVIOUS
  <2>. QED  BY <1>4, <1>5, <1>7, <2>1 DEF AppendFile
<1>8. CASE \E c \in Char : Putc(c)
  <2>1. PICK c \in Char : Putc(c)
    BY <1>8
  <2>2. <<c>> \in Seq(Char) /\ <<c>> \in OneText /\ Len(<<c>>) = 1
    BY DEF OneText
  <2>3. Begin("putc", <<c>>) /\ UNCHANGED <<sz, len, text, life, ret>>
    BY <2>1 DEF Putc
  <2>. QED  BY <1>5, <2>2, <2>3
<1>9. CASE \E s \in Text : AppendText(s) \/ Sprintf(s)
  <2>1. PICK s \in Text : AppendText(s) \/ Sprintf(s)
    BY <1>9
  <2>2. s \in Seq(Char) /\ s \in OneText
    BY TextAssumption DEF OneText
  <2>. QED  BY <1>5, <2>1, <2>2 DEF AppendText, Sprintf
<1>10. CASE Vsnprintf \/ VsnprintfFails \/ Grow
  <2>1. Whole
    BY <1>10 DEF Vsnprintf, VsnprintfFails, Grow, Whole
  <2>. QED  BY <1>10, <2>1, VsnprintfOK, GrowOK
<1>11. CASE GrowFails
  <2>1. Whole
    <3>1. op = "printed" => Len(arg) # -1
      BY StrFacts
    <3>. QED  BY <1>11, <3>1 DEF GrowFails, Return, Whole
  <2>. QED  BY <1>11, <2>1, GrowFailsOK
<1>12. CASE Finish
  <2>1. arg \in Text \cup {<<c>> : c \in Char}
    BY <1>12, FinishOK DEF OneText
  <2>. QED  BY <1>12, <2>1, FinishOK DEF A!Next, Whole
<1>13. CASE FileEnd
  <2>1. Whole
    BY <1>13 DEF FileEnd, Whole
  <2>2. UNCHANGED <<sz, len, text, life>> /\ (Return(0) \/ Return(-1))
    BY <1>13 DEF FileEnd
  <2>. QED  BY <2>1, <2>2, EndOK
<1>14. CASE \E s \in Text : FileRead(s)
  <2>1. Whole
    BY <1>14 DEF FileRead, Whole
  <2>. QED  BY <1>14, <2>1, FileReadOK
<1>. QED
  BY <1>1, <1>2, <1>3, <1>6, <1>7, <1>8, <1>9, <1>10, <1>11, <1>12, <1>13, <1>14
  DEF Next, Step

LEMMA InitOK == Init => StrInv /\ A!Init
<1>. SUFFICES ASSUME Init PROVE StrInv /\ A!Init
  OBVIOUS
<1>1. /\ sz = 0 /\ len = 0 /\ text = <<>> /\ life = "raw" /\ op = "none" /\ arg = <<>>
      /\ due = <<>> /\ chunks = 0 /\ ret = 0
  BY DEF Init
<1>2. Len(text) = 0
  BY <1>1
<1>3. TypeOK
  BY <1>1, <1>2, SizeAssumption DEF TypeOK
<1>4. Value = <<>>
  BY <1>1, SubSeqEmpty DEF Value
<1>. QED  BY <1>1, <1>3, <1>4 DEF StrInv, A!Init

----------------------------------------------------------------------------
(* The theorems *)

\* Between and within calls, what is to come is what was there and the text
\* at hand, and what vsnprintf() wrote is the beginning of that (str.c:108-233).
THEOREM StringInvariant == Spec => []StrInv
<1>1. Init => StrInv
  BY InitOK
<1>2. StrInv /\ [Next]_vars => StrInv'
  BY StepOK
<1>. QED  BY <1>1, <1>2, PTL DEF Spec

\* The string that counts lies within the C string, and that with its
\* terminator in the buffer (str.c:108-220): no append of any text, no refusal of
\* memory and no failed format writes past the buffer.
THEOREM TypeCorrect == Spec => []TypeOK
<1>1. StrInv => TypeOK
  BY DEF StrInv
<1>. QED  BY <1>1, StringInvariant, PTL

\* A call that answers success has appended its whole text, and the C string
\* ends where len says (str.c:108-233).
THEOREM SuccessStaysWhole == Spec => SuccessIsWhole
<1>1. StrInv /\ [Next]_vars =>
        [/\ op \in {"append", "putc", "printed"} /\ op' = "none"
         /\ ret' = IF op = "printed" THEN Len(arg) ELSE 0
         => text' = due /\ len' = Len(due)]_vars
  BY StepOK DEF Whole
<1>. QED  BY <1>1, StringInvariant, PTL DEF Spec, SuccessIsWhole

\* A STR is a string that is only appended to, as str.h promises: a call appends
\* all of a text or nothing, and changes nothing of what was there.
THEOREM StrImplementsAString == Spec => ImplementsAString
<1>1. Init => A!Init
  BY InitOK
<1>2. StrInv /\ [Next]_vars => [A!Next]_(A!avars)
  BY StepOK
<1>. QED  BY <1>1, <1>2, StringInvariant, PTL DEF Spec, ImplementsAString, A!Spec
=============================================================================
