------------------------------- MODULE Encode -------------------------------
(***************************************************************************)
(* The encoders of STR (str.c:235-671): each goes through a source string  *)
(* and appends, for every character, what stands for it in some language.  *)
(* An append that the heap refuses appends nothing (though STR_sprintf     *)
(* leaves what fitted behind the string), and no encoder looks at the      *)
(* answer.  Characters are bytes, and code points in HTML.  A byte beyond  *)
(* 127 is a negative char, of none of the C locale's classes.              *)
(***************************************************************************)
EXTENDS Integers, Sequences, FiniteSets, Walks

Seqs == INSTANCE SequencesExt

CONSTANTS
  Encoder,      \* the functions called, of those named below
  Alphabet,     \* for each encoder, the characters of its sources
  MaxLen,       \* bound: the characters of a source
  MayRefuse     \* whether the heap may refuse

Encoders == {"XML", "URL", "HTML", "JSON", "regex", "SQL", "any"}

\* The last code point.
MaxCodePoint == 1114111

ASSUME EncoderAssumption == Encoder \subseteq Encoders /\ MayRefuse \in BOOLEAN
ASSUME AlphabetAssumption ==
  /\ MaxLen \in Nat
  /\ \A e \in Encoder : Alphabet[e] \subseteq 1..(IF e = "HTML" THEN MaxCodePoint ELSE 255)

VARIABLES
  enc,          \* the encoder called
  chars,        \* the characters of its source
  src,          \* the bytes of its source
  pos,          \* the next byte, "c" in the code
  code,         \* STR_utf8toHTML's code point, which outlives a turn
  out,          \* what was appended to self
  rest,         \* what a refused STR_sprintf has left behind it
  lost,         \* whether an append was refused
  ret           \* "none", "str" or "NULL"

input == <<enc, chars, src>>
encoderVars == <<input, pos, code, out, rest, lost, ret>>

Quote == 34
Hash == 35
Percent == 37
Amp == 38
Apostrophe == 39
Semicolon == 59
Lt == 60
Gt == 62
Backslash == 92
Euro == 8364
Replacement == 65533

\* A name or number that stands for a code point, kept apart from characters.
Named(cp) == cp + 2000000

Printable(c) == c \in 32..126
Control(c) == c \in 1..31 \cup {127}
IsSpace(c) == c \in 9..13 \cup {32}
HexDigits == 48..57 \cup 65..70 \cup 97..102

\* The digits %X prints.
HexDigit(n) == IF n < 10 THEN 48 + n ELSE 55 + n
HexPair(c)  == <<HexDigit(c \div 16), HexDigit(c % 16)>>

HexValue(d) == CASE d \in 48..57 -> d - 48 [] d \in 65..70 -> d - 55 [] d \in 97..102 -> d - 87

----------------------------------------------------------------------------
(* What each encoder appends for a character, one text for each call       *)

XmlCalls(c) ==
  IF c \in {Quote, Apostrophe, Lt, Gt, Amp} THEN << <<Amp, Named(c), Semicolon>> >> ELSE << <<c>> >>

\* ! # $ & ' ( ) * + , : ; = ? @ [ and ], but neither % nor space.
UrlSpecial == {33, 35, 36, 58, 59, 61, 63, 64, 91, 93} \cup 38..44

\* Fault variant: an escape is put byte by byte.
UrlCalls_ByteByByte(c) ==
  IF c \in UrlSpecial THEN [i \in 1..3 |-> <<(<<Percent>> \o HexPair(c))[i]>>] ELSE << <<c>> >>

UrlCalls(c) == IF c \in UrlSpecial THEN << <<Percent>> \o HexPair(c) >> ELSE << <<c>> >>

\* %4X pads with spaces.
JsonCalls(c) ==
  CASE c \in {Backslash, Quote} -> << <<Backslash, c>> >>
    [] Control(c) -> << <<Backslash, 117, 32, 32>> \o (IF c < 16 THEN <<32, HexDigit(c)>> ELSE HexPair(c)) >>
    [] OTHER -> << <<c>> >>

\* Fault variant: one more operator, the dot, is missed.
RegexSpecial_NoDot == {Backslash, 42, 43, 63, 40, 41, 123, 125, 91, 93, 36, 45}

\* \ . * + ? ( ) { } [ ] $ and -.
RegexSpecial == {Backslash, 46, 42, 43, 63, 40, 41, 123, 125, 91, 93, 36, 45}

RegexCalls(c) == IF c \in RegexSpecial THEN << <<Backslash>>, <<c>> >> ELSE << <<c>> >>

SqlCalls(c) == IF c = Apostrophe THEN << <<c>>, <<c>> >> ELSE << <<c>> >>

\* anychar2str leaves what is printable; %02X of a negative char has eight digits.
AnyCalls(c) ==
  LET sign == IF c > 127 THEN [i \in 1..6 |-> 70] ELSE <<>> IN
  IF IsSpace(c) \/ Printable(c) THEN << <<c>> >>
  ELSE << <<Lt, 48, 120>> \o sign \o HexPair(c) \o <<Gt>> >>

\* The entities of Latin-1; one of them (&acirc) has no semicolon.  The
\* replacement character is left out.
HtmlCalls(cp) ==
  CASE cp = 226 -> << <<Amp, Named(cp)>> >>
    [] cp \in {Quote, Lt, Gt, Amp, Euro} \cup (160..255 \ {226}) -> << <<Amp, Named(cp), Semicolon>> >>
    [] Printable(cp) /\ cp \notin {Quote, Lt, Gt, Amp} -> << <<cp>> >>
    [] cp = Replacement -> <<>>
    [] OTHER -> << <<Amp, Hash, Named(cp), Semicolon>> >>

Calls(c) ==
  CASE enc = "XML"   -> XmlCalls(c)
    [] enc = "URL"   -> UrlCalls(c)
    [] enc = "JSON"  -> JsonCalls(c)
    [] enc = "regex" -> RegexCalls(c)
    [] enc = "SQL"   -> SqlCalls(c)
    [] enc = "any"   -> AnyCalls(c)

\* The texts that go through STR_sprintf.
Printed(text) == Len(text) > 1 /\ (enc = "JSON" \/ (enc = "HTML" /\ text[2] = Hash))

\* What may be behind the string after calls of which none was granted.
Left(calls) ==
  IF \E i \in DOMAIN calls : Printed(calls[i])
  THEN {SubSeq(calls[1], 1, n) : n \in 0..(Len(calls[1]) - 1)} ELSE {rest}

\* Each call appends all of its text or is refused.
Appended(calls) ==
  \E kept \in SUBSET DOMAIN calls :
    /\ MayRefuse \/ kept = DOMAIN calls
    /\ out' = out \o Seqs!FlattenSeq([i \in DOMAIN calls |-> IF i \in kept THEN calls[i] ELSE <<>>])
    /\ rest' \in IF kept = {} THEN Left(calls) ELSE {<<>>}
    /\ lost' = (lost \/ kept # DOMAIN calls)

----------------------------------------------------------------------------
\* UTF-8: the lead byte and six bits in each of those that follow it.
Utf8(cp) ==
  LET six(n) == 128 + (n % 64) IN
  CASE cp < 128 -> <<cp>>
    [] 128 <= cp /\ cp < 2048 -> <<192 + cp \div 64, six(cp)>>
    [] 2048 <= cp /\ cp < 65536 -> <<224 + cp \div 4096, six(cp \div 64), six(cp)>>
    [] cp >= 65536 -> <<240 + cp \div 262144, six(cp \div 4096), six(cp \div 64), six(cp)>>

\* A source may end within a character of several bytes, or with a byte that
\* begins none.
Tails(e) ==
  LET cut(cp) == {SubSeq(Utf8(cp), 1, n) : n \in 1..(Len(Utf8(cp)) - 1)} IN
  {<<>>} \cup IF e # "HTML" THEN {} ELSE {<<128>>} \cup UNION {cut(cp) : cp \in Alphabet[e]}

\* The bytes of the characters.
Whole == Seqs!FlattenSeq([i \in DOMAIN chars |-> IF enc = "HTML" THEN Utf8(chars[i]) ELSE <<chars[i]>>])

EncoderInit ==
  /\ enc \in Encoder
  /\ chars \in Seqs!BoundedSeq(Alphabet[enc], MaxLen)
  /\ \E tail \in Tails(enc) : src = Whole \o tail
  /\ pos = 1 /\ code = 63 /\ out = <<>> /\ rest = <<>> /\ lost = FALSE /\ ret = "none"

\* A turn of the loop of any encoder but STR_utf8toHTML.
Turn ==
  /\ enc # "HTML" /\ ret = "none" /\ pos <= Len(src)
  /\ Appended(Calls(src[pos]))
  /\ pos' = pos + 1
  /\ UNCHANGED <<input, code, ret>>

\* The bytes that a lead byte says follow it.
Follow(b) ==
  CASE b \in 240..247 -> 3
    [] b \in 224..239 -> 2
    [] b \in 192..223 -> 1
    [] OTHER -> 0

\* The code point of the n bytes that follow, none of which is looked at but
\* for its six bits; a byte that begins nothing leaves the code point of before.
CodeAt(i, n) ==
  LET bits(k) == src[i + k] % 64 IN
  CASE n = 3 -> (src[i] % 8) * 262144 + bits(1) * 4096 + bits(2) * 64 + bits(3)
    [] n = 2 -> (src[i] % 16) * 4096 + bits(1) * 64 + bits(2)
    [] n = 1 -> (src[i] % 32) * 64 + bits(1)
    [] n = 0 -> IF src[i] < 128 THEN src[i] ELSE code

\* A turn of STR_utf8toHTML's loop.
TurnHTML ==
  /\ enc = "HTML" /\ ret = "none" /\ pos <= Len(src)
  /\ LET n == Follow(src[pos]) IN
     /\ pos + n <= Len(src)
     /\ code' = CodeAt(pos, n)
     /\ Appended(HtmlCalls(code'))
     /\ pos' = pos + n + 1
  /\ UNCHANGED <<input, ret>>

\* Fault variant: the end of the source is found one byte late.
EndsTooSoon_Late ==
  /\ enc = "HTML" /\ ret = "none" /\ pos <= Len(src)
  /\ pos + Follow(src[pos]) > Len(src)
  /\ IF pos + Follow(src[pos]) > Len(src) + 1 THEN ret' = "NULL" /\ UNCHANGED pos
     ELSE pos' = pos + Follow(src[pos]) + 1 /\ UNCHANGED ret
  /\ UNCHANGED <<input, code, out, rest, lost>>

\* STR_utf8toHTML reports a source that ends within a character.
EndsTooSoon ==
  /\ enc = "HTML" /\ ret = "none" /\ pos <= Len(src)
  /\ pos + Follow(src[pos]) > Len(src)
  /\ ret' = "NULL"
  /\ UNCHANGED <<input, pos, code, out, rest, lost>>

Return ==
  /\ ret = "none" /\ pos > Len(src)
  /\ ret' = "str"
  /\ UNCHANGED <<input, pos, code, out, rest, lost>>

Finished == ret # "none" /\ UNCHANGED encoderVars

EncoderNext == Turn \/ TurnHTML \/ EndsTooSoon \/ Return \/ Finished

EncoderSpec == EncoderInit /\ [][EncoderNext]_encoderVars

\* STR_percent_decode: what it appends for s.
PercentDecode(s) ==
  LET escape(i) ==
        i + 2 <= Len(s) /\ s[i] = Percent /\ s[i + 1] \in HexDigits /\ s[i + 2] \in HexDigits
  IN  Walk([i \in DOMAIN s |->
        IF escape(i) THEN [n |-> 3, text |-> <<HexValue(s[i + 1]) * 16 + HexValue(s[i + 2])>>]
        ELSE [n |-> 1, text |-> <<s[i]>>]])

----------------------------------------------------------------------------
(* What a reader of each language makes of a text                          *)

\* Each piece of a text is n characters that stand for c, or of no language, where c is 0.
At(s, i)     == IF i <= Len(s) THEN s[i] ELSE 0
Bad          == [n |-> 1, c |-> 0]
Letter(s, i) == [n |-> 1, c |-> s[i]]

\* A character's name or number, behind n others.
Reference(s, i, n) ==
  IF At(s, i + n) > Named(0) /\ At(s, i + n + 1) = Semicolon
  THEN [n |-> n + 2, c |-> At(s, i + n) - Named(0)] ELSE Bad

XmlPiece(s, i) ==
  CASE s[i] = Amp -> Reference(s, i, IF At(s, i + 1) = Hash THEN 2 ELSE 1)
    [] s[i] \in {Lt, Gt} -> Bad
    [] OTHER -> Letter(s, i)

SqlPiece(s, i) ==
  CASE s[i] # Apostrophe -> Letter(s, i)
    [] s[i] = Apostrophe /\ At(s, i + 1) = Apostrophe -> [n |-> 2, c |-> Apostrophe]
    [] OTHER -> Bad

\* The characters POSIX's extended regular expressions (those of util.c:915) give
\* a meaning: \ . * + ? ( ) { } [ ] ^ $ and |.  Outside of brackets - is a letter,
\* and so is it behind a backslash, which makes an operator of other letters.
RegexOperators == {Backslash, 46, 42, 43, 63, 40, 41, 123, 125, 91, 93, 94, 36, 124}

RegexPiece(s, i) ==
  CASE s[i] \notin RegexOperators -> Letter(s, i)
    [] s[i] = Backslash /\ At(s, i + 1) \in RegexOperators \cup {45} -> [n |-> 2, c |-> s[i + 1]]
    [] OTHER -> Bad

JsonEscape(s, i) ==
  CASE At(s, i + 1) \in {Backslash, Quote} -> [n |-> 2, c |-> s[i + 1]]
    [] At(s, i + 1) = 117 /\ \A k \in 2..5 : At(s, i + k) \in HexDigits ->
         [n |-> 6, c |-> HexValue(s[i + 4]) * 16 + HexValue(s[i + 5])]
    [] OTHER -> Bad

JsonPiece(s, i) ==
  CASE s[i] = Backslash -> JsonEscape(s, i)
    [] s[i] = Quote \/ Control(s[i]) -> Bad
    [] OTHER -> Letter(s, i)

Piece(s, i) ==
  CASE enc \in {"XML", "HTML"} -> XmlPiece(s, i)
    [] enc = "SQL"   -> SqlPiece(s, i)
    [] enc = "regex" -> RegexPiece(s, i)
    [] enc = "JSON"  -> JsonPiece(s, i)
    [] OTHER         -> Letter(s, i)

Read(s) ==
  IF enc = "URL" THEN PercentDecode(s)
  ELSE Walk([i \in DOMAIN s |-> [n |-> Piece(s, i).n, text |-> <<Piece(s, i).c>>]])

\* The replacement character stands for nothing.
Meant ==
  Seqs!FlattenSeq([i \in DOMAIN chars |->
    IF enc = "HTML" /\ chars[i] = Replacement THEN <<>> ELSE <<chars[i]>>])

\* r has some of the elements of s, in their order.
PartOf(r, s) ==
  \E f \in [DOMAIN r -> DOMAIN s] :
    \A i, j \in DOMAIN r : r[i] = s[f[i]] /\ (i < j => f[i] < f[j])

EndsCut == \E tail \in Tails(enc) \ {<<>>, <<128>>} : src = Whole \o tail

\* ^ and |, the "missed" characters of STR_escapeRegex's FIXME.
RegexMissed == {94, 124}

\* Not the sources the encoders do not claim, or manage, to represent: percent signs
\* in a URL, control characters in JSON, one letter in HTML, two operators of regular
\* expressions, and no language at all.
Claimed ==
  /\ enc # "any"
  /\ enc = "URL" => Percent \notin Seqs!Range(chars)
  /\ enc = "JSON" => \A c \in Seqs!Range(chars) : ~Control(c)
  /\ enc = "HTML" => 226 \notin Seqs!Range(chars) /\ src = Whole
  /\ enc = "regex" => RegexMissed \cap Seqs!Range(chars) = {}

----------------------------------------------------------------------------
(* Properties *)

\* What an encoder wrote reads back as its source, for every source of several
\* special characters side by side, escapes in it included.
ReadsBack == ret = "str" /\ ~lost /\ Claimed => Read(out) = Meant

\* Whatever the heap refuses, the string (as far as its length goes) of an encoder
\* that appends each escape in one call reads as some of the source's characters,
\* in their order: an escape is there or it is not.
NothingInvented ==
  enc \in {"XML", "URL", "JSON", "HTML"} /\ Claimed => PartOf(Read(out), Meant)

\* No encoder looks beyond the byte that ends the source.  STR_utf8toHTML answers
\* NULL for a source that ends within a character, and for no other: not for bytes
\* that begin no character, and not for those of a long character at the very end.
CutIsTold ==
  /\ pos \in 1..(Len(src) + 1)
  /\ ret # "none" => (ret = "NULL" <=> EndsCut)
=============================================================================
