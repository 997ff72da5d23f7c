------------------------------- MODULE Lines -------------------------------
(***************************************************************************)
(* What vcalendar.c makes of a line behind its keyword: vcal2utc's zone    *)
(* and time, fetchPerson and ATND_constructor, and unescape.  A line is a  *)
(* sequence of characters and of words that are matched as a whole; "time" *)
(* is one that strptime takes.                                             *)
(***************************************************************************)
EXTENDS Integers, SequencesExt, Walks

CONSTANTS
  NameSize,       \* 63, the characters of a name sscanf stores
  MailSize        \* 127, the same of an address

ASSUME SizeAssumption == {NameSize, MailSize} \subseteq Nat \ {0}

\* NULL, or -1: the line is no good.
Nothing == <<>>

\* The rest of s behind n characters, and behind the first `word' (strstr).
Rest(s, n)      == SubSeq(s, n + 1, Len(s))
Found(s, word)  == {k \in 0..Len(s) : IsPrefix(word, Rest(s, k))}
AfterWord(s, word) == Rest(s, Min(Found(s, word)) + Len(word))

----------------------------------------------------------------------------
(* Times: vcal2utc                                                         *)

\* Fault variant: the name of a zone has no colon in it.
TimeStr_FirstColon(src) == IF Found(src, <<":">>) = {} THEN Nothing ELSE AfterWord(src, <<":">>)

\* A zone's name in quotes may have colons in it.
TimeStr(src) ==
  LET colon == IF "quote" \in Range(src) THEN <<"quote", ":">> ELSE <<":">>
  IN  IF Found(src, colon) = {} THEN Nothing ELSE AfterWord(src, colon)

\* The first row of the table that the line begins with says the zone, unless
\* the time strptime made out is followed by Z.  Case does not count: a letter
\* stands for both.
ZoneOf(src, table) ==
  LET rows == {i \in DOMAIN table : IsPrefix(table[i].ms, src)}
  IN  IF rows = {} THEN Nothing ELSE <<table[Min(rows)].posix>>

vcal2utc(src, table) ==
  LET str == TimeStr(src) IN
  IF str = Nothing \/ ~IsPrefix(<<"time">>, str) THEN Nothing
  ELSE IF IsPrefix(<<"time", "Z">>, str) THEN <<"UTC">> ELSE ZoneOf(src, table)

----------------------------------------------------------------------------
(* People: sscanf's formats.  A conversion takes as many characters as it  *)
(* may, at least one; what is left must begin with what comes next.        *)

Run(s, max, Stops) ==
  Min({max} \cup {k \in 0..Len(s) : k = Len(s) \/ s[k + 1] \in Stops})

\* %127s: the blanks before it go.
Mail(s) ==
  LET word == Rest(s, Run(s, Len(s), Range(s) \ {" "}))
  IN  SubSeq(word, 1, Run(word, MailSize, {" "}))

\* Behind a name, what the format wants between it and the address.
Scan(str, Stops, between) ==
  LET n == Run(str, NameSize, Stops)
  IN  IF n > 0 /\ IsPrefix(between, Rest(str, n)) /\ Mail(Rest(str, n + Len(between))) # <<>>
      THEN <<SubSeq(str, 1, n), Mail(Rest(str, n + Len(between)))>> ELSE Nothing

Plain(str, mailto) == Scan(str, {":"}, <<":", mailto, ":">>)

\* ;SENT-BY="%*[^"]": what is in the quotes is at least one character.
SentBy(str, mailto) ==
  LET behind == Rest(str, Run(str, NameSize, {";"}) + 3)
      deputy == SubSeq(behind, 1, Run(behind, Len(behind), {"quote"}))
  IN  IF deputy = <<>> THEN Nothing
      ELSE Scan(str, {";"}, <<";", "SENT-BY=", "quote">> \o deputy \o <<"quote", ":", mailto, ":">>)

FirstOf(answers) ==
  LET good == {i \in DOMAIN answers : answers[i] # Nothing}
  IN  IF good = {} THEN Nothing ELSE answers[Min(good)]

fetchPerson(src) ==
  IF Found(src, <<"CN=">>) = {} THEN Nothing
  ELSE LET str == AfterWord(src, <<"CN=">>) IN
       FirstOf(<<Plain(str, "MAILTO"), Plain(str, "mailto"), SentBy(str, "MAILTO"), SentBy(str, "mailto")>>)

\* An attendee has no deputy, and may be required.
ATND_constructor(src) ==
  IF Found(src, <<"CN=">>) = {} THEN Nothing
  ELSE LET str == AfterWord(src, <<"CN=">>)
           read == FirstOf(<<Plain(str, "MAILTO"), Plain(str, "mailto")>>)
       IN  IF read = Nothing THEN Nothing
           ELSE read \o <<[required |-> "REQ-PARTICIPANT" \in Range(src)]>>

----------------------------------------------------------------------------
(* Texts                                                                   *)

\* What an escaped character stands for: a new line is indented.
Unescaped(c) == CASE c = "n" -> <<"newline", "tab">> [] c = "t" -> <<"tab">> [] OTHER -> <<c>>

\* A backslash at the very end stands for itself.
unescape(src) ==
  Walk([i \in DOMAIN src |->
    IF i < Len(src) /\ src[i] = "\\" THEN [n |-> 2, text |-> Unescaped(src[i + 1])]
    ELSE [n |-> 1, text |-> <<src[i]>>]])
=============================================================================
