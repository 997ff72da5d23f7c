-------------------------------- MODULE Util --------------------------------
(***************************************************************************)
(* util.c's functions of dates, times of day and bits, and vcalendar.c's   *)
(* that make out a line, one call at a time: what is asked, and what may   *)
(* be answered.                                                            *)
(***************************************************************************)
EXTENDS Dates, DayTime, BitStrings, Lines

CONSTANTS
  Days,           \* the Julian days that are asked about
  Zone, From,     \* the zones and the moments secs2tod is asked in and from
  Char,           \* the characters of names and texts
  Table,          \* the tables of names
  Word,           \* the words, as sets of bits
  Text,           \* the texts str2bits is given
  Bytes,          \* the bytes to be shown in hexadecimal
  ZoneName,       \* what may stand behind TZID=, listed or not
  ZoneTable,      \* tables of zones
  Written,        \* people as a calendar has them, and texts
  Prose,
  Unanswered

\* The names in a table differ and fit str2bits's symbols; none has a bar in it, or
\* begins with a space.
ASSUME TableAssumption ==
  \A t \in Table :
    /\ t \in Seq([name : Seq(Char), bits : SUBSET Nat])
    /\ \A i, j \in DOMAIN t : t[i].name = t[j].name => i = j
    /\ \A i \in DOMAIN t :
         Len(t[i].name) \in 1..MaxName /\ t[i].name[1] # Space /\ Bar \notin Range(t[i].name)

\* Twice the number of bytes is an unsigned.
ASSUME TextsAssumption ==
  /\ {Bar, Space} \subseteq Char /\ Text \subseteq Seq(Char)
  /\ \A b \in Bytes : b \in Seq(0..255) /\ 2 * Len(b) < UintMod

\* Days and moments are numbers, and a zone's clock changes once at the most.
ASSUME TimesAssumption ==
  Days \subseteq Nat /\ From \subseteq Int /\ Zone \subseteq [at : Int, after : BOOLEAN]

(* The lines as a calendar has them: a zone's name is in quotes, or ends   *)
(* with the colon before the time; what is behind a person's name stands   *)
(* for a deputy; a new line, comma or backslash in a text is escaped.      *)

TimeLine(ms, utc) ==
  ms \o (IF ms # <<>> /\ ms[1] = "quote" THEN <<":">> ELSE <<>>)
    \o <<"time">> \o (IF utc THEN <<"Z">> ELSE <<>>)

PersonLine(p) ==
  p.role \o <<"CN=">> \o p.name
    \o (IF p.deputy = <<>> THEN <<>> ELSE <<";", "SENT-BY=", "quote">> \o p.deputy \o <<"quote">>)
    \o <<":", p.mailto, ":">> \o p.mail

Escaped(prose) ==
  FlattenSeq([i \in DOMAIN prose |->
    CASE prose[i] = "newline" -> <<"\\", "n">>
      [] prose[i] \in {"\\", ","} -> <<"\\", prose[i]>>
      [] OTHER -> <<prose[i]>>])

\* A zone's name ends with its only colon; or is in quotes, has none in it, and
\* does not begin with a colon.
IsZoneName(ms) ==
  /\ ms \in Seq(STRING) /\ Len(ms) >= 1
  /\ \/ ms[Len(ms)] = ":" /\ \A i \in 1..(Len(ms) - 1) : ms[i] \notin {":", "quote"}
     \/ /\ Len(ms) >= 2 /\ ms[1] = "quote" /\ ms[Len(ms)] = "quote" /\ ms[2] # ":"
        /\ \A i \in 2..(Len(ms) - 1) : ms[i] # "quote"

\* A role is no name, and what ends a name, a deputy or an address is not in it;
\* a deputy is an address, behind the one colon in it.
IsPerson(p) ==
  /\ {p.role, p.name, p.deputy, p.mail} \subseteq Seq(STRING) /\ p.mailto \in {"MAILTO", "mailto"}
  /\ "CN=" \notin Range(p.role)
  /\ p.name # <<>> /\ \A i \in DOMAIN p.name : p.name[i] \notin {":", ";"}
  /\ p.mail # <<>> /\ " " \notin Range(p.mail)
  /\ p.deputy # <<>> =>
       /\ Len(p.deputy) >= 2 /\ p.deputy[1] # ":" /\ p.deputy[2] = ":"
       /\ "quote" \notin Range(p.deputy) /\ \A i \in 3..Len(p.deputy) : p.deputy[i] # ":"

ASSUME LinesAssumption ==
  /\ \A p \in Written : IsPerson(p)
  /\ \A ms \in ZoneName : IsZoneName(ms)
  /\ \A t \in ZoneTable : \A i \in DOMAIN t : IsZoneName(t[i].ms)
  /\ Prose \subseteq Seq(STRING)

----------------------------------------------------------------------------
VARIABLES ask, answer
vars == <<ask, answer>>

Asks ==
  [fn : {"julian_2_gregorian"}, day : Days]
    \cup [fn : {"secs2tod"}, zone : Zone, from : From, tod : 0..(Day - 1)]
    \cup [fn : {"bits2str"}, bits : Word, table : Table]
    \cup [fn : {"str2bits"}, str : Text, table : Table]
    \cup [fn : {"strbits"}, bits : Word, nBytes : {1, 2}]
    \cup [fn : {"bytes_2_hexStr"}, src : Bytes, rtn_sz : 0..6]
    \cup [fn : {"vcal2utc"}, ms : ZoneName, utc : BOOLEAN, zones : ZoneTable]
    \cup [fn : {"fetchPerson", "ATND_constructor"}, person : Written]
    \cup [fn : {"unescape"}, prose : Prose]

Init == ask \in Asks /\ answer = Unanswered

Answer ==
  /\ answer = Unanswered
  /\ \/ ask.fn = "julian_2_gregorian" /\ answer' = julian_2_gregorian(ask.day)
     \/ ask.fn = "secs2tod" /\ answer' \in Answers(ask.zone, ask.from, ask.tod)
     \/ ask.fn = "bits2str" /\ answer' = bits2str(ask.bits, ask.table)
     \/ ask.fn = "str2bits" /\ answer' = str2bits(ask.str, ask.table)
     \/ ask.fn = "strbits" /\ answer' = strbits(ask.bits, ask.nBytes)
     \/ ask.fn = "bytes_2_hexStr" /\ answer' = bytes_2_hexStr(ask.rtn_sz, ask.src)
     \/ ask.fn = "vcal2utc" /\ answer' = vcal2utc(TimeLine(ask.ms, ask.utc), ask.zones)
     \/ ask.fn = "fetchPerson" /\ answer' = fetchPerson(PersonLine(ask.person))
     \/ ask.fn = "ATND_constructor" /\ answer' = ATND_constructor(PersonLine(ask.person))
     \/ ask.fn = "unescape" /\ answer' = unescape(Escaped(ask.prose))
  /\ UNCHANGED ask

Returned == answer # Unanswered /\ UNCHANGED vars

Next == Answer \/ Returned
Spec == Init /\ [][Next]_vars

----------------------------------------------------------------------------
(* Properties *)

Answered(fn) == ask.fn = fn /\ answer # Unanswered

\* The days are those of the Gregorian calendar, from its first on, and the way
\* back leads to the same day (util.c:1036-1066).
DatesRight ==
  Answered("julian_2_gregorian") =>
    /\ ask.day = FirstDay => answer = FirstDate
    /\ julian_2_gregorian(ask.day + 1) = NextDate(answer)
    /\ gregorian_2_julian(answer.year, answer.month, answer.day) = ask.day

\* While the clock is not changed, today or tomorrow, secs2tod says how long it
\* is until the clock shows the time (util.c:844-846).
TodIsNext ==
  Answered("secs2tod") /\ Steady(ask.zone, ask.from) =>
    answer = Remaining(ask.zone, ask.from, ask.tod)

\* It always finds that time (util.c:879: "should be impossible to get here").
TodIsFound == Answered("secs2tod") => answer # NoTime

\* The parts of a text between its bars, behind which there may be spaces.
Bars(str)     == {k \in DOMAIN str : str[k] = Bar}
End(str, k)   == Min({b \in Bars(str) : b > k} \cup {Len(str) + 1}) - 1
Begin(str, k) == IF k = 0 THEN 0 ELSE SkipSpace(str, k)
Pieces(str)   == {SubSeq(str, Begin(str, k) + 1, End(str, k)) : k \in {0} \cup Bars(str)}

\* bits2str names exactly the bits that are set, as str2bits reads them when it
\* takes as many symbols; whatever it is given, str2bits does not fail without an
\* unknown symbol, and answers 0 with the bits of all symbols when they are not too
\* many, too long or empty (util.c:220-336).  The digits of bytes_2_hexStr are the
\* bytes', and have room with their terminator.
TextsReadBack ==
  /\ Answered("bits2str") =>
       LET shown == Shown(ask.bits, ask.table) IN
       Cardinality(shown) <= MaxSymbols =>
         str2bits(answer, ask.table) = [rtn |-> 0, bits |-> UNION {ask.table[i].bits : i \in shown}]
  /\ Answered("str2bits") =>
       LET known == {p \in Pieces(ask.str) : p \in NamesOf(ask.table)} IN
       /\ answer.rtn = -1 => Pieces(ask.str) # known
       /\ Pieces(ask.str) = known /\ Cardinality(Bars(ask.str)) < MaxSymbols =>
            answer = [rtn |-> 0, bits |-> UNION {BitsNamed(p, ask.table) : p \in known}]
  /\ Answered("bytes_2_hexStr") /\ answer # <<-1>> =>
       /\ Len(answer) < ask.rtn_sz
       /\ ask.src = [i \in 1..(Len(answer) \div 2) |-> 16 * answer[2*i - 1] + answer[2*i]]

\* A time is read in the zone its line names, among the listed ones, and in no
\* other, though the code only compares beginnings; Z is for UTC.
TimesRead ==
  Answered("vcal2utc") =>
    LET rows == {i \in DOMAIN ask.zones : ask.zones[i].ms = ask.ms} IN
    answer = CASE ask.utc -> <<"UTC">>
               [] ~ask.utc /\ rows = {} -> Nothing
               [] ~ask.utc /\ rows # {} -> <<ask.zones[Min(rows)].posix>>

\* A person is read with the name and address that the line gives, or refused
\* when the name is too long, or an attendee has a deputy.
PeopleRead ==
  LET p     == ask.person
      known == Len(p.name) <= NameSize /\ (ask.fn = "fetchPerson" \/ p.deputy = <<>>)
      mail  == SubSeq(p.mail, 1, Min({MailSize, Len(p.mail)}))
  IN  Answered("fetchPerson") \/ Answered("ATND_constructor") =>
        IF known THEN answer[1] = p.name /\ answer[2] = mail ELSE answer = Nothing

\* A text is what was escaped, its new lines indented.
TextsUnescaped ==
  Answered("unescape") =>
    answer = FlattenSeq([i \in DOMAIN ask.prose |->
               IF ask.prose[i] = "newline" THEN <<"newline", "tab">> ELSE <<ask.prose[i]>>])

\* A line is taken for what it says (vcalendar.c:374-559, atnd.c:8-41).
LinesRead == TimesRead /\ PeopleRead /\ TextsUnescaped
=============================================================================
