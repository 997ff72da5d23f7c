--------------------------- MODULE ProgramProofs ---------------------------
(***************************************************************************)
(* What main() reports of a calendar is true, all of it or nothing, for    *)
(* every set of lines, table of zones, value of TZ and order of names.     *)
(* Reading and processing together: of every file, whatever is in it and   *)
(* whichever calls fail, main() keeps to its buffer and loses no letter;   *)
(* it is both a reader and a calendar, so that what is proved of them      *)
(* holds of it; and a file whose lines fit is unfolded into its logical    *)
(* lines, so that what is reported is what the file says.                  *)
(***************************************************************************)
EXTENDS Program, FiniteSetTheorems, SequenceTheorems, TLAPS

----------------------------------------------------------------------------
(* What is kept of the lines *)

Converting == {"convert", "mktime", "restore", "store"}

\* How many lines have been dealt with.
LinesDone == IF pc \in Converting THEN Len(seen) - 1 ELSE Len(seen)

\* What is to be kept of a line.
Keeps(l) == IF l.kind \in Times THEN Meant(l) ELSE l.value

\* Of the first n lines of q, the i-th is the last of its kind.
IsLast(q, i, k, n) ==
  i \in 1..n /\ q[i].kind = k /\ \A j \in 1..n : j > i => q[j].kind # k

\* What is kept of kind k is v: what the last such line says, or nothing.
Kept(v, q, k, n) ==
  \/ v = Bad /\ \A i \in 1..n : q[i].kind # k
  \/ v # Bad /\ \E i \in 1..n : IsLast(q, i, k, n) /\ v = Keeps(q[i])

\* Every attendee line is in the list.
Listed(list, q, n) ==
  \A i \in 1..n : q[i].kind = "attendee" =>
    \E j \in DOMAIN list : list[j] = <<q[i].value, i>>

AllReadable(q, n) == \A i \in 1..n : Readable(q[i])

\* The first n lines were readable, and what they say is there.
Remembered(n) ==
  /\ \A k \in Times \cup Texts : Kept(S[k], seen, k, n)
  /\ AllReadable(seen, n)
  /\ Listed(attendees, seen, n)

\* The list has attendee lines, each at most once.
IsAttendee(a, q) ==
  a[2] \in 1..Len(q) /\ q[a[2]].kind = "attendee" /\ a[1] = q[a[2]].value
Attending(list, q) ==
  /\ \A j \in DOMAIN list : IsAttendee(list[j], q)
  /\ \A i, j \in DOMAIN list : list[i] = list[j] => i = j

InOrder(list) ==
  \A i, j \in DOMAIN list : i < j => NameRank[list[i][1]] <= NameRank[list[j][1]]

\* q2 is q with the line l behind it.
Grown(q2, q, l) ==
  /\ q2 \in Seq(Line) /\ Len(q2) = Len(q) + 1 /\ Len(q) \in Nat
  /\ q2[Len(q) + 1] = l /\ l \in Line
  /\ \A i \in 1..Len(q) : q2[i] = q[i]

----------------------------------------------------------------------------
\* Taking a line is growing.
LEMMA TakesGrows ==
  ASSUME NEW l \in Line, seen \in Seq(Line), Takes(l)
  PROVE  Grown(seen', seen, l) /\ Len(seen') <= MaxLines
<1>1. Len(seen) \in Nat /\ MaxLines \in Nat /\ Len(seen) < MaxLines
  BY LineAssumption DEF Takes
<1>2. seen' = Append(seen, l)
  BY DEF Takes
<1>3. seen' \in Seq(Line) /\ Len(seen') = Len(seen) + 1
  BY <1>2
<1>4. seen'[Len(seen) + 1] = l /\ \A i \in 1..Len(seen) : seen'[i] = seen[i]
  BY <1>2
<1> QED
  BY <1>1, <1>3, <1>4 DEF Grown

\* The line at the end of a longer calendar is the one that is kept.
LEMMA KeptNew ==
  ASSUME NEW q, NEW n \in Nat, NEW k, NEW v,
         q[n+1].kind = k, v # Bad, v = Keeps(q[n+1])
  PROVE  Kept(v, q, k, n+1)
<1>1. IsLast(q, n+1, k, n+1)
  BY DEF IsLast
<1> QED
  BY <1>1 DEF Kept

\* A line of another kind changes nothing, and neither does no line.
LEMMA KeptOld ==
  ASSUME NEW q, NEW q2, NEW n \in Nat, NEW m \in {n, n+1}, NEW k, NEW v,
         Kept(v, q, k, n), \A i \in 1..n : q2[i] = q[i],
         m = n+1 => q2[n+1].kind # k
  PROVE  Kept(v, q2, k, m)
<1>0. \A i \in 1..m : i \in 1..n \/ (i = n+1 /\ m = n+1)
  OBVIOUS
<1>1. CASE v = Bad /\ \A i \in 1..n : q[i].kind # k
  BY <1>0, <1>1 DEF Kept
<1>2. CASE v # Bad /\ \E i \in 1..n : IsLast(q, i, k, n) /\ v = Keeps(q[i])
  <2>1. PICK i \in 1..n : IsLast(q, i, k, n) /\ v = Keeps(q[i])
    BY <1>2
  <2>2. i \in 1..m /\ q2[i] = q[i]
    OBVIOUS
  <2>3. IsLast(q2, i, k, m)
    BY <1>0, <2>1, <2>2 DEF IsLast
  <2> QED
    BY <1>2, <2>1, <2>2, <2>3 DEF Kept
<1> QED
  BY <1>1, <1>2 DEF Kept

\* The last line of a kind is what LastOf says.
LEMMA LastIsLast ==
  ASSUME NEW i, NEW k, seen \in Seq(Line), IsLast(seen, i, k, Len(seen))
  PROVE  Given(k) # {} /\ LastOf(k) = seen[i]
<1>1. Len(seen) \in Nat /\ DOMAIN seen = 1..Len(seen)
  OBVIOUS
<1>2. i \in Given(k) /\ \A j \in Given(k) : j <= i
  BY <1>1 DEF Given, IsLast
<1>3. \A h \in Given(k) : (\A j \in Given(k) : j <= h) => h = i
  BY <1>1, <1>2 DEF Given
<1>4. (CHOOSE h \in Given(k) : \A j \in Given(k) : j <= h) = i
  BY <1>2, <1>3
<1> QED
  BY <1>2, <1>4 DEF LastOf

\* What makes a line readable, kind by kind.
LEMMA ReadableIs ==
  ASSUME NEW l
  PROVE  /\ l.kind \in Times => (Readable(l) <=> /\ l.wall # Bad /\ l.zone \in DOMAIN Xref \cup {Utc}
                                                 /\ Meant(l) \notin MinusOne)
         /\ l.kind \in Texts \cup {"attendee"} => (Readable(l) <=> l.value # Bad)
         /\ l.kind = "other" => Readable(l)
<1>1. l.kind \in Times => l.kind \notin Texts \cup {"attendee"}
  BY DEF Times, Texts
<1>2. l.kind = "other" => l.kind \notin Times /\ l.kind \notin Texts \cup {"attendee"}
  BY DEF Times, Texts
<1>3. CASE l.kind \in Times
  BY <1>1, <1>2, <1>3, Zenon DEF Readable
<1>4. CASE l.kind \in Texts \cup {"attendee"}
  BY <1>1, <1>2, <1>4, Zenon DEF Readable
<1>5. CASE l.kind = "other"
  BY <1>2, <1>5, Zenon DEF Readable
<1> QED
  BY <1>3, <1>4, <1>5

\* A time that is kept is a moment.
LEMMA MomentsAreGood ==
  ASSUME NEW l \in Line, l.kind \in Times, l.zone \in DOMAIN Xref \cup {Utc}
  PROVE  Meant(l) # Bad
<1>1. Utc \notin DOMAIN Xref
  BY ZoneAssumption
<1> QED
  BY <1>1, BadAssumption DEF Meant

----------------------------------------------------------------------------
(* The attendees *)

\* A line more, and its attendee: the list still has each once.
LEMMA AttendingGrows ==
  ASSUME NEW q, NEW q2, NEW l, Grown(q2, q, l),
         NEW list \in Seq(Atnd), Attending(list, q)
  PROVE  /\ Attending(list, q2)
         /\ l.kind = "attendee" =>
              Attending(Append(list, <<l.value, Len(q) + 1>>), q2)
<1>1. \A a : IsAttendee(a, q) => IsAttendee(a, q2) /\ a[2] # Len(q) + 1
  BY DEF IsAttendee, Grown
<1>2. Attending(list, q2)
  BY <1>1 DEF Attending
<1>3. ASSUME l.kind = "attendee"
      PROVE  Attending(Append(list, <<l.value, Len(q) + 1>>), q2)
  <2> DEFINE a == <<l.value, Len(q) + 1>>
             s == Append(list, a)
  <2>1. Len(list) \in Nat /\ DOMAIN list = 1..Len(list) /\ DOMAIN s = 1..(Len(list) + 1)
    OBVIOUS
  <2>2. s[Len(list) + 1] = a /\ \A i \in 1..Len(list) : s[i] = list[i]
    OBVIOUS
  <2>3. IsAttendee(a, q2) /\ a[2] = Len(q) + 1
    BY <1>3 DEF IsAttendee, Grown
  <2> HIDE DEF s, a
  <2>4. \A i \in 1..Len(list) : list[i] # a
    BY <1>1, <2>1, <2>3 DEF Attending
  <2>5. \A j \in DOMAIN s : j \in 1..Len(list) \/ j = Len(list) + 1
    BY <2>1
  <2>6. \A j \in DOMAIN s : IsAttendee(s[j], q2)
    BY <1>2, <2>1, <2>2, <2>3, <2>5 DEF Attending
  <2>7. \A i, j \in DOMAIN s : s[i] = s[j] => i = j
    BY <1>2, <2>1, <2>2, <2>4, <2>5 DEF Attending
  <2> QED
    BY <2>6, <2>7 DEF Attending, a, s
<1> QED
  BY <1>2, <1>3

\* What qsort leaves of a list without repetition: the same members, each
\* once, in the order of the names.
LEMMA SortedList ==
  ASSUME NEW s \in Seq(Atnd), \A i, j \in DOMAIN s : s[i] = s[j] => i = j,
         NEW t \in D!Qsort(s)
  PROVE  /\ t \in Seq(Atnd) /\ Len(t) = Len(s)
         /\ \A i \in DOMAIN t : \E j \in DOMAIN s : t[i] = s[j]
         /\ \A j \in DOMAIN s : \E i \in DOMAIN t : t[i] = s[j]
         /\ \A i, j \in DOMAIN t : t[i] = t[j] => i = j
         /\ InOrder(t)
<1> DEFINE Places(u, x) == {i \in DOMAIN u : u[i] = x}
<1>1. Len(s) \in Nat /\ DOMAIN s = 1..Len(s) /\ \A j \in DOMAIN s : s[j] \in Atnd
  OBVIOUS
<1>2. t \in [1..Len(s) -> D!S!Range(s)] /\ D!Ordered(t)
      /\ \A x \in D!S!Range(s) : Cardinality(Places(t, x)) = Cardinality(Places(s, x))
  <2>1. /\ t \in [1..Len(s) -> D!S!Range(s)] /\ D!Ordered(t)
        /\ \A x \in D!S!Range(s) : D!Copies(t, x) = D!Copies(s, x)
    BY DEF D!Qsort
  <2>2. \A u, x : D!Copies(u, x) = Cardinality(Places(u, x))
    BY DEF D!Copies, D!Cardinality, Cardinality
  <2> QED
    BY <2>1, <2>2
<1>3. \A x : x \in D!S!Range(s) <=> \E j \in DOMAIN s : s[j] = x
  BY DEF D!S!Range
<1>4. DOMAIN t = 1..Len(s) /\ \A i \in DOMAIN t : t[i] \in D!S!Range(s) /\ t[i] \in Atnd
  BY <1>1, <1>2, <1>3
<1>5. t \in Seq(Atnd) /\ Len(t) = Len(s)
  <2>1. t \in [1..Len(s) -> Atnd]
    BY <1>2, <1>4
  <2> QED
    BY <1>1, <2>1
<1>6. \A x \in D!S!Range(s) : \E i \in DOMAIN t : Places(t, x) = {i}
  <2> SUFFICES ASSUME NEW x \in D!S!Range(s) PROVE \E i \in DOMAIN t : Places(t, x) = {i}
    OBVIOUS
  <2>1. PICK j \in DOMAIN s : s[j] = x
    BY <1>3
  <2>2. Places(s, x) = {j}
    BY <2>1
  <2>3. Cardinality(Places(t, x)) = 1
    BY <1>2, <2>2, FS_Singleton
  <2>4. IsFiniteSet(Places(t, x))
    <3>1. IsFiniteSet(1..Len(s))
      BY <1>1, FS_Interval
    <3>2. Places(t, x) \in SUBSET (1..Len(s))
      BY <1>4
    <3> QED
      BY <3>1, <3>2, FS_Subset
  <2>5. PICK i : Places(t, x) = {i}
    BY <2>3, <2>4, FS_Singleton
  <2>6. i \in Places(t, x)
    BY <2>5
  <2> QED
    BY <2>5, <2>6
<1>7. \A i, j \in DOMAIN t : t[i] = t[j] => i = j
  <2> SUFFICES ASSUME NEW i \in DOMAIN t, NEW j \in DOMAIN t, t[i] = t[j] PROVE i = j
    OBVIOUS
  <2>1. i \in Places(t, t[i]) /\ j \in Places(t, t[i])
    OBVIOUS
  <2> QED
    BY <1>4, <1>6, <2>1
<1>8. \A j \in DOMAIN s : \E i \in DOMAIN t : t[i] = s[j]
  <2> SUFFICES ASSUME NEW j \in DOMAIN s PROVE \E i \in DOMAIN t : t[i] = s[j]
    OBVIOUS
  <2>1. PICK i \in DOMAIN t : Places(t, s[j]) = {i}
    BY <1>3, <1>6
  <2>2. i \in Places(t, s[j])
    BY <2>1
  <2> QED
    BY <2>2
<1>9. InOrder(t)
  BY <1>2, <1>4 DEF D!Ordered, InOrder
<1> QED
  BY <1>3, <1>4, <1>5, <1>7, <1>8, <1>9

----------------------------------------------------------------------------
(* The report *)

\* The entry of a kind of line that was kept.
Entry(k) ==
  IF k \in Times THEN [section |-> k, value |-> Local(S[k])]
  ELSE IF k = "summary" THEN
    [section |-> k, value |-> S[k],
     asof |-> IF S["sched"] = Bad THEN Bad ELSE Local(S["sched"])]
  ELSE [section |-> k, value |-> S[k]]

\* The entries of the first n sections, the attendees' apart.
Entries(n) ==
  {Entry(Sections[m]) : m \in {j \in 1..6 : j <= n /\ S[Sections[j]] # Bad}}
AttendeeEntry ==
  IF attendees = <<>> THEN {} ELSE {[section |-> "attendee", value |-> attendees]}

\* The output has entries of E, and all of them.
Shows(o, E) == o \in Seq(E) /\ \A e \in E : \E i \in DOMAIN o : o[i] = e

LEMMA ShowsMore ==
  ASSUME NEW E, NEW o, Shows(o, E), NEW e
  PROVE  Shows(Append(o, e), E \cup {e}) /\ Shows(o \o <<e>>, E \cup {e})
<1> DEFINE F == E \cup {e}
           p == Append(o, e)
<1>1. o \in Seq(F) /\ Len(o) \in Nat /\ DOMAIN o = 1..Len(o)
  <2>1. o \in Seq(E)
    BY DEF Shows
  <2> QED
    BY <2>1
<1>2. p \in Seq(F) /\ Len(p) = Len(o) + 1 /\ DOMAIN p = 1..(Len(o) + 1)
      /\ p[Len(o) + 1] = e /\ \A i \in 1..Len(o) : p[i] = o[i]
  BY <1>1
<1>3. \A f \in E : \E i \in DOMAIN o : o[i] = f
  BY DEF Shows
<1>4. o \o <<e>> = p
  BY <1>1, AppendIsConcat
<1> HIDE DEF p
<1>5. \A f \in F : \E i \in DOMAIN p : p[i] = f
  BY <1>1, <1>2, <1>3
<1>6. Shows(p, F)
  BY <1>2, <1>5 DEF Shows
<1> QED
  BY <1>4, <1>6 DEF p

LEMMA SectionsAre ==
  /\ \A m \in 1..6 : Sections[m] \in (Times \cup Texts) \ {"sched"}
  /\ \A k \in (Times \cup Texts) \ {"sched"} : \E m \in 1..6 : Sections[m] = k
<1>1. Sections[1] = "start" /\ Sections[2] = "end" /\ Sections[3] = "summary"
      /\ Sections[4] = "location" /\ Sections[5] = "organizer" /\ Sections[6] = "description"
  BY DEF Sections
<1>2. 1..6 = {1, 2, 3, 4, 5, 6}
  OBVIOUS
<1> QED
  BY <1>1, <1>2 DEF Times, Texts

LEMMA EntriesGrow ==
  ASSUME NEW n \in 0..5, Shows(out, Entries(n))
  PROVE  Shows(out \o Printed(Sections[n+1]), Entries(n+1))
<1> DEFINE k == Sections[n+1]
           J(m) == {j \in 1..6 : j <= m /\ S[Sections[j]] # Bad}
<1>1. k \in (Times \cup Texts) \ {"sched"}
  BY SectionsAre
<1>2. CASE S[k] = Bad
  <2>1. J(n+1) = J(n)
    BY <1>2
  <2>2. Entries(n+1) = Entries(n)
    BY <2>1 DEF Entries
  <2>3. out \in Seq(Entries(n))
    BY DEF Shows
  <2>4. Printed(k) = <<>>
    BY <1>2 DEF Printed
  <2>5. out \o <<>> = out
    BY <2>3, ConcatEmptySeq
  <2> QED
    BY <2>2, <2>4, <2>5
<1>3. CASE S[k] # Bad
  <2>1. J(n+1) = J(n) \cup {n+1}
    BY <1>3
  <2>2. Entries(n+1) = Entries(n) \cup {Entry(k)}
    BY <2>1 DEF Entries
  <2>3. Printed(k) = <<Entry(k)>>
    BY <1>3 DEF Printed, Entry
  <2> QED
    BY <2>2, <2>3, ShowsMore
<1> QED
  BY <1>2, <1>3

LEMMA EntriesSame ==
  ASSUME S' = S, TZ' = TZ
  PROVE  \A n : Entries(n)' = Entries(n)
<1>1. \A k : Entry(k)' = Entry(k)
  BY DEF Entry, Local
<1> QED
  BY <1>1 DEF Entries

LEMMA NothingToShow == Shows(<<>>, Entries(0))
<1>1. Entries(0) = {}
  BY DEF Entries
<1> QED
  BY <1>1 DEF Shows

----------------------------------------------------------------------------
(* The inductive invariant *)

\* Before the lines there are none, and no vector.
Beginning ==
  /\ pc \in {"start", "open"} => seen = <<>>
  /\ pc = "start" => vecLife = "raw" /\ ~starved

\* As long as the heap refuses nothing, every line dealt with is remembered.
Memory ==
  ~starved =>
    /\ pc # "start" => vecLife = "live"
    /\ pc \notin {"failure", "crashed"} => Remembered(LinesDone)

\* How far the conversion of a time is.
Conversion ==
  /\ pc \in {"mktime", "restore"} =>
       Line0.zone \in DOMAIN Xref /\ (TZ_orig = TZ0 \/ starved)
  /\ pc = "mktime" => TZ = Xref[Line0.zone] \/ starved
  /\ pc = "store" => Line0.zone \in DOMAIN Xref \cup {Utc}
  /\ pc \in {"restore", "store"} => rtn = Meant(Line0) \/ starved

Attended ==
  /\ Attending(attendees, seen)
  /\ printed = 7 /\ ~starved => InOrder(attendees)

\* What is printed are the entries of the sections that are done.
Reported ==
  /\ pc \notin {"report", "success", "aborted"} => out = <<>> /\ printed = 0
  /\ pc \in {"report", "aborted"} => Shows(out, Entries(printed))
  /\ pc = "success" =>
       \/ printed = 0 /\ out = <<[section |-> "version"]>> /\ seen = <<>>
       \/ printed = 7 /\ Shows(out, Entries(7) \cup AttendeeEntry)

CalInv ==
  /\ TypeOK /\ DOMAIN S = Times \cup Texts
  /\ Beginning /\ Memory /\ Conversion /\ Attended /\ Reported
  /\ ZoneRestored /\ FailureExplained

----------------------------------------------------------------------------
\* What is remembered does not depend on the rest of the state.
LEMMA RememberedSame ==
  ASSUME S' = S, seen' = seen, attendees' = attendees
  PROVE  \A n : Remembered(n)' <=> Remembered(n)
  BY DEF Remembered

LEMMA InitCal == Init => CalInv
<1> SUFFICES ASSUME Init PROVE CalInv
  OBVIOUS
<1>1. /\ pc = "start" /\ seen = <<>> /\ attendees = <<>> /\ vecLife = "raw"
      /\ out = <<>> /\ printed = 0 /\ told = FALSE /\ starved = FALSE /\ TZ = TZ0
      /\ S = [k \in Times \cup Texts |-> Bad]
  BY DEF Init, D!Init
<1>2. Len(seen) = 0 /\ MaxLines \in Nat
  BY <1>1, LineAssumption
<1>3. TypeOK
  <2>1. seen \in Seq(Line) /\ attendees \in Seq(Atnd) /\ Len(seen) <= MaxLines
    BY <1>1, <1>2
  <2>2. pc \notin {"convert", "mktime", "restore", "store"}
    BY <1>1
  <2>3. told \in BOOLEAN /\ starved \in BOOLEAN
    BY <1>1
  <2>4. printed \in 0..7 /\ vecLife \in {"raw", "live"}
    BY <1>1
  <2>5. pc \in Ended \cup {"start", "open", "lines", "convert", "mktime", "restore", "store", "report"}
    BY <1>1
  <2> QED
    BY <2>1, <2>2, <2>3, <2>4, <2>5 DEF TypeOK
<1>4. Remembered(LinesDone)
  <2>1. LinesDone = 0
    BY <1>1, <1>2 DEF LinesDone, Converting
  <2>2. \A k \in Times \cup Texts : Kept(S[k], seen, k, 0)
    BY <1>1 DEF Kept
  <2> QED
    BY <2>1, <2>2 DEF Remembered, AllReadable, Listed
<1>5. Attended
  BY <1>1 DEF Attended, Attending
<1> QED
  BY <1>1, <1>3, <1>4, <1>5
  DEF CalInv, Beginning, Memory, Conversion, Reported, ZoneRestored, FailureExplained

----------------------------------------------------------------------------
(* Before the lines, and a call that fails *)

LEMMA ConstructCal == CalInv /\ Construct => CalInv'
<1> SUFFICES ASSUME CalInv, Construct PROVE CalInv'
  OBVIOUS
<1>1. /\ pc = "start" /\ pc' = "open" /\ vecLife = "raw" /\ seen = <<>>
      /\ vecLife' \in {"raw", "live"} /\ attendees' = <<>>
      /\ starved' = (vecLife' = "raw")
      /\ UNCHANGED <<env, seen, S, out, printed, told, TZ0>>
  BY DEF CalInv, Beginning, Construct, D!Construct
<1>2. TypeOK'
  BY <1>1 DEF CalInv, TypeOK
<1>3. Remembered(LinesDone)'
  <2>1. Remembered(0) /\ Len(seen) = 0
    BY <1>1 DEF CalInv, Beginning, Memory, LinesDone, Converting
  <2>2. LinesDone' = 0
    BY <1>1, <2>1 DEF LinesDone, Converting
  <2>3. Remembered(0)'
    BY <1>1, <2>1 DEF Remembered, Listed
  <2> QED
    BY <2>2, <2>3 DEF Remembered
<1>4. Memory'
  BY <1>1, <1>3 DEF Memory
<1>5. Attended'
  BY <1>1 DEF Attended, Attending, CalInv, Reported
<1> QED
  BY <1>1, <1>2, <1>4, <1>5
  DEF CalInv, Beginning, Conversion, Reported, ZoneRestored, FailureExplained, env

LEMMA OpenCal == CalInv /\ Open => CalInv'
<1> SUFFICES ASSUME CalInv, Open PROVE CalInv'
  OBVIOUS
<1>1. /\ pc = "open" /\ pc' = "lines"
      /\ UNCHANGED <<TZ, TZ_orig, rtn, seen, S, attendees, vecLife, out, printed, told, starved, TZ0>>
  BY DEF Open, env, vec
<1>2. TypeOK'
  BY <1>1 DEF CalInv, TypeOK
<1>3. Memory'
  <2>1. LinesDone' = LinesDone
    BY <1>1 DEF LinesDone, Converting
  <2> QED
    BY <1>1, <2>1, RememberedSame DEF CalInv, Memory
<1>4. Attended'
  BY <1>1 DEF CalInv, Attended
<1> QED
  BY <1>1, <1>2, <1>3, <1>4
  DEF CalInv, Beginning, Conversion, Reported, ZoneRestored, FailureExplained

LEMMA VersionCal == CalInv /\ Version => CalInv'
<1> SUFFICES ASSUME CalInv, Version PROVE CalInv'
  OBVIOUS
<1>1. /\ pc = "open" /\ pc' = "success" /\ out' = <<[section |-> "version"]>>
      /\ UNCHANGED <<TZ, TZ_orig, rtn, seen, S, attendees, vecLife, printed, told, starved, TZ0>>
  BY DEF Version, env, vec
<1>2. TypeOK'
  BY <1>1 DEF CalInv, TypeOK, Ended
<1>3. Memory'
  <2>1. LinesDone' = LinesDone
    BY <1>1 DEF LinesDone, Converting
  <2> QED
    BY <1>1, <2>1, RememberedSame DEF CalInv, Memory
<1>4. Attended'
  BY <1>1 DEF CalInv, Attended
<1> QED
  BY <1>1, <1>2, <1>3, <1>4
  DEF CalInv, Beginning, Conversion, Reported, ZoneRestored, FailureExplained

LEMMA HelpCal == CalInv /\ Help => CalInv'
<1> SUFFICES ASSUME CalInv, Help PROVE CalInv'
  OBVIOUS
<1>1. /\ pc = "open" /\ pc' = "failure" /\ told'
      /\ UNCHANGED <<TZ, TZ_orig, rtn, seen, S, attendees, vecLife, out, printed, starved, TZ0>>
  BY DEF Help, env, vec
<1>2. TypeOK'
  <2>1. told' \in BOOLEAN
    BY DEF Help
  <2> QED
    BY <1>1, <2>1 DEF CalInv, TypeOK, Ended
<1>3. Memory' /\ Attended'
  BY <1>1 DEF CalInv, Memory, Attended
<1> QED
  BY <1>1, <1>2, <1>3
  DEF CalInv, Beginning, Conversion, Reported, ZoneRestored, FailureExplained

LEMMA EzFailsCal == CalInv /\ EzFails => CalInv'
<1> SUFFICES ASSUME CalInv, EzFails PROVE CalInv'
  OBVIOUS
<1>1. /\ pc \in {"open", "lines", "report"} /\ pc' = "aborted" /\ told'
      /\ UNCHANGED <<TZ, TZ_orig, rtn, seen, S, attendees, vecLife, out, printed, starved, TZ0>>
  BY DEF EzFails, env, vec
<1>2. TypeOK'
  <2>1. told' \in BOOLEAN
    BY DEF EzFails
  <2> QED
    BY <1>1, <2>1 DEF CalInv, TypeOK, Ended
<1>3. Memory'
  <2>1. LinesDone' = LinesDone
    BY <1>1 DEF LinesDone, Converting
  <2> QED
    BY <1>1, <2>1, RememberedSame DEF CalInv, Memory
<1>4. Attended'
  BY <1>1 DEF CalInv, Attended
<1>5. Reported'
  <2>1. Shows(out, Entries(printed))
    BY <1>1, NothingToShow DEF CalInv, Reported
  <2>2. Entries(printed)' = Entries(printed)
    BY <1>1, EntriesSame
  <2> QED
    BY <1>1, <2>1, <2>2 DEF Reported
<1> QED
  BY <1>1, <1>2, <1>3, <1>4, <1>5
  DEF CalInv, Beginning, Conversion, ZoneRestored, FailureExplained

----------------------------------------------------------------------------
(* The lines *)

LEMMA OtherCal == ASSUME NEW l \in Line PROVE CalInv /\ Other(l) => CalInv'
<1> SUFFICES ASSUME CalInv, Other(l) PROVE CalInv'
  OBVIOUS
<1>1. /\ pc = "lines" /\ pc' = "lines" /\ l.kind = "other"
      /\ UNCHANGED <<TZ, TZ_orig, rtn, S, attendees, vecLife, out, printed, told, starved, TZ0>>
  BY DEF Other, Takes, env, vec
<1>2. Grown(seen', seen, l) /\ Len(seen') <= MaxLines
  BY TakesGrows DEF CalInv, TypeOK, Other
<1>3. TypeOK'
  BY <1>1, <1>2 DEF CalInv, TypeOK, Grown
<1>4. Memory'
  <2> SUFFICES ASSUME ~starved PROVE (vecLife = "live" /\ Remembered(LinesDone))'
    BY <1>1 DEF Memory
  <2>1. vecLife = "live" /\ Remembered(Len(seen))
    BY <1>1 DEF CalInv, Memory, LinesDone, Converting
  <2>2. LinesDone' = Len(seen) + 1
    BY <1>1, <1>2 DEF LinesDone, Converting, Grown
  <2>3. \A k \in Times \cup Texts : Kept(S[k], seen', k, Len(seen) + 1)
    BY <1>1, <1>2, <2>1, KeptOld DEF Remembered, Grown, Times, Texts
  <2>4. Readable(l) /\ l.kind # "attendee"
    BY <1>1, ReadableIs
  <2>5. AllReadable(seen', Len(seen) + 1) /\ Listed(attendees, seen', Len(seen) + 1)
    BY <1>2, <2>1, <2>4 DEF Remembered, AllReadable, Listed, Grown
  <2> QED
    BY <1>1, <2>1, <2>2, <2>3, <2>5 DEF Remembered
<1>5. Attended'
  BY <1>1, <1>2, AttendingGrows DEF CalInv, TypeOK, Attended
<1> QED
  BY <1>1, <1>3, <1>4, <1>5
  DEF CalInv, Beginning, Conversion, Reported, ZoneRestored, FailureExplained

\* A line that ends the program, whatever it is that ended it.
LEMMA EndingCal ==
  ASSUME CalInv, NEW l \in Line, Takes(l), pc' \in {"failure", "crashed"},
         pc' = "failure" => told', told' \in BOOLEAN, starved' \in BOOLEAN,
         starved => starved',
         UNCHANGED <<env, S, vec, out, printed, TZ0>>
  PROVE  CalInv'
<1>1. /\ pc = "lines"
      /\ UNCHANGED <<TZ, TZ_orig, rtn, S, attendees, vecLife, out, printed, TZ0>>
  BY DEF Takes, env, vec
<1>2. Grown(seen', seen, l) /\ Len(seen') <= MaxLines
  BY TakesGrows DEF CalInv, TypeOK
<1>3. TypeOK'
  BY <1>1, <1>2 DEF CalInv, TypeOK, Grown, Ended
<1>4. Memory'
  BY <1>1 DEF CalInv, Memory
<1>5. Attended'
  BY <1>1, <1>2, AttendingGrows DEF CalInv, TypeOK, Attended, Reported
<1>6. Reported'
  BY <1>1 DEF CalInv, Reported
<1> QED
  BY <1>1, <1>3, <1>4, <1>5, <1>6
  DEF CalInv, Beginning, Conversion, ZoneRestored, FailureExplained

LEMMA TextLineCal == ASSUME NEW l \in Line PROVE CalInv /\ TextLine(l) => CalInv'
<1> SUFFICES ASSUME CalInv, TextLine(l) PROVE CalInv'
  OBVIOUS
<1>1. /\ Takes(l) /\ pc = "lines" /\ l.kind \in Texts
      /\ UNCHANGED <<TZ, TZ_orig, rtn, attendees, vecLife, vecResult, out, printed, starved, TZ0>>
  BY DEF TextLine, Takes, env, vec
<1>2. starved' \in BOOLEAN /\ told \in BOOLEAN
  BY <1>1 DEF CalInv, TypeOK
<1>3. CASE l.value = Bad /\ Refused /\ UNCHANGED S
  <2>1. told' \in BOOLEAN /\ told' /\ pc' = "failure"
    BY <1>3 DEF Refused
  <2> QED
    BY <1>1, <1>2, <1>3, <2>1, EndingCal DEF env, vec
<1>4. CASE l.value # Bad /\ S' = [S EXCEPT ![l.kind] = l.value] /\ UNCHANGED <<pc, told>>
  <2>1. Grown(seen', seen, l) /\ Len(seen') <= MaxLines
    BY <1>1, TakesGrows DEF CalInv, TypeOK
  <2>2. TypeOK'
    BY <1>1, <1>4, <2>1 DEF CalInv, TypeOK, Grown
  <2>3. DOMAIN S' = Times \cup Texts /\ S'[l.kind] = l.value
        /\ \A k \in Times \cup Texts : k # l.kind => S'[k] = S[k]
    BY <1>1, <1>4 DEF CalInv
  <2>4. Memory'
    <3> SUFFICES ASSUME ~starved PROVE (vecLife = "live" /\ Remembered(LinesDone))'
      BY <1>1 DEF Memory
    <3>1. vecLife = "live" /\ Remembered(Len(seen))
      BY <1>1 DEF CalInv, Memory, LinesDone, Converting
    <3>2. LinesDone' = Len(seen) + 1
      BY <1>1, <1>4, <2>1 DEF LinesDone, Converting, Grown
    <3>3. l.kind \notin Times \cup {"attendee"} /\ Readable(l)
      BY <1>1, <1>4, ReadableIs DEF Times, Texts
    <3>4. \A k \in Times \cup Texts : Kept(S'[k], seen', k, Len(seen) + 1)
      <4> TAKE k \in Times \cup Texts
      <4>1. CASE k = l.kind
        BY <1>1, <1>4, <2>1, <2>3, <3>3, <4>1, KeptNew DEF Grown, Keeps
      <4>2. CASE k # l.kind
        BY <2>1, <2>3, <3>1, <4>2, KeptOld DEF Remembered, Grown
      <4> QED
        BY <4>1, <4>2
    <3>5. AllReadable(seen', Len(seen) + 1) /\ Listed(attendees, seen', Len(seen) + 1)
      BY <2>1, <3>1, <3>3 DEF Remembered, AllReadable, Listed, Grown
    <3> QED
      BY <1>1, <3>1, <3>2, <3>4, <3>5 DEF Remembered
  <2>5. Attended'
    BY <1>1, <2>1, AttendingGrows DEF CalInv, TypeOK, Attended
  <2> QED
    BY <1>1, <1>4, <2>2, <2>3, <2>4, <2>5
    DEF CalInv, Beginning, Conversion, Reported, ZoneRestored, FailureExplained
<1> QED
  BY <1>3, <1>4 DEF TextLine

LEMMA TextStarvedCal == ASSUME NEW l \in Line PROVE CalInv /\ TextStarved(l) => CalInv'
<1> SUFFICES ASSUME CalInv, TextStarved(l) PROVE CalInv'
  OBVIOUS
<1>1. /\ Takes(l) /\ pc = "lines" /\ l.kind \in Texts /\ starved'
      /\ UNCHANGED <<TZ, TZ_orig, rtn, attendees, vecLife, vecResult, out, printed, told, TZ0>>
  BY DEF TextStarved, Takes, env, vec, Texts
<1>2. starved' \in BOOLEAN /\ told' \in BOOLEAN
  BY <1>1 DEF CalInv, TypeOK, TextStarved
<1>3. CASE pc' = "crashed" /\ UNCHANGED S
  BY <1>1, <1>2, <1>3, EndingCal DEF env, vec
<1>4. CASE S' = [S EXCEPT ![l.kind] = CutShort] /\ UNCHANGED pc
  <2>1. Grown(seen', seen, l) /\ Len(seen') <= MaxLines
    BY <1>1, TakesGrows DEF CalInv, TypeOK
  <2>2. TypeOK'
    BY <1>1, <1>2, <1>4, <2>1 DEF CalInv, TypeOK, Grown
  <2>3. DOMAIN S' = Times \cup Texts /\ Memory'
    BY <1>1, <1>4 DEF CalInv, Memory
  <2>4. Attended'
    BY <1>1, <2>1, AttendingGrows DEF CalInv, TypeOK, Attended
  <2> QED
    BY <1>1, <1>4, <2>2, <2>3, <2>4
    DEF CalInv, Beginning, Conversion, Reported, ZoneRestored, FailureExplained
<1> QED
  BY <1>3, <1>4 DEF TextStarved

LEMMA AttendeeCal == ASSUME NEW l \in Line PROVE CalInv /\ Attendee(l) => CalInv'
<1> SUFFICES ASSUME CalInv, Attendee(l) PROVE CalInv'
  OBVIOUS
<1>1. /\ Takes(l) /\ pc = "lines" /\ l.kind = "attendee"
      /\ UNCHANGED <<TZ, TZ_orig, rtn, S, out, printed, TZ0>>
  BY DEF Attendee, Takes, env
<1>2. told \in BOOLEAN /\ starved \in BOOLEAN /\ attendees \in Seq(Atnd) /\ seen \in Seq(Line)
  BY DEF CalInv, TypeOK
<1>3. CASE l.value = Bad /\ Refused /\ UNCHANGED <<vec, starved>>
  <2>1. told' \in BOOLEAN /\ told' /\ pc' = "failure" /\ starved' \in BOOLEAN
    BY <1>2, <1>3 DEF Refused
  <2> QED
    BY <1>1, <1>2, <1>3, <2>1, EndingCal DEF env
<1>4. CASE /\ l.value # Bad /\ UNCHANGED <<pc, told>>
           /\ D!AddTail(<<l.value, Len(seen')>>)
           /\ starved' = (starved \/ vecResult' = Bad)
  <2> DEFINE a == <<l.value, Len(seen')>>
  <2>1. Grown(seen', seen, l) /\ Len(seen') <= MaxLines
    BY <1>1, <1>2, TakesGrows
  <2>2. a \in Atnd
    <3>1. l.value \in DOMAIN NameRank
      BY <1>1, <1>4, LineAssumption DEF LineShape, Times, Texts
    <3>2. Len(seen') \in 1..MaxLines
      BY <2>1, LineAssumption DEF Grown
    <3> QED
      BY <3>1, <3>2 DEF Atnd
  <2>3. /\ vecLife = "live" /\ vecLife' = vecLife
        /\ \/ attendees' = Append(attendees, a)
           \/ attendees' = attendees /\ starved'
    BY <1>4 DEF D!AddTail
  <2> HIDE DEF a
  <2>4. starved' \in BOOLEAN /\ (starved => starved')
    BY <1>2, <1>4
  <2>5. attendees' \in Seq(Atnd)
    BY <1>2, <2>2, <2>3, AppendProperties
  <2>6. TypeOK'
    BY <1>1, <1>4, <2>1, <2>3, <2>4, <2>5 DEF CalInv, TypeOK, Grown
  <2>7. Memory'
    <3> SUFFICES ASSUME ~starved' PROVE (vecLife = "live" /\ Remembered(LinesDone))'
      BY DEF Memory
    <3>1. Remembered(Len(seen))
      BY <1>1, <2>4 DEF CalInv, Memory, LinesDone, Converting
    <3>2. LinesDone' = Len(seen) + 1
      BY <1>1, <1>4, <2>1 DEF LinesDone, Converting, Grown
    <3>3. \A k \in Times \cup Texts : Kept(S[k], seen', k, Len(seen) + 1)
      BY <1>1, <2>1, <3>1, KeptOld DEF Remembered, Grown, Times, Texts
    <3>4. AllReadable(seen', Len(seen) + 1)
      BY <1>1, <1>4, <2>1, <3>1, ReadableIs DEF Remembered, AllReadable, Grown
    <3>5. attendees' = Append(attendees, a)
      BY <2>3
    <3>6. \A j \in DOMAIN attendees : j \in DOMAIN attendees' /\ attendees'[j] = attendees[j]
      BY <1>2, <2>2, <3>5
    <3>7. \E j \in DOMAIN attendees' : attendees'[j] = a
      <4>1. Len(attendees) + 1 \in DOMAIN attendees' /\ attendees'[Len(attendees) + 1] = a
        BY <1>2, <2>2, <3>5
      <4> QED
        BY <4>1
    <3>8. Listed(attendees', seen', Len(seen) + 1)
      <4> SUFFICES ASSUME NEW i \in 1..(Len(seen) + 1), seen'[i].kind = "attendee"
                   PROVE  \E j \in DOMAIN attendees' : attendees'[j] = <<seen'[i].value, i>>
        BY DEF Listed
      <4>1. CASE i = Len(seen) + 1
        BY <2>1, <3>7, <4>1 DEF Grown, a
      <4>2. CASE i \in 1..Len(seen)
        BY <2>1, <3>1, <3>6, <4>2 DEF Grown, Remembered, Listed
      <4> QED
        BY <2>1, <4>1, <4>2 DEF Grown
    <3> QED
      BY <1>1, <2>3, <3>2, <3>3, <3>4, <3>8 DEF Remembered
  <2>8. Attended'
    <3>1. Attending(attendees, seen') /\ Attending(Append(attendees, a), seen')
      <4>1. Len(seen') = Len(seen) + 1
        BY <2>1 DEF Grown
      <4> QED
        BY <1>1, <1>2, <2>1, <4>1, AttendingGrows DEF CalInv, Attended, a
    <3>2. printed' = 0
      BY <1>1 DEF CalInv, Reported
    <3>3. Attending(attendees', seen')
      BY <2>3, <3>1
    <3> QED
      BY <3>2, <3>3 DEF Attended
  <2> QED
    BY <1>1, <1>4, <2>3, <2>4, <2>6, <2>7, <2>8
    DEF CalInv, Beginning, Conversion, Reported, ZoneRestored, FailureExplained
<1> QED
  BY <1>3, <1>4 DEF Attendee

LEMMA AttendeeCrashCal ==
  ASSUME NEW l \in Line PROVE CalInv /\ AttendeeCrash(l) => CalInv'
<1> SUFFICES ASSUME CalInv, AttendeeCrash(l) PROVE CalInv'
  OBVIOUS
<1>1. told' \in BOOLEAN /\ starved' \in BOOLEAN /\ starved'
  BY DEF CalInv, TypeOK, AttendeeCrash
<1> QED
  BY <1>1, EndingCal DEF AttendeeCrash

LEMMA AttendeeRefusedCal ==
  ASSUME NEW l \in Line PROVE CalInv /\ AttendeeRefused(l) => CalInv'
<1> SUFFICES ASSUME CalInv, AttendeeRefused(l) PROVE CalInv'
  OBVIOUS
<1>1. told' \in BOOLEAN /\ told' /\ pc' = "failure" /\ starved' \in BOOLEAN /\ starved' = starved
  BY DEF CalInv, TypeOK, AttendeeRefused, Refused
<1> QED
  BY <1>1, EndingCal DEF AttendeeRefused

----------------------------------------------------------------------------
(* The conversion of a time *)

LEMMA TimeLineCal == ASSUME NEW l \in Line PROVE CalInv /\ TimeLine(l) => CalInv'
<1> SUFFICES ASSUME CalInv, TimeLine(l) PROVE CalInv'
  OBVIOUS
<1>1. /\ Takes(l) /\ pc = "lines" /\ l.kind \in Times
      /\ UNCHANGED <<TZ, TZ_orig, rtn, S, attendees, vecLife, vecResult, out, printed, starved, TZ0>>
  BY DEF TimeLine, Takes, env, vec
<1>2. starved' \in BOOLEAN /\ told \in BOOLEAN /\ seen \in Seq(Line)
  BY <1>1 DEF CalInv, TypeOK
<1>3. CASE l.wall = Bad /\ Refused
  <2>1. told' \in BOOLEAN /\ told' /\ pc' = "failure"
    BY <1>3 DEF Refused
  <2> QED
    BY <1>1, <1>2, <1>3, <2>1, EndingCal DEF env, vec
<1>4. CASE l.wall # Bad /\ pc' = "convert" /\ UNCHANGED told
  <2>1. Grown(seen', seen, l) /\ Len(seen') <= MaxLines
    BY <1>1, <1>2, TakesGrows
  <2>2. seen' # <<>> /\ Line0' = l
    <3>1. Len(seen') # 0 /\ seen'[Len(seen')] = l
      BY <2>1 DEF Grown
    <3> QED
      BY <3>1 DEF Line0
  <2>3. TypeOK'
    BY <1>1, <1>4, <2>1, <2>2 DEF CalInv, TypeOK, Grown
  <2>4. Memory'
    <3> SUFFICES ASSUME ~starved PROVE (vecLife = "live" /\ Remembered(LinesDone))'
      BY <1>1 DEF Memory
    <3>1. vecLife = "live" /\ Remembered(Len(seen))
      BY <1>1 DEF CalInv, Memory, LinesDone, Converting
    <3>2. LinesDone' = Len(seen)
      BY <1>1, <1>4, <2>1 DEF LinesDone, Converting, Grown
    <3>3. \A k \in Times \cup Texts : Kept(S[k], seen', k, Len(seen))
      BY <2>1, <3>1, KeptOld DEF Remembered, Grown
    <3>4. AllReadable(seen', Len(seen)) /\ Listed(attendees, seen', Len(seen))
      BY <2>1, <3>1 DEF Remembered, AllReadable, Listed, Grown
    <3> QED
      BY <1>1, <3>1, <3>2, <3>3, <3>4 DEF Remembered
  <2>5. Attended'
    BY <1>1, <2>1, AttendingGrows DEF CalInv, TypeOK, Attended
  <2> QED
    BY <1>1, <1>4, <2>3, <2>4, <2>5
    DEF CalInv, Beginning, Conversion, Reported, ZoneRestored, FailureExplained
<1> QED
  BY <1>3, <1>4 DEF TimeLine

\* While a time is converted the lines, what is kept of them and the output
\* stay.
LEMMA ConvertingCal ==
  ASSUME CalInv, pc \in {"convert", "mktime", "restore"},
         pc' \in {"mktime", "restore", "store", "failure"},
         UNCHANGED <<seen, S, vec, out, printed, TZ0>>,
         told' \in BOOLEAN, starved' \in BOOLEAN, starved => starved'
  PROVE  /\ TypeOK' /\ DOMAIN S' = Times \cup Texts
         /\ Beginning' /\ Memory' /\ Attended' /\ Reported' /\ Line0' = Line0
<1>1. UNCHANGED <<seen, S, attendees, vecLife, out, printed, TZ0>>
  BY DEF vec
<1>2. Line0' = Line0
  BY <1>1 DEF Line0
<1>3. TypeOK'
  BY <1>1, <1>2 DEF CalInv, TypeOK, Ended
<1>4. Memory'
  <2>1. pc' # "failure" => LinesDone' = LinesDone
    BY <1>1 DEF LinesDone, Converting
  <2> QED
    BY <1>1, <2>1, RememberedSame DEF CalInv, Memory
<1>5. Attended'
  BY <1>1 DEF CalInv, Attended
<1> QED
  BY <1>1, <1>2, <1>3, <1>4, <1>5 DEF CalInv, Beginning, Reported

LEMMA TimegmCal == CalInv /\ Timegm => CalInv'
<1> SUFFICES ASSUME CalInv, Timegm PROVE CalInv'
  OBVIOUS
<1>1. /\ pc = "convert" /\ pc' = "store" /\ Line0.zone = Utc /\ rtn' = <<Utc, Line0.wall>>
      /\ UNCHANGED <<TZ, TZ_orig, seen, S, vec, out, printed, told, starved, TZ0>>
  BY DEF Timegm
<1>2. told' \in BOOLEAN /\ starved' \in BOOLEAN
  BY <1>1 DEF CalInv, TypeOK
<1>3. /\ TypeOK' /\ DOMAIN S' = Times \cup Texts
      /\ Beginning' /\ Memory' /\ Attended' /\ Reported' /\ Line0' = Line0
  BY <1>1, <1>2, ConvertingCal
<1>4. rtn' = Meant(Line0)
  BY <1>1 DEF Meant
<1>5. Conversion' /\ ZoneRestored' /\ FailureExplained'
  BY <1>1, <1>3, <1>4 DEF CalInv, Conversion, ZoneRestored, FailureExplained
<1> QED
  BY <1>3, <1>5 DEF CalInv

LEMMA NoZoneCal == CalInv /\ NoZone => CalInv'
<1> SUFFICES ASSUME CalInv, NoZone PROVE CalInv'
  OBVIOUS
<1>1. /\ pc = "convert" /\ pc' = "failure" /\ told'
      /\ UNCHANGED <<TZ, rtn, seen, S, vec, out, printed, starved, TZ0>>
  BY DEF NoZone, Refused
<1>2. told' \in BOOLEAN /\ starved' \in BOOLEAN
  BY <1>1 DEF CalInv, TypeOK, NoZone, Refused
<1>3. /\ TypeOK' /\ DOMAIN S' = Times \cup Texts
      /\ Beginning' /\ Memory' /\ Attended' /\ Reported' /\ Line0' = Line0
  BY <1>1, <1>2, ConvertingCal
<1>4. Conversion' /\ ZoneRestored' /\ FailureExplained'
  BY <1>1 DEF CalInv, Conversion, ZoneRestored, FailureExplained
<1> QED
  BY <1>3, <1>4 DEF CalInv

\* setenv() sets TZ, or the heap has refused.
LEMMA SetenvDoes ==
  ASSUME starved \in BOOLEAN, NEW value, Setenv(value)
  PROVE  starved' \in BOOLEAN /\ (starved => starved') /\ (TZ' = value \/ starved')
  BY DEF Setenv

LEMMA SetTZCal == CalInv /\ SetTZ => CalInv'
<1> SUFFICES ASSUME CalInv, SetTZ PROVE CalInv'
  OBVIOUS
<1>1. /\ pc = "convert" /\ pc' = "mktime" /\ TZ_orig' = TZ /\ Line0.zone \in DOMAIN Xref
      /\ UNCHANGED <<rtn, seen, S, vec, out, printed, told, TZ0>>
  BY DEF SetTZ
<1>2. told' \in BOOLEAN /\ starved \in BOOLEAN
  BY <1>1 DEF CalInv, TypeOK
<1>3. starved' \in BOOLEAN /\ (starved => starved') /\ (TZ' = Xref[Line0.zone] \/ starved')
  BY <1>2, SetenvDoes DEF SetTZ
<1>4. /\ TypeOK' /\ DOMAIN S' = Times \cup Texts
      /\ Beginning' /\ Memory' /\ Attended' /\ Reported' /\ Line0' = Line0
  BY <1>1, <1>2, <1>3, ConvertingCal
<1>5. TZ_orig' = TZ0' \/ starved'
  BY <1>1, <1>3 DEF CalInv, ZoneRestored
<1>6. Conversion' /\ ZoneRestored' /\ FailureExplained'
  BY <1>1, <1>3, <1>4, <1>5 DEF Conversion, ZoneRestored, FailureExplained
<1> QED
  BY <1>4, <1>6 DEF CalInv

LEMMA MktimeCal == CalInv /\ Mktime => CalInv'
<1> SUFFICES ASSUME CalInv, Mktime PROVE CalInv'
  OBVIOUS
<1>1. /\ pc = "mktime" /\ pc' = "restore" /\ rtn' = <<TZ, Line0.wall>>
      /\ UNCHANGED <<TZ, TZ_orig, seen, S, vec, out, printed, told, starved, TZ0>>
  BY DEF Mktime
<1>2. told' \in BOOLEAN /\ starved' \in BOOLEAN
  BY <1>1 DEF CalInv, TypeOK
<1>3. /\ TypeOK' /\ DOMAIN S' = Times \cup Texts
      /\ Beginning' /\ Memory' /\ Attended' /\ Reported' /\ Line0' = Line0
  BY <1>1, <1>2, ConvertingCal
<1>4. rtn' = Meant(Line0) \/ starved
  <2>1. Line0.zone \in DOMAIN Xref /\ (TZ = Xref[Line0.zone] \/ starved)
    BY <1>1 DEF CalInv, Conversion
  <2>2. Line0.zone # Utc
    BY <2>1, ZoneAssumption
  <2> QED
    BY <1>1, <2>1, <2>2 DEF Meant
<1>5. Conversion' /\ ZoneRestored' /\ FailureExplained'
  BY <1>1, <1>3, <1>4 DEF CalInv, Conversion, ZoneRestored, FailureExplained
<1> QED
  BY <1>3, <1>5 DEF CalInv

LEMMA RestoreTZCal == CalInv /\ RestoreTZ => CalInv'
<1> SUFFICES ASSUME CalInv, RestoreTZ PROVE CalInv'
  OBVIOUS
<1>1. /\ pc = "restore" /\ pc' = "store"
      /\ UNCHANGED <<TZ_orig, rtn, seen, S, vec, out, printed, told, TZ0>>
  BY DEF RestoreTZ
<1>2. told' \in BOOLEAN /\ starved \in BOOLEAN
  BY <1>1 DEF CalInv, TypeOK
<1>3. starved' \in BOOLEAN /\ (starved => starved') /\ (TZ' = TZ_orig \/ starved')
  BY <1>2, SetenvDoes DEF RestoreTZ
<1>4. /\ TypeOK' /\ DOMAIN S' = Times \cup Texts
      /\ Beginning' /\ Memory' /\ Attended' /\ Reported' /\ Line0' = Line0
  BY <1>1, <1>2, <1>3, ConvertingCal
<1>5. Conversion' /\ ZoneRestored' /\ FailureExplained'
  BY <1>1, <1>3, <1>4 DEF CalInv, Conversion, ZoneRestored, FailureExplained
<1> QED
  BY <1>4, <1>5 DEF CalInv

LEMMA StoreCal == CalInv /\ Store => CalInv'
<1> SUFFICES ASSUME CalInv, Store PROVE CalInv'
  OBVIOUS
<1>1. /\ pc = "store" /\ S' = [S EXCEPT ![Line0.kind] = rtn]
      /\ pc' = IF rtn \in MinusOne THEN "failure" ELSE "lines"
      /\ UNCHANGED <<TZ, TZ_orig, rtn, seen, attendees, vecLife, out, printed, told, starved, TZ0>>
  BY DEF Store, env, vec
<1>2. /\ seen \in Seq(Line) /\ seen # <<>>
      /\ Line0.kind \in Times /\ Line0.wall # Bad
      /\ Line0.zone \in DOMAIN Xref \cup {Utc} /\ (rtn = Meant(Line0) \/ starved)
  BY <1>1 DEF CalInv, TypeOK, Conversion
<1>3. TypeOK'
  BY <1>1 DEF CalInv, TypeOK, Ended
<1>4. DOMAIN S' = Times \cup Texts /\ S'[Line0.kind] = rtn
      /\ \A k \in Times \cup Texts : k # Line0.kind => S'[k] = S[k]
  BY <1>1, <1>2 DEF CalInv
<1>5. Memory'
  <2> SUFFICES ASSUME ~starved, pc' = "lines" PROVE (vecLife = "live" /\ Remembered(LinesDone))'
    BY <1>1 DEF CalInv, Memory
  <2> DEFINE n == Len(seen) - 1
  <2>1. n \in Nat /\ Len(seen) = n + 1 /\ Line0 = seen[n + 1] /\ Line0 \in Line
    BY <1>2 DEF Line0
  <2>2. vecLife = "live" /\ Remembered(n)
    BY <1>1 DEF CalInv, Memory, LinesDone, Converting
  <2>3. LinesDone' = n + 1
    BY <1>1, <2>1 DEF LinesDone, Converting
  <2> HIDE DEF n
  <2>4. rtn = Meant(Line0) /\ rtn \notin MinusOne /\ rtn # Bad
    BY <1>1, <1>2, <2>1, MomentsAreGood
  <2>5. \A k \in Times \cup Texts : Kept(S'[k], seen, k, n + 1)
    <3> TAKE k \in Times \cup Texts
    <3>1. CASE k = Line0.kind
      BY <1>2, <1>4, <2>1, <2>4, <3>1, KeptNew DEF Keeps
    <3>2. CASE k # Line0.kind
      BY <1>4, <2>1, <2>2, <3>2, KeptOld DEF Remembered
    <3> QED
      BY <3>1, <3>2
  <2>6. Readable(Line0) /\ Line0.kind # "attendee"
    BY <1>2, <2>4, ReadableIs DEF Times
  <2>7. \A i \in 1..(n + 1) : i \in 1..n \/ i = n + 1
    BY <2>1
  <2>8. AllReadable(seen, n + 1) /\ Listed(attendees, seen, n + 1)
    BY <2>1, <2>2, <2>6, <2>7 DEF Remembered, AllReadable, Listed
  <2> QED
    BY <1>1, <2>2, <2>3, <2>5, <2>8 DEF Remembered
<1>6. Attended'
  BY <1>1 DEF CalInv, Attended
<1> QED
  BY <1>1, <1>3, <1>4, <1>5, <1>6
  DEF CalInv, Beginning, Conversion, Reported, ZoneRestored, FailureExplained

----------------------------------------------------------------------------
(* The report *)

LEMMA EndOfFileCal == CalInv /\ EndOfFile => CalInv'
<1> SUFFICES ASSUME CalInv, EndOfFile PROVE CalInv'
  OBVIOUS
<1>1. /\ pc = "lines" /\ pc' = "report"
      /\ UNCHANGED <<TZ, TZ_orig, rtn, seen, S, attendees, vecLife, out, printed, told, starved, TZ0>>
  BY DEF EndOfFile, env, vec
<1>2. TypeOK'
  BY <1>1 DEF CalInv, TypeOK
<1>3. Memory'
  <2>1. LinesDone' = LinesDone
    BY <1>1 DEF LinesDone, Converting
  <2> QED
    BY <1>1, <2>1, RememberedSame DEF CalInv, Memory
<1>4. Attended'
  BY <1>1 DEF CalInv, Attended
<1>5. Reported'
  <2>1. out = <<>> /\ printed = 0
    BY <1>1 DEF CalInv, Reported
  <2>2. Entries(0)' = Entries(0)
    BY <1>1, EntriesSame
  <2> QED
    BY <1>1, <2>1, <2>2, NothingToShow DEF Reported
<1> QED
  BY <1>1, <1>2, <1>3, <1>4, <1>5
  DEF CalInv, Beginning, Conversion, ZoneRestored, FailureExplained

LEMMA PrintSectionCal == CalInv /\ PrintSection => CalInv'
<1> SUFFICES ASSUME CalInv, PrintSection PROVE CalInv'
  OBVIOUS
<1>1. /\ pc = "report" /\ pc' = "report" /\ printed < 6 /\ printed' = printed + 1
      /\ out' = out \o Printed(Sections[printed + 1])
      /\ UNCHANGED <<TZ, TZ_orig, rtn, seen, S, attendees, vecLife, told, starved, TZ0>>
  BY DEF PrintSection, env, vec
<1>2. printed \in 0..5
  BY <1>1 DEF CalInv, TypeOK
<1>3. TypeOK'
  BY <1>1, <1>2 DEF CalInv, TypeOK
<1>4. Memory'
  <2>1. LinesDone' = LinesDone
    BY <1>1 DEF LinesDone, Converting
  <2> QED
    BY <1>1, <2>1, RememberedSame DEF CalInv, Memory
<1>5. Attended'
  BY <1>1, <1>2 DEF CalInv, Attended
<1>6. Reported'
  <2>1. Shows(out', Entries(printed + 1))
    BY <1>1, <1>2, EntriesGrow DEF CalInv, Reported
  <2>2. Entries(printed)' = Entries(printed + 1)
    BY <1>1, EntriesSame
  <2> QED
    BY <1>1, <2>1, <2>2 DEF Reported
<1> QED
  BY <1>1, <1>3, <1>4, <1>5, <1>6
  DEF CalInv, Beginning, Conversion, ZoneRestored, FailureExplained

LEMMA SortAttendeesCal == CalInv /\ SortAttendees => CalInv'
<1> SUFFICES ASSUME CalInv, SortAttendees PROVE CalInv'
  OBVIOUS
<1>1. /\ pc = "report" /\ pc' = "report" /\ printed = 6 /\ printed' = 7
      /\ UNCHANGED <<TZ, TZ_orig, rtn, seen, S, out, told, TZ0>>
  BY DEF SortAttendees, env
<1>2. /\ attendees \in Seq(Atnd) /\ starved \in BOOLEAN
      /\ Attending(attendees, seen) /\ (~starved => vecLife = "live")
  BY <1>1 DEF CalInv, TypeOK, Attended, Memory
<1>3. /\ vecLife' = vecLife
      /\ starved' \in BOOLEAN /\ (starved => starved')
      /\ \/ attendees' = attendees /\ starved'
         \/ attendees' \in D!Qsort(attendees)
  <2>1. CASE vecLife = "raw" /\ UNCHANGED <<vec, starved>>
    BY <1>2, <2>1 DEF vec
  <2>2. CASE D!Sort /\ starved' = (starved \/ vecResult' = 1)
    BY <1>2, <2>2 DEF D!Sort
  <2> QED
    BY <2>1, <2>2 DEF SortAttendees
<1>4. /\ attendees' \in Seq(Atnd)
      /\ \A i \in DOMAIN attendees' : \E j \in DOMAIN attendees : attendees'[i] = attendees[j]
      /\ \A j \in DOMAIN attendees : \E i \in DOMAIN attendees' : attendees'[i] = attendees[j]
      /\ \A i, j \in DOMAIN attendees' : attendees'[i] = attendees'[j] => i = j
      /\ ~starved' => InOrder(attendees')
  <2>0. \A i, j \in DOMAIN attendees : attendees[i] = attendees[j] => i = j
    BY <1>2 DEF Attending
  <2>1. CASE attendees' = attendees /\ starved'
    BY <1>2, <2>0, <2>1
  <2>2. CASE attendees' \in D!Qsort(attendees)
    BY <1>2, <2>0, <2>2, SortedList
  <2> QED
    BY <1>3, <2>1, <2>2
<1>5. TypeOK'
  BY <1>1, <1>3, <1>4 DEF CalInv, TypeOK
<1>6. Memory'
  <2> SUFFICES ASSUME ~starved' PROVE (vecLife = "live" /\ Remembered(LinesDone))'
    BY DEF Memory
  <2>1. vecLife = "live" /\ Remembered(Len(seen))
    BY <1>1, <1>2, <1>3 DEF CalInv, Memory, LinesDone, Converting
  <2>2. LinesDone' = Len(seen)
    BY <1>1 DEF LinesDone, Converting
  <2>3. Listed(attendees', seen, Len(seen))
    <3> SUFFICES ASSUME NEW i \in 1..Len(seen), seen[i].kind = "attendee"
                 PROVE  \E j \in DOMAIN attendees' : attendees'[j] = <<seen[i].value, i>>
      BY DEF Listed
    <3>1. PICK j \in DOMAIN attendees : attendees[j] = <<seen[i].value, i>>
      BY <2>1 DEF Remembered, Listed
    <3> QED
      BY <1>4, <3>1
  <2> QED
    BY <1>1, <1>3, <2>1, <2>2, <2>3 DEF Remembered
<1>7. Attended'
  <2>1. Attending(attendees', seen)
    BY <1>2, <1>4 DEF Attending
  <2> QED
    BY <1>1, <1>4, <2>1 DEF Attended
<1>8. Reported'
  <2>1. Shows(out, Entries(6))
    BY <1>1 DEF CalInv, Reported
  <2>2. Entries(7) = Entries(6)
    <3>1. \A j \in 1..6 : j <= 7 /\ j <= 6
      OBVIOUS
    <3> QED
      BY <3>1 DEF Entries
  <2>3. Entries(7)' = Entries(7)
    BY <1>1, EntriesSame
  <2> QED
    BY <1>1, <2>1, <2>2, <2>3 DEF Reported
<1> QED
  BY <1>1, <1>3, <1>5, <1>6, <1>7, <1>8
  DEF CalInv, Beginning, Conversion, ZoneRestored, FailureExplained

LEMMA PrintAttendeesCal == CalInv /\ PrintAttendees => CalInv'
<1> SUFFICES ASSUME CalInv, PrintAttendees PROVE CalInv'
  OBVIOUS
<1>1. /\ pc = "report" /\ pc' = "success" /\ printed = 7
      /\ out' = IF attendees = <<>> THEN out
                ELSE Append(out, [section |-> "attendee", value |-> attendees])
      /\ UNCHANGED <<TZ, TZ_orig, rtn, seen, S, attendees, vecLife, printed, told, starved, TZ0>>
  BY DEF PrintAttendees, env, vec
<1>2. TypeOK'
  BY <1>1 DEF CalInv, TypeOK, Ended
<1>3. Memory'
  <2>1. LinesDone' = LinesDone
    BY <1>1 DEF LinesDone, Converting
  <2> QED
    BY <1>1, <2>1, RememberedSame DEF CalInv, Memory
<1>4. Attended'
  BY <1>1 DEF CalInv, Attended
<1>5. Reported'
  <2>1. Shows(out, Entries(7))
    BY <1>1 DEF CalInv, Reported
  <2>2. Shows(out', Entries(7) \cup AttendeeEntry)
    <3>1. CASE attendees = <<>>
      <4>1. Entries(7) \cup AttendeeEntry = Entries(7)
        BY <3>1 DEF AttendeeEntry
      <4> QED
        BY <1>1, <2>1, <3>1, <4>1
    <3>2. CASE attendees # <<>>
      BY <1>1, <2>1, <3>2, ShowsMore DEF AttendeeEntry
    <3> QED
      BY <3>1, <3>2
  <2>3. Entries(7)' = Entries(7) /\ AttendeeEntry' = AttendeeEntry
    BY <1>1, EntriesSame DEF AttendeeEntry
  <2> QED
    BY <1>1, <2>2, <2>3 DEF Reported
<1> QED
  BY <1>1, <1>2, <1>3, <1>4, <1>5
  DEF CalInv, Beginning, Conversion, ZoneRestored, FailureExplained

\* Every step preserves the invariant.
LEMMA NextCal == CalInv /\ [Next]_vars => CalInv'
<1> SUFFICES ASSUME CalInv, [Next]_vars PROVE CalInv'
  OBVIOUS
<1>1. CASE Construct \/ Open \/ Version \/ Help \/ EzFails
  BY <1>1, ConstructCal, OpenCal, VersionCal, HelpCal, EzFailsCal
<1>2. ASSUME NEW l \in Line,
             \/ Other(l) \/ TextLine(l) \/ TextStarved(l) \/ TimeLine(l)
             \/ Attendee(l) \/ AttendeeCrash(l) \/ AttendeeRefused(l)
      PROVE  CalInv'
  BY <1>2, OtherCal, TextLineCal, TextStarvedCal, TimeLineCal,
     AttendeeCal, AttendeeCrashCal, AttendeeRefusedCal
<1>3. CASE Timegm \/ NoZone \/ SetTZ \/ Mktime \/ RestoreTZ \/ Store
  BY <1>3, TimegmCal, NoZoneCal, SetTZCal, MktimeCal, RestoreTZCal, StoreCal
<1>4. CASE EndOfFile \/ PrintSection \/ SortAttendees \/ PrintAttendees
  BY <1>4, EndOfFileCal, PrintSectionCal, SortAttendeesCal, PrintAttendeesCal
<1>5. CASE Finished \/ UNCHANGED vars
  <2>1. UNCHANGED <<pc, TZ, TZ_orig, rtn, seen, S, attendees, vecLife, out, printed, told, starved, TZ0>>
    BY <1>5 DEF Finished, vars, env, vec
  <2>2. Line0' = Line0 /\ LinesDone' = LinesDone /\ AttendeeEntry' = AttendeeEntry
    BY <2>1 DEF Line0, LinesDone, AttendeeEntry
  <2>3. \A n : Entries(n)' = Entries(n)
    BY <2>1, EntriesSame
  <2>4. TypeOK' /\ Memory' /\ Reported'
    BY <2>1, <2>2, <2>3, RememberedSame DEF CalInv, TypeOK, Memory, Reported
  <2> QED
    BY <2>1, <2>2, <2>4
    DEF CalInv, Beginning, Conversion, Attended, ZoneRestored, FailureExplained
<1> QED
  BY <1>1, <1>2, <1>3, <1>4, <1>5 DEF Next

----------------------------------------------------------------------------
(* What the invariant says of the output *)

\* What is kept after all lines is what the last of its kind says.
LEMMA KeptIsLast ==
  ASSUME seen \in Seq(Line), NEW k, NEW v, Kept(v, seen, k, Len(seen))
  PROVE  \/ v = Bad /\ Given(k) = {}
         \/ v # Bad /\ Given(k) # {} /\ v = Keeps(LastOf(k)) /\ LastOf(k).kind = k
<1>1. CASE v = Bad /\ \A i \in 1..Len(seen) : seen[i].kind # k
  BY <1>1 DEF Given
<1>2. CASE v # Bad /\ \E i \in 1..Len(seen) : IsLast(seen, i, k, Len(seen)) /\ v = Keeps(seen[i])
  <2>1. PICK i \in 1..Len(seen) : IsLast(seen, i, k, Len(seen)) /\ v = Keeps(seen[i])
    BY <1>2
  <2>2. Given(k) # {} /\ LastOf(k) = seen[i]
    BY <2>1, LastIsLast
  <2>3. seen[i].kind = k
    BY <2>1 DEF IsLast
  <2> QED
    BY <1>2, <2>1, <2>2, <2>3
<1> QED
  BY <1>1, <1>2 DEF Kept

\* What AttendeesRight asks of a list of attendees, in terms of the invariant.
LEMMA AttendeesAreRight ==
  ASSUME seen \in Seq(Line), NEW list \in Seq(Atnd), Attending(list, seen),
         ~starved => Listed(list, seen, Len(seen)) /\ InOrder(list)
  PROVE  AttendeesRight(list)
<1> DEFINE given == {<<seen[i].value, i>> : i \in Given("attendee")}
           shown == {list[i] : i \in DOMAIN list}
<1>1. Len(list) \in Nat /\ DOMAIN list = 1..Len(list) /\ DOMAIN seen = 1..Len(seen)
      /\ \A j \in DOMAIN list : list[j] \in Atnd
  OBVIOUS
<1>2. shown \subseteq given
  <2> SUFFICES ASSUME NEW j \in DOMAIN list PROVE list[j] \in given
    OBVIOUS
  <2>1. list[j] = <<list[j][1], list[j][2]>>
    BY <1>1 DEF Atnd
  <2>2. list[j][2] \in Given("attendee") /\ list[j][1] = seen[list[j][2]].value
    BY <1>1 DEF Attending, IsAttendee, Given
  <2> QED
    BY <2>1, <2>2
<1>3. Cardinality(shown) = Len(list)
  <2> DEFINE f == [i \in 1..Len(list) |-> list[i]]
  <2>1. f \in [1..Len(list) -> shown] /\ \A x \in shown : \E i \in 1..Len(list) : f[i] = x
    BY <1>1
  <2>2. \A i, j \in 1..Len(list) : f[i] = f[j] => i = j
    BY <1>1 DEF Attending
  <2>3. f \in Surjection(1..Len(list), shown)
    BY <2>1 DEF Surjection
  <2>4. f \in Injection(1..Len(list), shown)
    BY <2>1, <2>2 DEF Injection, IsInjective
  <2>5. IsFiniteSet(1..Len(list)) /\ Cardinality(1..Len(list)) = Len(list)
    <3>1. \A n \in Nat : IsFiniteSet(1..n) /\ Cardinality(1..n) = n
      <4> TAKE n \in Nat
      <4>1. Cardinality(1..n) = IF 1 > n THEN 0 ELSE n - 1 + 1
        BY FS_Interval
      <4>2. (IF 1 > n THEN 0 ELSE n - 1 + 1) = n
        OBVIOUS
      <4> QED
        BY <4>1, <4>2, FS_Interval
    <3> QED
      BY <1>1, <3>1
  <2> HIDE DEF f, shown
  <2>6. Cardinality(shown) = Cardinality(1..Len(list))
    BY <2>3, <2>4, <2>5, FS_Surjection
  <2> QED
    BY <2>5, <2>6
<1>4. ~starved => given \subseteq shown
  <2> SUFFICES ASSUME ~starved, NEW i \in Given("attendee") PROVE <<seen[i].value, i>> \in shown
    OBVIOUS
  <2>1. i \in 1..Len(seen) /\ seen[i].kind = "attendee"
    BY <1>1 DEF Given
  <2>2. \E j \in DOMAIN list : list[j] = <<seen[i].value, i>>
    BY <2>1 DEF Listed
  <2> QED
    BY <2>2
<1>5. ~starved => \A i, j \in DOMAIN list : i < j => NameRank[list[i][1]] <= NameRank[list[j][1]]
  BY DEF InOrder
<1> QED
  BY <1>2, <1>3, <1>4, <1>5 DEF AttendeesRight

\* An entry of the report is true of the last line of its kind.
LEMMA EntryIsTrue ==
  ASSUME CalInv, pc \in {"report", "success", "aborted"}, ~starved,
         NEW k \in (Times \cup Texts) \ {"sched"}, S[k] # Bad
  PROVE  /\ k \in Times => Entry(k).value = AtHome(k)
         /\ k \in Texts => Entry(k).value = LastOf(k).value
         /\ k = "summary" => Entry(k).asof = AtHome("sched")
<1>1. seen \in Seq(Line) /\ TZ = TZ0 /\ \A j \in Times \cup Texts : Kept(S[j], seen, j, Len(seen))
  BY DEF CalInv, TypeOK, ZoneRestored, Memory, LinesDone, Converting, Remembered
<1>2. \A j \in Times \cup Texts :
        \/ S[j] = Bad /\ Given(j) = {}
        \/ S[j] # Bad /\ Given(j) # {} /\ S[j] = Keeps(LastOf(j)) /\ LastOf(j).kind = j
  BY <1>1, KeptIsLast
<1>3. Times \cap Texts = {} /\ "sched" \in Times /\ "summary" \in Texts
  BY DEF Times, Texts
<1>4. \A j \in Times : S[j] # Bad => Local(S[j]) = AtHome(j)
  BY <1>1, <1>2 DEF Keeps, Local, AtHome
<1>5. \A j \in Times : S[j] = Bad => AtHome(j) = Bad
  BY <1>2 DEF AtHome
<1>6. CASE k \in Times
  BY <1>3, <1>4, <1>6 DEF Entry
<1>7. CASE k \in Texts
  <2>1. S[k] = LastOf(k).value
    BY <1>2, <1>3, <1>7 DEF Keeps
  <2>2. Entry(k).value = S[k]
    BY <1>3, <1>7 DEF Entry
  <2>3. k = "summary" => Entry(k).asof = AtHome("sched")
    BY <1>3, <1>4, <1>5, <1>7 DEF Entry
  <2> QED
    BY <1>3, <1>7, <2>1, <2>2, <2>3
<1> QED
  BY <1>6, <1>7

\* What is in the output, entry by entry.
LEMMA OutputIs ==
  ASSUME CalInv, NEW i \in DOMAIN out
  PROVE  /\ pc \in {"report", "success", "aborted"}
         /\ \/ out[i] = [section |-> "version"] /\ printed = 0
            \/ pc = "success" /\ printed = 7 /\ attendees # <<>>
               /\ out[i] = [section |-> "attendee", value |-> attendees]
            \/ \E k \in (Times \cup Texts) \ {"sched"} : S[k] # Bad /\ out[i] = Entry(k)
<1>1. pc \in {"report", "success", "aborted"}
  <2>1. out # <<>>
    OBVIOUS
  <2> QED
    BY <2>1 DEF CalInv, Reported
<1>2. \A n : \A e \in Entries(n) : \E k \in (Times \cup Texts) \ {"sched"} : S[k] # Bad /\ e = Entry(k)
  BY SectionsAre DEF Entries
<1>3. CASE pc \in {"report", "aborted"}
  <2>1. out \in Seq(Entries(printed))
    BY <1>3 DEF CalInv, Reported, Shows
  <2>2. out[i] \in Entries(printed)
    BY <2>1
  <2> QED
    BY <1>1, <1>2, <2>2
<1>4. CASE pc = "success" /\ printed = 0 /\ out = <<[section |-> "version"]>>
  BY <1>4
<1>5. CASE pc = "success" /\ printed = 7 /\ Shows(out, Entries(7) \cup AttendeeEntry)
  <2>1. out \in Seq(Entries(7) \cup AttendeeEntry)
    BY <1>5 DEF Shows
  <2>2. out[i] \in Entries(7) \cup AttendeeEntry
    BY <2>1
  <2> QED
    BY <1>1, <1>2, <1>5, <2>2 DEF AttendeeEntry
<1> QED
  BY <1>1, <1>3, <1>4, <1>5 DEF CalInv, Reported

LEMMA ReportIsTrue == CalInv => ReportTrue
<1> SUFFICES ASSUME CalInv, NEW i \in DOMAIN out
             PROVE  LET r == out[i] IN
               \/ r.section = "version"
               \/ r.section = "attendee" /\ AttendeesRight(r.value)
               \/ starved /\ r.section # "attendee"
               \/ r.section \in Times /\ r.value = AtHome(r.section)
               \/ r.section \in Texts /\ r.value = LastOf(r.section).value
                    /\ (r.section = "summary" => r.asof = AtHome("sched"))
  BY DEF ReportTrue
<1>1. CASE out[i] = [section |-> "version"]
  BY <1>1
<1>2. CASE pc = "success" /\ printed = 7 /\ out[i] = [section |-> "attendee", value |-> attendees]
  <2>1. seen \in Seq(Line) /\ attendees \in Seq(Atnd) /\ Attending(attendees, seen)
    BY DEF CalInv, TypeOK, Attended
  <2>2. ~starved => Listed(attendees, seen, Len(seen)) /\ InOrder(attendees)
    BY <1>2 DEF CalInv, Attended, Memory, LinesDone, Converting, Remembered
  <2>3. AttendeesRight(attendees)
    BY <2>1, <2>2, AttendeesAreRight
  <2> QED
    BY <1>2, <2>3
<1>3. ASSUME NEW k \in (Times \cup Texts) \ {"sched"}, S[k] # Bad, out[i] = Entry(k)
      PROVE  \/ starved /\ out[i].section # "attendee"
             \/ out[i].section \in Times /\ out[i].value = AtHome(out[i].section)
             \/ /\ out[i].section \in Texts /\ out[i].value = LastOf(out[i].section).value
                /\ out[i].section = "summary" => out[i].asof = AtHome("sched")
  <2>1. Entry(k).section = k
    BY DEF Entry
  <2>2. k # "attendee"
    BY DEF Times, Texts
  <2>3. CASE starved
    BY <1>3, <2>1, <2>2, <2>3
  <2>4. CASE ~starved
    BY <1>3, <2>1, <2>4, EntryIsTrue, OutputIs
  <2> QED
    BY <2>3, <2>4
<1> QED
  BY <1>1, <1>2, <1>3, OutputIs

LEMMA ReportIsWhole == CalInv => AllOrNothing
<1> SUFFICES ASSUME CalInv PROVE AllOrNothing
  OBVIOUS
<1>0. seen \in Seq(Line) /\ Len(seen) \in Nat /\ DOMAIN seen = 1..Len(seen)
  BY DEF CalInv, TypeOK
<1>1. out # <<>> => \A i \in DOMAIN seen : starved \/ Readable(seen[i])
  <2> SUFFICES ASSUME out # <<>>, ~starved PROVE \A i \in DOMAIN seen : Readable(seen[i])
    OBVIOUS
  <2>1. pc \in {"report", "success", "aborted"}
    BY DEF CalInv, Reported
  <2> QED
    BY <1>0, <2>1 DEF CalInv, Memory, LinesDone, Converting, Remembered, AllReadable
<1>2. pc = "failure" => out = <<>>
  BY DEF CalInv, Reported
<1>3. ASSUME pc = "success", printed = 7, ~starved
      PROVE  {out[i].section : i \in DOMAIN out} = {seen[i].kind : i \in DOMAIN seen} \ {"other", "sched"}
  <2>1. Remembered(Len(seen))
    BY <1>3 DEF CalInv, Memory, LinesDone, Converting
  <2>2. \A e \in Entries(7) \cup AttendeeEntry : \E i \in DOMAIN out : out[i] = e
    BY <1>3 DEF CalInv, Reported, Shows
  <2>3. \A k \in Times \cup Texts : S[k] # Bad <=> \E i \in DOMAIN seen : seen[i].kind = k
    <3> TAKE k \in Times \cup Texts
    <3>1. Kept(S[k], seen, k, Len(seen))
      BY <2>1 DEF Remembered
    <3> QED
      BY <1>0, <3>1 DEF Kept, IsLast
  <2>4. attendees # <<>> <=> \E i \in DOMAIN seen : seen[i].kind = "attendee"
    <3>1. attendees \in Seq(Atnd) /\ Attending(attendees, seen)
      BY DEF CalInv, TypeOK, Attended
    <3>2. attendees # <<>> <=> 1 \in DOMAIN attendees
      BY <3>1
    <3>3. 1 \in DOMAIN attendees => IsAttendee(attendees[1], seen)
      BY <3>1 DEF Attending
    <3>4. \A i \in DOMAIN seen : seen[i].kind = "attendee" => DOMAIN attendees # {}
      BY <1>0, <2>1 DEF Remembered, Listed
    <3>5. DOMAIN attendees # {} => attendees # <<>>
      BY <3>1
    <3> QED
      BY <1>0, <3>2, <3>3, <3>4, <3>5 DEF IsAttendee
  <2>5. \A k : Entry(k).section = k
    BY DEF Entry
  <2>6. ASSUME NEW i \in DOMAIN out
        PROVE  out[i].section \in {seen[j].kind : j \in DOMAIN seen} \ {"other", "sched"}
    <3>1. CASE attendees # <<>> /\ out[i] = [section |-> "attendee", value |-> attendees]
      BY <2>4, <3>1
    <3>2. CASE \E k \in (Times \cup Texts) \ {"sched"} : S[k] # Bad /\ out[i] = Entry(k)
      <4>1. PICK k \in (Times \cup Texts) \ {"sched"} : S[k] # Bad /\ out[i] = Entry(k)
        BY <3>2
      <4>2. k # "other"
        BY DEF Times, Texts
      <4> QED
        BY <2>3, <2>5, <4>1, <4>2
    <3> QED
      BY <1>3, <3>1, <3>2, OutputIs
  <2>7. ASSUME NEW j \in DOMAIN seen, seen[j].kind \notin {"other", "sched"}
        PROVE  \E i \in DOMAIN out : out[i].section = seen[j].kind
    <3>1. CASE seen[j].kind = "attendee"
      <4>1. [section |-> "attendee", value |-> attendees] \in AttendeeEntry
        BY <2>4, <3>1 DEF AttendeeEntry
      <4> QED
        BY <2>2, <3>1, <4>1
    <3>2. CASE seen[j].kind \in Times \cup Texts
      <4>1. PICK m \in 1..6 : Sections[m] = seen[j].kind
        BY <2>7, <3>2, SectionsAre
      <4>2. Entry(seen[j].kind) \in Entries(7)
        <5>1. m <= 7 /\ S[Sections[m]] # Bad
          BY <2>3, <3>2, <4>1
        <5> QED
          BY <4>1, <5>1 DEF Entries
      <4> QED
        BY <2>2, <2>5, <4>2
    <3>3. seen[j] \in Line
      BY <1>0
    <3> QED
      BY <2>7, <3>1, <3>2, <3>3, LineAssumption DEF LineShape
  <2> QED
    BY <2>6, <2>7
<1> QED
  BY <1>1, <1>2, <1>3 DEF AllOrNothing

----------------------------------------------------------------------------
(* The theorems *)

\* What is remembered of the lines and printed of it, along main()'s loop and
\* report (vcalendar.c:186-368).
THEOREM CalendarInvariant == Spec => []CalInv
<1> QED
  BY InitCal, NextCal, PTL DEF Spec

\* The state stays what main() expects in vcal2utc (vcalendar.c:420).
THEOREM TypeCorrect == Spec => []TypeOK
<1>1. CalInv => TypeOK
  BY DEF CalInv
<1> QED
  BY <1>1, CalendarInvariant, PTL

\* TZ is the user's again on every way out of vcal2utc (vcalendar.c:445-466).
THEOREM ZoneIsRestored == Spec => []ZoneRestored
<1>1. CalInv => ZoneRestored
  BY DEF CalInv
<1> QED
  BY <1>1, CalendarInvariant, PTL

\* The program stops early with a message only, or at the time -1.
THEOREM FailureIsExplained == Spec => []FailureExplained
<1>1. CalInv => FailureExplained
  BY DEF CalInv
<1> QED
  BY <1>1, CalendarInvariant, PTL

\* Whatever is printed is what the calendar says (vcalendar.c:303-368).
THEOREM ReportsTheTruth == Spec => []ReportTrue
<1> QED
  BY CalendarInvariant, ReportIsTrue, PTL

\* A line that cannot be read keeps the report from being printed, and without
\* one each kind of line has its section (vcalendar.c:186-368).
THEOREM ReportsAllOrNothing == Spec => []AllOrNothing
<1> QED
  BY CalendarInvariant, ReportIsWhole, PTL

----------------------------------------------------------------------------
(* Least and greatest numbers *)

\* The prefixes 1..n are ordered by strict inclusion, which is well founded.
LEMMA LeastExists ==
  ASSUME NEW T \in SUBSET Nat, T # {}
  PROVE  \E m \in T : \A n \in T : m <= n
<1> DEFINE Below == {1..n : n \in T}
           Order == StrictSubsetOrdering(Nat)
<1>1. IsWellFoundedOn(Order, FiniteSubsetsOf(Nat))
  BY FS_StrictSubsetOrderingWellFounded
<1>2. \A n \in T : 1..n \in SUBSET Nat /\ IsFiniteSet(1..n)
  BY FS_Interval
<1>3. Below \subseteq FiniteSubsetsOf(Nat)
  BY <1>2 DEF FiniteSubsetsOf
<1>4. Below # {}
  OBVIOUS
<1> HIDE DEF Below, Order
<1>5. PICK b \in Below : \A c \in Below : <<c, b>> \notin Order
  BY <1>1, <1>3, <1>4, WFMin
<1>6. PICK m \in T : b = 1..m
  BY DEF Below
<1>7. ASSUME NEW n \in T, n < m PROVE FALSE
  <2>1. 1..n \in SUBSET Nat /\ b \in SUBSET Nat /\ 1..n \subseteq b /\ 1..n # b
    <3>1. m \in 1..m /\ m \notin 1..n
      BY <1>7
    <3> QED
      BY <1>6, <1>7, <3>1
  <2>2. <<1..n, b>> \in Order
    BY <2>1 DEF Order, StrictSubsetOrdering
  <2>3. 1..n \in Below
    BY DEF Below
  <2> QED
    BY <1>5, <2>2, <2>3
<1> QED
  BY <1>7

LEMMA MinIs ==
  ASSUME NEW T \in SUBSET Nat, T # {}
  PROVE  R!F!Min(T) \in T /\ \A n \in T : R!F!Min(T) <= n
  BY LeastExists DEF R!F!Min

LEMMA MaxIs ==
  ASSUME NEW T \in SUBSET Nat, T # {}, NEW b \in Nat, \A n \in T : n <= b
  PROVE  R!F!Max(T) \in T /\ \A n \in T : n <= R!F!Max(T)
<1> DEFINE U == {n \in 0..b : \E x \in T : n = b - x}
<1>1. \A x \in T : b - x \in 0..b
  OBVIOUS
<1>2. \A x \in T : b - x \in U
  BY <1>1
<1>3. U \in SUBSET Nat
  OBVIOUS
<1>4. U # {}
  BY <1>2
<1> HIDE DEF U
<1>5. PICK m \in U : \A k \in U : m <= k
  BY <1>3, <1>4, LeastExists
<1>6. PICK x \in T : m = b - x
  BY DEF U
<1>7. \A n \in T : b - x <= b - n
  BY <1>2, <1>5, <1>6
<1>8. \A n \in T : x >= n
  BY <1>7
<1>9. \E y \in T : \A n \in T : y >= n
  BY <1>8
<1> QED
  BY <1>9 DEF R!F!Max

----------------------------------------------------------------------------
(* What fgets and trimend leave *)

\* The place of the last character that fgets reads.
ChunkEnd(from, n) == R!F!Min({from + n - 1, Len(file)} \cup R!NewlineAfter(from))

\* fgets reads what comes next, at most n-1 characters and up to a newline.
LEMMA ChunkIs ==
  ASSUME file \in Seq(R!Kind), NEW from \in 0..Len(file), NEW n \in Nat, from + n > 0
  PROVE  /\ ChunkEnd(from, n) \in {from + n - 1, Len(file)} \cup R!NewlineAfter(from)
         /\ \A e \in {from + n - 1, Len(file)} \cup R!NewlineAfter(from) : ChunkEnd(from, n) <= e
         /\ ChunkEnd(from, n) >= from \/ (n = 0 /\ ChunkEnd(from, n) = from - 1)
         /\ ChunkEnd(from, n) \in Nat
         /\ R!Chunk(from, n) = [i \in 1..(ChunkEnd(from, n) - from) |-> from + i]
<1> DEFINE T == {from + n - 1, Len(file)} \cup R!NewlineAfter(from)
<1>1. Len(file) \in Nat /\ from + n - 1 \in Nat
  OBVIOUS
<1>2. \A e \in R!NewlineAfter(from) : e \in Nat /\ e > from
  BY <1>1 DEF R!NewlineAfter
<1>3. T \in SUBSET Nat /\ T # {}
  BY <1>1, <1>2
<1>4. R!F!Min(T) \in T /\ \A e \in T : R!F!Min(T) <= e
  BY <1>3, MinIs
<1>5. ChunkEnd(from, n) = R!F!Min(T)
  BY DEF ChunkEnd
<1>6. R!Chunk(from, n) = [i \in 1..(ChunkEnd(from, n) - from) |-> from + i]
  BY DEF R!Chunk, ChunkEnd
<1>7. ChunkEnd(from, n) >= from \/ (n = 0 /\ ChunkEnd(from, n) = from - 1)
  BY <1>1, <1>2, <1>4, <1>5
<1> QED
  BY <1>3, <1>4, <1>5, <1>6, <1>7

\* In terms of what was read.
HasRead(c, from, n) ==
  /\ c \in Seq((from+1)..(from + Len(c))) /\ Len(c) \in Nat /\ DOMAIN c = 1..Len(c)
  /\ from + Len(c) <= Len(file) /\ Len(c) <= n /\ (n > 0 => Len(c) < n)
  /\ \A i \in 1..Len(c) : c[i] = from + i
  /\ R!MeetsEnd(from, n) => from + Len(c) = Len(file)
  /\ n > 1 /\ c = <<>> => from = Len(file)

LEMMA ChunkReads ==
  ASSUME file \in Seq(R!Kind), NEW from \in 0..Len(file), NEW n \in Nat, from + n > 0,
         NEW c, c = R!Chunk(from, n)
  PROVE  HasRead(c, from, n)
<1> DEFINE last == ChunkEnd(from, n)
           m == IF last < from THEN 0 ELSE last - from
<1>0. Len(file) \in Nat
  OBVIOUS
<1>1. /\ last \in {from + n - 1, Len(file)} \cup R!NewlineAfter(from) /\ last \in Nat
      /\ last <= from + n - 1 /\ last <= Len(file)
      /\ last >= from \/ (n = 0 /\ last = from - 1)
      /\ c = [i \in 1..(last - from) |-> from + i]
  BY ChunkIs
<1>2. \A e \in R!NewlineAfter(from) : e \in Nat /\ e > from
  BY <1>0 DEF R!NewlineAfter
<1> HIDE DEF last
<1>3. m \in Nat /\ 1..(last - from) = 1..m /\ from + m <= Len(file)
      /\ m <= n /\ (n > 0 => m < n)
  BY <1>0, <1>1
<1>4. n > 1 /\ m = 0 => from = Len(file)
  BY <1>0, <1>1, <1>2
<1>5. R!MeetsEnd(from, n) => from + m = Len(file)
  <2> SUFFICES ASSUME R!MeetsEnd(from, n) PROVE from + m = Len(file)
    OBVIOUS
  <2>1. from + n - 1 > Len(file) /\ R!NewlineAfter(from) = {}
    BY DEF R!MeetsEnd
  <2>2. last = Len(file)
    BY <1>0, <1>1, <2>1
  <2> QED
    BY <1>0, <2>2
<1> HIDE DEF m
<1>6. c = [i \in 1..m |-> from + i]
  BY <1>1, <1>3
<1>7. \A i \in 1..m : from + i \in (from+1)..(from+m)
  BY <1>0, <1>3
<1>8. c \in [1..m -> (from+1)..(from+m)]
  BY <1>6, <1>7
<1>9. c \in Seq((from+1)..(from+m)) /\ Len(c) = m /\ DOMAIN c = 1..m
  BY <1>3, <1>8
<1>10. c = <<>> => m = 0
  BY <1>9
<1> QED
  BY <1>3, <1>4, <1>5, <1>6, <1>9, <1>10 DEF HasRead

\* trimend leaves a beginning; what it takes away is blank, and so is not the
\* last character it leaves.
IsTrimmed(t, s) ==
  /\ Len(t) \in 0..Len(s)
  /\ \A i \in 1..Len(t) : t[i] = s[i]
  /\ \A i \in 1..Len(s) : i > Len(t) => file[s[i]] \in R!Blank
  /\ Len(t) > 0 => file[s[Len(t)]] \notin R!Blank

LEMMA TrimmedIs ==
  ASSUME NEW X, NEW s \in Seq(X), NEW t, t = R!Trimmed(s)
  PROVE  t \in Seq(X) /\ IsTrimmed(t, s)
<1> DEFINE T == {0} \cup {i \in DOMAIN s : file[s[i]] \notin R!Blank}
           m == R!F!Max(T)
<1>1. Len(s) \in Nat /\ DOMAIN s = 1..Len(s)
  OBVIOUS
<1>2. T \in SUBSET Nat /\ T # {} /\ \A i \in T : i <= Len(s)
  BY <1>1
<1>3. m \in T /\ \A i \in T : i <= m
  BY <1>1, <1>2, MaxIs
<1>4. t = SubSeq(s, 1, m)
  BY DEF R!Trimmed
<1>5. m \in 0..Len(s)
  BY <1>1, <1>2, <1>3
<1>6. m > 0 => file[s[m]] \notin R!Blank
  BY <1>3
<1>7. \A i \in 1..Len(s) : i > m => file[s[i]] \in R!Blank
  <2> SUFFICES ASSUME NEW i \in 1..Len(s), i > m, file[s[i]] \notin R!Blank PROVE FALSE
    OBVIOUS
  <2>1. i \in T
    BY <1>1
  <2> QED
    BY <1>3, <1>5, <2>1
<1> HIDE DEF m, T
<1>8. t \in Seq(X) /\ Len(t) = m /\ \A i \in 1..m : t[i] = s[i]
  BY <1>1, <1>4, <1>5
<1> QED
  BY <1>5, <1>6, <1>7, <1>8 DEF IsTrimmed

----------------------------------------------------------------------------
(* The reader's invariant *)

\* No character is doubled or out of order in the lines T.
Sorted(T) ==
  \A i, j \in DOMAIN T : \A a \in DOMAIN T[i], b \in DOMAIN T[j] :
    i < j \/ (i = j /\ a < b) => T[i][a] < T[j][b]

\* Every letter among the first p characters is in them.
Covers(T, p) ==
  \A k \in 1..p : file[k] \in Letter => \E i \in DOMAIN T : k \in R!S!Range(T[i])

ReaderInv ==
  /\ R!TypeOK /\ R!StaysInBuffer
  /\ Sorted(R!Taken) /\ (rpc # "aborted" => Covers(R!Taken, pos))
  /\ rpc = "end" => pos = Len(file)

\* The buffer holds b, and then t: of b what is left, and then what was read.
Continues(t, b, p) ==
  /\ \A i \in DOMAIN t : IF i <= Len(b) THEN t[i] = b[i] ELSE t[i] > p
  /\ \A i, j \in DOMAIN t : i > Len(b) /\ i < j => t[i] < t[j]

LEMMA SortedGrows ==
  ASSUME NEW p \in Nat, NEW L \in Seq(Seq(1..p)), NEW b \in Seq(1..p),
         Sorted(Append(L, b)), NEW t \in Seq(Nat), Continues(t, b, p)
  PROVE  Sorted(Append(L, t))
<1> DEFINE n == Len(L) + 1
           T == Append(L, b)
           U == Append(L, t)
<1>1. n \in Nat /\ DOMAIN L = 1..(n-1) /\ DOMAIN T = 1..n /\ DOMAIN U = 1..n
  OBVIOUS
<1>2. T[n] = b /\ U[n] = t /\ \A i \in 1..(n-1) : T[i] = L[i] /\ U[i] = L[i]
  OBVIOUS
<1>3. Len(b) \in Nat /\ DOMAIN b = 1..Len(b) /\ Len(t) \in Nat /\ DOMAIN t = 1..Len(t)
      /\ \A i \in DOMAIN t : t[i] \in Nat
  OBVIOUS
<1>4. \A i \in 1..(n-1) : \A a \in DOMAIN L[i] : L[i][a] \in 1..p
  <2> SUFFICES ASSUME NEW i \in 1..(n-1), NEW a \in DOMAIN L[i] PROVE L[i][a] \in 1..p
    OBVIOUS
  <2>1. L[i] \in Seq(1..p)
    BY <1>1
  <2> QED
    BY <2>1
<1>5. \A a \in DOMAIN b : b[a] \in 1..p
  OBVIOUS
<1> HIDE DEF n, T, U
<1>6. Sorted(T)
  BY DEF T
<1> SUFFICES ASSUME NEW i \in DOMAIN U, NEW j \in DOMAIN U, NEW x \in DOMAIN U[i], NEW y \in DOMAIN U[j],
                    i < j \/ (i = j /\ x < y)
             PROVE  U[i][x] < U[j][y]
  BY DEF Sorted, U
<1>7. CASE j < n
  <2>1. i \in 1..(n-1) /\ j \in 1..(n-1)
    BY <1>1, <1>7
  <2> QED
    BY <1>1, <1>2, <1>6, <2>1 DEF Sorted
<1>8. CASE j = n /\ i < n
  <2>1. i \in 1..(n-1) /\ U[i] = L[i] /\ T[i] = L[i] /\ U[j] = t /\ T[j] = b
    BY <1>1, <1>2, <1>8
  <2>2. CASE y <= Len(b)
    <3>1. y \in DOMAIN b /\ t[y] = b[y]
      BY <1>3, <2>1, <2>2 DEF Continues
    <3> QED
      BY <1>1, <1>6, <1>8, <2>1, <3>1 DEF Sorted
  <2>3. CASE y > Len(b)
    <3>1. t[y] > p /\ t[y] \in Nat
      BY <1>3, <2>1, <2>3 DEF Continues
    <3>2. L[i][x] \in 1..p
      BY <1>4, <2>1
    <3> QED
      BY <2>1, <3>1, <3>2
  <2> QED
    BY <1>3, <2>1, <2>2, <2>3
<1>9. CASE j = n /\ i = n
  <2>1. U[i] = t /\ U[j] = t /\ x \in DOMAIN t /\ y \in DOMAIN t /\ x < y
    BY <1>1, <1>2, <1>9
  <2>2. CASE x > Len(b)
    BY <2>1, <2>2 DEF Continues
  <2>3. CASE x <= Len(b) /\ y > Len(b)
    <3>1. t[x] = b[x] /\ x \in DOMAIN b /\ t[y] > p /\ t[y] \in Nat
      BY <1>3, <2>1, <2>3 DEF Continues
    <3>2. b[x] \in 1..p
      BY <1>5, <3>1
    <3> QED
      BY <2>1, <3>1, <3>2
  <2>4. CASE x <= Len(b) /\ y <= Len(b)
    <3>1. t[x] = b[x] /\ t[y] = b[y] /\ x \in DOMAIN b /\ y \in DOMAIN b
      BY <1>3, <2>1, <2>4 DEF Continues
    <3>2. T[n] = b /\ n \in DOMAIN T
      BY <1>1, <1>2
    <3> QED
      BY <1>6, <2>1, <3>1, <3>2 DEF Sorted
  <2> QED
    BY <1>3, <2>1, <2>2, <2>3, <2>4
<1> QED
  BY <1>1, <1>7, <1>8, <1>9

\* Where b was, t is; the letters up to p were covered, and those up to q that
\* are behind p are in t, and so are those of b.
LEMMA CoversGrows ==
  ASSUME NEW p \in Nat, NEW q \in Nat, NEW L, NEW b, NEW t, L \in Seq(Seq(Nat)),
         Covers(Append(L, b), p),
         \A k \in 1..q :
           file[k] \in Letter /\ (k > p \/ k \in R!S!Range(b)) => k \in R!S!Range(t)
  PROVE  Covers(Append(L, t), q)
<1> DEFINE n == Len(L) + 1
           T == Append(L, b)
           U == Append(L, t)
<1>1. n \in Nat /\ n > 0 /\ DOMAIN T = 1..n /\ DOMAIN U = 1..n
  OBVIOUS
<1>2. T[n] = b /\ U[n] = t /\ \A i \in 1..(n-1) : T[i] = L[i] /\ U[i] = L[i]
  OBVIOUS
<1> HIDE DEF n, T, U
<1> SUFFICES ASSUME NEW k \in 1..q, file[k] \in Letter
             PROVE  \E i \in DOMAIN U : k \in R!S!Range(U[i])
  BY DEF Covers, U
<1>3. CASE k > p
  BY <1>1, <1>2, <1>3
<1>4. CASE k <= p
  <2>1. PICK i \in DOMAIN T : k \in R!S!Range(T[i])
    BY <1>4 DEF Covers, T
  <2>2. CASE i = n
    BY <1>1, <1>2, <2>1, <2>2
  <2>3. CASE i # n
    <3>1. i \in 1..(n-1)
      BY <1>1, <2>1, <2>3
    <3> QED
      BY <1>1, <1>2, <2>1, <3>1
  <2> QED
    BY <2>2, <2>3
<1> QED
  BY <1>3, <1>4

\* No letter is blank, and the buffer has room for a line.
LEMMA KindFacts ==
  /\ \A c : c \in Letter => c \notin R!Blank
  /\ Space \notin Letter
  /\ BufSize \in Nat /\ BufSize > 2
  BY ReaderAssumption DEF R!BufAssumption, R!KindAssumption, R!Blank

\* An empty line more changes neither.
LEMMA NoLineMore ==
  ASSUME NEW L \in Seq(Seq(Nat)), NEW p
  PROVE  /\ Sorted(L) => Sorted(Append(L, <<>>))
         /\ Covers(L, p) => Covers(Append(L, <<>>), p)
<1> DEFINE n == Len(L) + 1
           T == Append(L, <<>>)
<1>1. n \in Nat /\ DOMAIN L = 1..(n-1) /\ DOMAIN T = 1..n
      /\ T[n] = <<>> /\ \A i \in 1..(n-1) : T[i] = L[i]
  OBVIOUS
<1>2. DOMAIN T[n] = {}
  BY <1>1
<1> HIDE DEF n, T
<1>3. ASSUME Sorted(L) PROVE Sorted(T)
  <2> SUFFICES ASSUME NEW i \in DOMAIN T, NEW j \in DOMAIN T, NEW x \in DOMAIN T[i], NEW y \in DOMAIN T[j],
                      i < j \/ (i = j /\ x < y)
               PROVE  T[i][x] < T[j][y]
    BY DEF Sorted
  <2>1. i \in 1..(n-1) /\ j \in 1..(n-1)
    BY <1>1, <1>2
  <2> QED
    BY <1>1, <1>3, <2>1 DEF Sorted
<1>4. ASSUME Covers(L, p) PROVE Covers(T, p)
  <2>1. \A i \in DOMAIN L : i \in DOMAIN T /\ T[i] = L[i]
    BY <1>1
  <2> QED
    BY <1>4, <2>1 DEF Covers
<1> QED
  BY <1>3, <1>4 DEF T

\* What fgets reads behind b, trimmed, keeps the lines whole and in order.
LEMMA ReadOn ==
  ASSUME R!TypeOK, NEW b \in Seq(1..pos),
         NEW from \in {pos, pos + 1}, from = pos + 1 => file[pos + 1] \notin Letter,
         NEW q \in Nat, NEW c \in Seq((from+1)..q), q = from + Len(c), q <= Len(file),
         \A i \in 1..Len(c) : c[i] = from + i,
         Sorted(Append(lines, b)), Covers(Append(lines, b), pos),
         NEW t, t = R!Trimmed(b \o c)
  PROVE  /\ t \in Seq(1..q) /\ Len(t) <= Len(b) + Len(c)
         /\ Sorted(Append(lines, t)) /\ Covers(Append(lines, t), q)
<1> DEFINE s == b \o c
           X == 1..q
<1>0. /\ pos \in Nat /\ from \in Nat /\ pos <= from /\ (from = pos \/ from = pos + 1)
      /\ lines \in Seq(Seq(1..pos)) /\ Len(b) \in Nat /\ Len(c) \in Nat
      /\ DOMAIN b = 1..Len(b) /\ DOMAIN c = 1..Len(c)
  BY DEF R!TypeOK
<1>1. 1..pos \subseteq X /\ (from+1)..q \subseteq X /\ X \subseteq Nat /\ 1..pos \subseteq Nat
  BY <1>0
<1> HIDE DEF X
<1>2. c \in Seq(X) /\ b \in Seq(X)
  BY <1>1, SeqMonotonic
<1>3. s \in Seq(X) /\ Len(s) = Len(b) + Len(c)
      /\ \A i \in 1..(Len(b) + Len(c)) : s[i] = IF i <= Len(b) THEN b[i] ELSE c[i - Len(b)]
  BY <1>2, ConcatProperties
<1>t. t = R!Trimmed(s)
  OBVIOUS
<1> HIDE DEF s
<1>4. /\ t \in Seq(X) /\ Len(t) \in 0..Len(s)
      /\ \A i \in 1..Len(t) : t[i] = s[i]
      /\ \A i \in 1..Len(s) : i > Len(t) => file[s[i]] \in R!Blank
  <2>1. t \in Seq(X) /\ IsTrimmed(t, s)
    BY <1>3, <1>t, TrimmedIs
  <2> QED
    BY <2>1 DEF IsTrimmed
<1>5. DOMAIN t = 1..Len(t) /\ t \in Seq(Nat) /\ Len(t) \in Nat /\ Len(s) \in Nat
  <2>1. Len(t) \in Nat /\ DOMAIN t = 1..Len(t)
    BY <1>4, LenProperties
  <2>2. t \in Seq(Nat)
    BY <1>1, <1>4, SeqMonotonic
  <2>3. Len(s) \in Nat
    BY <1>0, <1>3
  <2> QED
    BY <2>1, <2>2, <2>3
<1>6. \A i \in 1..Len(t) : IF i <= Len(b) THEN t[i] = b[i] ELSE t[i] = from + (i - Len(b))
  <2> TAKE i \in 1..Len(t)
  <2>1. i \in 1..(Len(b) + Len(c)) /\ t[i] = s[i]
    BY <1>0, <1>3, <1>4, <1>5
  <2>2. CASE i <= Len(b)
    BY <1>3, <2>1, <2>2
  <2>3. CASE i > Len(b)
    <3>1. i - Len(b) \in 1..Len(c)
      BY <1>0, <2>1, <2>3
    <3>2. c[i - Len(b)] = from + (i - Len(b))
      BY <3>1
    <3>3. ~ (i <= Len(b))
      BY <1>0, <2>1, <2>3
    <3> QED
      BY <1>3, <2>1, <3>2, <3>3
  <2> QED
    BY <1>0, <2>1, <2>2, <2>3
<1>7. Continues(t, b, pos)
  <2>1. \A i \in 1..Len(t) : IF i <= Len(b) THEN t[i] = b[i] ELSE t[i] > pos
    <3> TAKE i \in 1..Len(t)
    <3>1. i > Len(b) => from + (i - Len(b)) > pos
      BY <1>0
    <3> QED
      BY <1>0, <1>6, <3>1
  <2>2. \A i, j \in 1..Len(t) : i > Len(b) /\ i < j => t[i] < t[j]
    <3> SUFFICES ASSUME NEW i \in 1..Len(t), NEW j \in 1..Len(t), i > Len(b), i < j
                 PROVE  t[i] < t[j]
      OBVIOUS
    <3>1. from + (i - Len(b)) < from + (j - Len(b)) /\ ~ (i <= Len(b)) /\ ~ (j <= Len(b))
      BY <1>0, <1>5
    <3> QED
      BY <1>6, <3>1
  <2> QED
    BY <1>5, <2>1, <2>2 DEF Continues
<1>8. Sorted(Append(lines, t))
  BY <1>0, <1>5, <1>7, SortedGrows
<1>9. ASSUME NEW k \in 1..q, file[k] \in Letter, k > pos \/ k \in R!S!Range(b)
      PROVE  k \in R!S!Range(t)
  <2>1. ASSUME NEW i \in 1..Len(s), s[i] = k PROVE k \in R!S!Range(t)
    <3>1. file[s[i]] \notin R!Blank
      BY <1>9, <2>1, KindFacts
    <3>2. i \in 1..Len(t)
      BY <1>4, <1>5, <3>1
    <3> QED
      BY <1>4, <1>5, <2>1, <3>2 DEF R!S!Range
  <2>2. CASE k \in R!S!Range(b)
    <3>1. PICK i \in 1..Len(b) : b[i] = k
      BY <1>0, <2>2 DEF R!S!Range
    <3>2. i \in 1..(Len(b) + Len(c)) /\ i <= Len(b)
      BY <1>0
    <3>3. s[i] = k
      BY <1>3, <3>1, <3>2
    <3> QED
      BY <1>3, <2>1, <3>2, <3>3
  <2>3. CASE k > pos
    <3>1. k # pos + 1 \/ from = pos
      BY <1>0, <1>9
    <3>2. k > from
      BY <1>0, <2>3, <3>1
    <3> DEFINE m == k - from
               i == Len(b) + m
    <3>3. m \in 1..Len(c) /\ from + m = k
      BY <1>0, <3>2
    <3> HIDE DEF m
    <3>4. c[m] = k
      BY <3>3
    <3>5. i \in 1..(Len(b) + Len(c)) /\ ~ (i <= Len(b)) /\ i - Len(b) = m
      BY <1>0, <3>3
    <3> HIDE DEF i
    <3>6. s[i] = k
      BY <1>3, <3>4, <3>5
    <3> QED
      BY <1>3, <2>1, <3>5, <3>6
  <2> QED
    BY <1>9, <2>2, <2>3
<1>10. Covers(Append(lines, t), q)
  <2>1. lines \in Seq(Seq(Nat))
    BY <1>0, <1>1, SeqMonotonic
  <2> QED
    BY <1>0, <1>9, <2>1, CoversGrows
<1>11. Len(t) <= Len(b) + Len(c)
  BY <1>0, <1>3, <1>4
<1> QED
  BY <1>4, <1>8, <1>10, <1>11 DEF X

----------------------------------------------------------------------------
(* The reader's steps *)

LEMMA InitReader == R!Init => ReaderInv
<1> SUFFICES ASSUME R!Init PROVE ReaderInv
  OBVIOUS
<1>1. /\ pos = 0 /\ eof = FALSE /\ err = FALSE /\ buf = <<>> /\ rpc = "gets" /\ lines = <<>>
      /\ file \in R!S!BoundedSeq(R!Kind, MaxFile)
  BY DEF R!Init
<1>2. file \in Seq(R!Kind)
  <2>1. PICK m \in 0..MaxFile : file \in [1..m -> R!Kind]
    BY <1>1 DEF R!S!BoundedSeq, R!S!SeqOf
  <2>2. m \in Nat
    OBVIOUS
  <2> QED
    BY <2>1, <2>2
<1>3. R!TypeOK
  <2>1. buf \in Seq(1..pos) /\ lines \in Seq(Seq(1..pos)) /\ pos \in 0..Len(file)
    BY <1>1, <1>2
  <2>2. eof \in BOOLEAN /\ err \in BOOLEAN /\ ~eof
    BY <1>1
  <2> QED
    BY <1>1, <1>2, <2>1, <2>2 DEF R!TypeOK
<1>4. R!StaysInBuffer
  BY <1>1, KindFacts DEF R!StaysInBuffer
<1>5. R!Taken = <<>>
  BY <1>1 DEF R!Taken
<1>6. Sorted(R!Taken) /\ Covers(R!Taken, pos)
  BY <1>1, <1>5 DEF Sorted, Covers
<1> QED
  BY <1>1, <1>3, <1>4, <1>6 DEF ReaderInv

\* What the type invariant says of the lines and the buffer.
LEMMA ReaderFacts ==
  ASSUME R!TypeOK
  PROVE  /\ file \in Seq(R!Kind) /\ Len(file) \in Nat /\ pos \in 0..Len(file)
         /\ buf \in Seq(1..pos) /\ lines \in Seq(Seq(1..pos)) /\ Len(buf) \in Nat
         /\ <<>> \in Seq(1..pos) /\ lines \in Seq(Seq(Nat))
<1>1. /\ file \in Seq(R!Kind) /\ pos \in 0..Len(file)
      /\ buf \in Seq(1..pos) /\ lines \in Seq(Seq(1..pos))
  BY DEF R!TypeOK
<1>2. Len(file) \in Nat /\ Len(buf) \in Nat /\ 1..pos \subseteq Nat
  BY <1>1
<1>3. lines \in Seq(Seq(Nat))
  BY <1>1, <1>2, SeqMonotonic
<1> QED
  BY <1>1, <1>2, <1>3, EmptySeq

LEMMA GetsReader == ReaderInv /\ R!Gets => ReaderInv'
<1> SUFFICES ASSUME ReaderInv, R!Gets PROVE ReaderInv'
  OBVIOUS
<1> DEFINE n == BufSize - 1
           c == R!Chunk(pos, n)
           q == pos + Len(c)
<1>0. R!TypeOK /\ Sorted(R!Taken) /\ rpc = "gets"
  BY DEF ReaderInv, R!Gets
<1>1. R!Room(<<>>) = n /\ n \in Nat /\ n > 1 /\ n < BufSize
  BY KindFacts DEF R!Room
<1>2. /\ rpc = "gets" /\ rpc' = "peek" /\ buf' = R!Trimmed(c) /\ pos' = q
      /\ eof' = R!MeetsEnd(pos, n)
      /\ UNCHANGED <<file, err, lines>>
  BY <1>1 DEF R!Gets
<1>3. /\ file \in Seq(R!Kind) /\ Len(file) \in Nat /\ pos \in 0..Len(file)
      /\ lines \in Seq(Seq(1..pos)) /\ <<>> \in Seq(1..pos) /\ lines \in Seq(Seq(Nat))
  BY <1>0, ReaderFacts
<1>4. pos + n > 0
  BY <1>1, <1>3
<1> HIDE DEF n
<1>c. c = R!Chunk(pos, n)
  OBVIOUS
<1> HIDE DEF c
<1>5. /\ c \in Seq((pos+1)..(pos + Len(c))) /\ Len(c) \in Nat
      /\ pos + Len(c) <= Len(file) /\ Len(c) < n
      /\ \A i \in 1..Len(c) : c[i] = pos + i
      /\ R!MeetsEnd(pos, n) => pos + Len(c) = Len(file)
  <2>1. HasRead(c, pos, n)
    BY <1>1, <1>3, <1>4, <1>c, ChunkReads
  <2> QED
    BY <1>1, <2>1 DEF HasRead
<1>6. q \in Nat /\ q = pos + Len(c) /\ q <= Len(file) /\ c \in Seq((pos+1)..q) /\ pos <= q
  BY <1>3, <1>5
<1> HIDE DEF q
<1>7. Sorted(Append(lines, <<>>)) /\ Covers(Append(lines, <<>>), pos)
  <2>1. Sorted(lines) /\ Covers(lines, pos)
    BY <1>2 DEF ReaderInv, R!Taken
  <2> QED
    BY <1>3, <2>1, NoLineMore
<1>8. <<>> \o c = c
  BY <1>6, ConcatEmptySeq
<1>9. /\ buf' \in Seq(1..q) /\ Len(buf') <= Len(<<>>) + Len(c)
      /\ Sorted(Append(lines, buf')) /\ Covers(Append(lines, buf'), q)
  <2>1. pos \in {pos, pos + 1} /\ pos # pos + 1 /\ buf' = R!Trimmed(<<>> \o c)
    BY <1>2, <1>3, <1>8
  <2> QED
    BY <1>0, <1>3, <1>5, <1>6, <1>7, <2>1, ReadOn
<1>10. lines \in Seq(Seq(1..q))
  <2>1. 1..pos \subseteq 1..q
    BY <1>3, <1>6
  <2> QED
    BY <1>3, <2>1, SeqMonotonic
<1>11. eof' \in BOOLEAN /\ err' \in BOOLEAN /\ (eof' => q = Len(file))
  <2>1. R!MeetsEnd(pos, n) \in BOOLEAN
    BY DEF R!MeetsEnd
  <2> QED
    BY <1>0, <1>2, <1>5, <1>6, <2>1 DEF R!TypeOK
<1>12. R!TypeOK'
  BY <1>2, <1>3, <1>6, <1>9, <1>10, <1>11 DEF R!TypeOK
<1>13. R!StaysInBuffer'
  <2>1. Len(buf') \in Nat
    BY <1>9
  <2> QED
    BY <1>1, <1>5, <1>9, <2>1, KindFacts DEF R!StaysInBuffer
<1>14. R!Taken' = Append(lines, buf')
  BY <1>2 DEF R!Taken
<1> QED
  BY <1>2, <1>9, <1>12, <1>13, <1>14 DEF ReaderInv, Covers

LEMMA ContinueReader == ReaderInv /\ R!Continue => ReaderInv'
<1> SUFFICES ASSUME ReaderInv, R!Continue PROVE ReaderInv'
  OBVIOUS
<1> DEFINE n == BufSize - Len(buf) - 1
           c == R!Chunk(pos + 1, n)
           q == pos + 1 + Len(c)
<1>0. R!TypeOK /\ R!StaysInBuffer /\ rpc = "peek" /\ file[pos + 1] = Space /\ pos < Len(file)
  BY DEF ReaderInv, R!Continue, R!ContinuationNext
<1>2. /\ rpc' = "peek" /\ buf' = R!Trimmed(buf \o c) /\ pos' = q
      /\ eof' = R!MeetsEnd(pos + 1, n)
      /\ UNCHANGED <<file, err, lines>>
  BY <1>0 DEF R!Continue, R!Room
<1>3. /\ file \in Seq(R!Kind) /\ Len(file) \in Nat /\ pos \in 0..Len(file)
      /\ lines \in Seq(Seq(1..pos)) /\ buf \in Seq(1..pos) /\ Len(buf) \in Nat
  BY <1>0, ReaderFacts
<1>4. n \in Nat /\ pos + 1 \in 0..Len(file) /\ pos + 1 + n > 0 /\ Len(buf) + n < BufSize
  BY <1>0, <1>3, KindFacts DEF R!StaysInBuffer
<1> HIDE DEF n
<1>c. c = R!Chunk(pos + 1, n)
  OBVIOUS
<1> HIDE DEF c
<1>5. /\ c \in Seq((pos + 1 + 1)..(pos + 1 + Len(c))) /\ Len(c) \in Nat
      /\ pos + 1 + Len(c) <= Len(file) /\ Len(c) <= n
      /\ \A i \in 1..Len(c) : c[i] = pos + 1 + i
      /\ R!MeetsEnd(pos + 1, n) => pos + 1 + Len(c) = Len(file)
  <2>1. HasRead(c, pos + 1, n)
    BY <1>3, <1>4, <1>c, ChunkReads
  <2> QED
    BY <2>1 DEF HasRead
<1>6. q \in Nat /\ q = pos + 1 + Len(c) /\ q <= Len(file) /\ c \in Seq((pos + 1 + 1)..q) /\ pos <= q
  BY <1>3, <1>5
<1> HIDE DEF q
<1>7. Sorted(Append(lines, buf)) /\ Covers(Append(lines, buf), pos)
  BY <1>0 DEF ReaderInv, R!Taken
<1>9. /\ buf' \in Seq(1..q) /\ Len(buf') <= Len(buf) + Len(c)
      /\ Sorted(Append(lines, buf')) /\ Covers(Append(lines, buf'), q)
  <2>1. pos + 1 \in {pos, pos + 1} /\ file[pos + 1] \notin Letter
    BY <1>0, KindFacts
  <2>2. buf' = R!Trimmed(buf \o c)
    BY <1>2
  <2> QED
    BY <1>0, <1>3, <1>5, <1>6, <1>7, <2>1, <2>2, ReadOn
<1>10. lines \in Seq(Seq(1..q))
  <2>1. 1..pos \subseteq 1..q
    BY <1>3, <1>6
  <2> QED
    BY <1>3, <2>1, SeqMonotonic
<1>11. eof' \in BOOLEAN /\ err' \in BOOLEAN /\ (eof' => q = Len(file))
  <2>1. R!MeetsEnd(pos + 1, n) \in BOOLEAN
    BY DEF R!MeetsEnd
  <2> QED
    BY <1>0, <1>2, <1>5, <1>6, <2>1 DEF R!TypeOK
<1>12. R!TypeOK'
  BY <1>2, <1>3, <1>6, <1>9, <1>10, <1>11 DEF R!TypeOK
<1>13. R!StaysInBuffer'
  <2>1. Len(buf') \in Nat
    BY <1>9
  <2> QED
    BY <1>3, <1>4, <1>5, <1>9, <2>1, KindFacts DEF R!StaysInBuffer
<1>14. R!Taken' = Append(lines, buf')
  BY <1>2 DEF R!Taken
<1> QED
  BY <1>2, <1>9, <1>12, <1>13, <1>14 DEF ReaderInv, Covers

LEMMA GetsNoneReader == ReaderInv /\ R!GetsNone => ReaderInv'
<1> SUFFICES ASSUME ReaderInv, R!GetsNone PROVE ReaderInv'
  OBVIOUS
<1> DEFINE n == BufSize - 1
           c == R!Chunk(pos, n)
<1>1. R!Room(<<>>) = n /\ n \in Nat /\ n > 1
  BY KindFacts DEF R!Room
<1>2. /\ R!TypeOK /\ rpc = "gets" /\ rpc' = "end" /\ c = <<>> /\ eof' = TRUE
      /\ UNCHANGED <<file, pos, err, buf, lines>>
  BY <1>1 DEF ReaderInv, R!GetsNone
<1>3. file \in Seq(R!Kind) /\ pos \in 0..Len(file)
  BY <1>2, ReaderFacts
<1>4. pos + n > 0
  BY <1>1, <1>3
<1> HIDE DEF n
<1>5. pos = Len(file)
  <2>1. HasRead(c, pos, n)
    BY <1>1, <1>3, <1>4, ChunkReads
  <2> QED
    BY <1>1, <1>2, <2>1 DEF HasRead
<1>6. R!TypeOK'
  <2>1. eof' \in BOOLEAN
    BY <1>2
  <2> QED
    BY <1>2, <1>5, <2>1 DEF R!TypeOK
<1>7. R!Taken' = R!Taken
  BY <1>2 DEF R!Taken
<1> QED
  BY <1>2, <1>5, <1>6, <1>7 DEF ReaderInv, R!StaysInBuffer, Covers

LEMMA GetsFailsReader == ReaderInv /\ R!GetsFails => ReaderInv'
<1> SUFFICES ASSUME ReaderInv, R!GetsFails PROVE ReaderInv'
  OBVIOUS
<1>1. /\ R!TypeOK /\ rpc \in {"gets", "peek"} /\ rpc' = "aborted" /\ err' = TRUE
      /\ UNCHANGED <<file, pos, eof, buf, lines>>
  BY DEF ReaderInv, R!GetsFails, R!ContinuationNext
<1>2. R!TypeOK'
  <2>1. err' \in BOOLEAN
    BY <1>1
  <2> QED
    BY <1>1, <2>1 DEF R!TypeOK
<1>3. R!Taken' = lines
  BY <1>1 DEF R!Taken
<1>4. Sorted(lines)
  <2>1. CASE rpc = "gets"
    BY <2>1 DEF ReaderInv, R!Taken
  <2>2. CASE rpc = "peek"
    <3> DEFINE T == Append(lines, buf)
    <3>1. Sorted(T)
      BY <2>2 DEF ReaderInv, R!Taken
    <3>2. \A i \in DOMAIN lines : i \in DOMAIN T /\ T[i] = lines[i]
      BY <1>1, ReaderFacts
    <3> HIDE DEF T
    <3> QED
      BY <3>1, <3>2 DEF Sorted
  <2> QED
    BY <1>1, <2>1, <2>2
<1> QED
  BY <1>1, <1>2, <1>3, <1>4 DEF ReaderInv, R!StaysInBuffer

LEMMA HandOnReader == ReaderInv /\ (R!AtEnd \/ R!NextLine \/ R!PeekFails) => ReaderInv'
<1> SUFFICES ASSUME ReaderInv, R!AtEnd \/ R!NextLine \/ R!PeekFails PROVE ReaderInv'
  OBVIOUS
<1>1. /\ R!TypeOK /\ rpc = "peek" /\ rpc' = "gets" /\ lines' = Append(lines, buf)
      /\ UNCHANGED <<file, pos, buf>>
  BY DEF ReaderInv, R!AtEnd, R!NextLine, R!PeekFails, R!HandOn
<1>2. eof' \in BOOLEAN /\ err' \in BOOLEAN /\ (eof' => pos = Len(file))
  <2>1. eof \in BOOLEAN /\ err \in BOOLEAN /\ (eof => pos = Len(file))
    BY <1>1 DEF R!TypeOK
  <2>2. CASE R!AtEnd
    BY <2>1, <2>2 DEF R!AtEnd
  <2>3. CASE R!NextLine
    BY <2>1, <2>3 DEF R!NextLine
  <2>4. CASE R!PeekFails
    BY <2>1, <2>4 DEF R!PeekFails
  <2> QED
    BY <2>2, <2>3, <2>4
<1>3. lines' \in Seq(Seq(1..pos))
  BY <1>1, ReaderFacts
<1>4. R!TypeOK'
  BY <1>1, <1>2, <1>3 DEF R!TypeOK
<1>5. R!Taken' = R!Taken
  BY <1>1 DEF R!Taken
<1> QED
  BY <1>1, <1>4, <1>5 DEF ReaderInv, R!StaysInBuffer, Covers

LEMMA NextReader == ReaderInv /\ [R!Next]_(R!vars) => ReaderInv'
<1> SUFFICES ASSUME ReaderInv, [R!Next]_(R!vars) PROVE ReaderInv'
  OBVIOUS
<1>1. CASE R!Finished \/ UNCHANGED R!vars
  <2>1. UNCHANGED <<file, pos, eof, err, buf, rpc, lines>>
    BY <1>1 DEF R!Finished, R!vars
  <2>2. R!Taken' = R!Taken
    BY <2>1 DEF R!Taken
  <2> QED
    BY <2>1, <2>2 DEF ReaderInv, R!TypeOK, R!StaysInBuffer, Covers
<1> QED
  BY <1>1, GetsReader, GetsNoneReader, GetsFailsReader, ContinueReader, HandOnReader DEF R!Next

----------------------------------------------------------------------------
(* The program is a reader and a calendar *)

LEMMA StepsAreBoth ==
  [ProgramNext]_<<vars, reader>> => [Next]_vars /\ [R!Next]_(R!vars)
<1> SUFFICES ASSUME [ProgramNext]_<<vars, reader>> PROVE [Next]_vars /\ [R!Next]_(R!vars)
  OBVIOUS
<1>1. CASE Reads
  BY <1>1 DEF Reads, R!Next
<1>2. CASE PeekReadFails
  BY <1>2 DEF PeekReadFails, R!Next
<1>3. CASE ReadFails
  BY <1>3 DEF ReadFails, R!Next, Next
<1>4. CASE Processes
  BY <1>4 DEF Processes, reader, R!vars
<1>5. CASE UNCHANGED <<vars, reader>>
  BY <1>5 DEF reader, R!vars
<1> QED
  BY <1>1, <1>2, <1>3, <1>4, <1>5 DEF ProgramNext

\* Whatever the loop reads and when, main() takes the lines, converts and
\* reports as a calendar does (vcalendar.c:186-368).
THEOREM ProgramIsACalendar == ProgramSpec => Spec
<1>1. ProgramInit => Init
  BY DEF ProgramInit
<1> QED
  BY <1>1, StepsAreBoth, PTL DEF ProgramSpec, Spec

\* Whatever main() does with the lines, the loop reads as a reader does
\* (vcalendar.c:186-204).
THEOREM ProgramIsAReader == ProgramSpec => R!Spec
<1>1. ProgramInit => R!Init
  BY DEF ProgramInit
<1> QED
  BY <1>1, StepsAreBoth, PTL DEF ProgramSpec, R!Spec

LEMMA ReaderInvariant == R!Spec => []ReaderInv
<1> QED
  BY InitReader, NextReader, PTL DEF R!Spec

\* No letter is lost, doubled or out of order, whatever the file
\* (vcalendar.c:186-204).
THEOREM LettersAreKept == ProgramSpec => []LettersKept
<1>1. ReaderInv => LettersKept
  BY DEF ReaderInv, LettersKept, R!LettersKept, Sorted, Covers
<1> QED
  BY <1>1, ProgramIsAReader, ReaderInvariant, PTL

----------------------------------------------------------------------------
(* Reading and processing take turns *)

\* The logical line at place i, as main() understands it.
MeantBy(i) == Meaning[[k \in DOMAIN lines[i] |-> file[lines[i][k]]]]

\* What main() has taken are the lines that were read, in their order, but for
\* the last of them at most; and what it prints it prints at the end.
InTurns ==
  /\ Len(lines) = Len(seen) \/ Len(lines) = Len(seen) + 1
  /\ \A i \in DOMAIN seen : seen[i] = MeantBy(i)
  /\ pc # "lines" \/ rpc # "gets" => Len(lines) = Len(seen)
  /\ pc = "report" \/ printed > 0 => rpc = "end"

LEMMA InitInTurns == ProgramInit => InTurns
  BY DEF ProgramInit, Init, R!Init, InTurns

\* A read hands on a line or it does not, and it does nothing at the end.
LEMMA ReadStep ==
  ASSUME Reads \/ PeekReadFails \/ ReadFails
  PROVE  /\ Reading /\ UNCHANGED <<file, seen, printed>> /\ pc' \in {"lines", "aborted"}
         /\ \/ UNCHANGED lines
            \/ lines' = Append(lines, buf) /\ rpc' = "gets" /\ pc' = "lines"
         /\ rpc # "end"
<1>1. CASE Reads
  <2>1. Reading /\ UNCHANGED vars
    BY <1>1 DEF Reads
  <2>2. pc = "lines" /\ UNCHANGED <<seen, printed, pc>>
    BY <2>1 DEF Reading, vars
  <2>3. CASE R!Gets
    BY <2>1, <2>2, <2>3 DEF R!Gets
  <2>4. CASE R!GetsNone
    BY <2>1, <2>2, <2>4 DEF R!GetsNone
  <2>5. CASE R!Continue
    BY <2>1, <2>2, <2>5 DEF R!Continue, R!ContinuationNext
  <2>6. CASE R!AtEnd \/ R!NextLine
    BY <2>1, <2>2, <2>6 DEF R!AtEnd, R!NextLine, R!HandOn
  <2> QED
    BY <1>1, <2>3, <2>4, <2>5, <2>6 DEF Reads
<1>2. CASE PeekReadFails
  BY <1>2 DEF PeekReadFails, Reading, R!PeekFails, R!HandOn, vars
<1>3. CASE ReadFails
  BY <1>3 DEF ReadFails, Reading, R!GetsFails, R!ContinuationNext, EzFails
<1> QED
  BY <1>1, <1>2, <1>3

\* Of what main() does, only taking a line and finding the end of them happen
\* between lines, and only the report prints.
LEMMA CalendarStep ==
  ASSUME Next
  PROVE  \/ /\ pc = "lines" /\ \E l \in Line : seen' = Append(seen, l)
            /\ UNCHANGED printed /\ pc' # "report"
         \/ pc = "lines" /\ UNCHANGED <<seen, printed>> /\ pc' \in {"report", "aborted"}
         \/ /\ pc # "lines" /\ UNCHANGED seen
            /\ pc' = "report" => pc = "report"
            /\ UNCHANGED printed \/ pc = "report"
<1>1. ASSUME NEW l \in Line,
             \/ Other(l) \/ TextLine(l) \/ TextStarved(l) \/ TimeLine(l)
             \/ Attendee(l) \/ AttendeeCrash(l) \/ AttendeeRefused(l)
      PROVE  pc = "lines" /\ seen' = Append(seen, l) /\ UNCHANGED printed /\ pc' # "report"
  BY <1>1 DEF Other, TextLine, TextStarved, TimeLine, Attendee, AttendeeCrash,
              AttendeeRefused, Takes, Refused
<1>2. CASE Construct \/ Open \/ Version \/ Help \/ EzFails \/ EndOfFile
  BY <1>2 DEF Construct, Open, Version, Help, EzFails, EndOfFile
<1>3. CASE Timegm \/ NoZone \/ SetTZ \/ Mktime \/ RestoreTZ \/ Store
  BY <1>3 DEF Timegm, NoZone, Refused, SetTZ, Mktime, RestoreTZ, Store
<1>4. CASE PrintSection \/ SortAttendees \/ PrintAttendees
  BY <1>4 DEF PrintSection, SortAttendees, PrintAttendees
<1>5. CASE Finished
  BY <1>5 DEF Finished, Ended, vars
<1> QED
  BY <1>1, <1>2, <1>3, <1>4, <1>5 DEF Next

\* What a line means does not change when it is not the last.
LEMMA MeaningStays ==
  ASSUME lines \in Seq(Seq(Nat)), buf \in Seq(Nat), UNCHANGED file,
         UNCHANGED lines \/ lines' = Append(lines, buf),
         NEW i \in DOMAIN lines
  PROVE  MeantBy(i)' = MeantBy(i)
<1>1. lines'[i] = lines[i]
  <2>1. i \in 1..Len(lines)
    OBVIOUS
  <2>2. Append(lines, buf)[i] = lines[i]
    BY <2>1, AppendProperties
  <2> QED
    BY <2>2
<1> QED
  BY <1>1 DEF MeantBy

LEMMA NextInTurns ==
  CalInv /\ ReaderInv /\ InTurns /\ [ProgramNext]_<<vars, reader>> => InTurns'
<1> SUFFICES ASSUME CalInv, ReaderInv, InTurns, [ProgramNext]_<<vars, reader>>
             PROVE  InTurns'
  OBVIOUS
<1>1. /\ seen \in Seq(Line) /\ Len(seen) \in Nat
      /\ lines \in Seq(Seq(Nat)) /\ Len(lines) \in Nat /\ buf \in Seq(Nat)
      /\ DOMAIN seen = 1..Len(seen) /\ DOMAIN lines = 1..Len(lines)
  <2>1. seen \in Seq(Line)
    BY DEF CalInv, TypeOK
  <2>2. lines \in Seq(Seq(Nat))
    BY ReaderFacts DEF ReaderInv
  <2>3. buf \in Seq(Nat)
    <3>1. pos \in Nat /\ buf \in Seq(1..pos)
      BY ReaderFacts DEF ReaderInv
    <3>2. 1..pos \subseteq Nat
      OBVIOUS
    <3> QED
      BY <3>1, <3>2, SeqMonotonic
  <2> QED
    BY <2>1, <2>2, <2>3
<1>2. DOMAIN seen \subseteq DOMAIN lines
  <2>1. Len(lines) = Len(seen) \/ Len(lines) = Len(seen) + 1
    BY DEF InTurns
  <2>2. Len(seen) \in Nat /\ Len(lines) \in Nat
    BY <1>1
  <2>3. Len(seen) <= Len(lines)
    BY <2>1, <2>2
  <2>4. 1..Len(seen) \subseteq 1..Len(lines)
    BY <2>2, <2>3
  <2> QED
    BY <1>1, <2>4
<1>3. CASE Reads \/ PeekReadFails \/ ReadFails
  <2>1. /\ pc = "lines" /\ Len(seen) = Len(lines) /\ UNCHANGED <<file, seen, printed>>
        /\ pc' \in {"lines", "aborted"}
        /\ \/ UNCHANGED lines
           \/ lines' = Append(lines, buf) /\ rpc' = "gets" /\ pc' = "lines"
        /\ rpc # "end"
    BY <1>3, ReadStep DEF Reading
  <2>2. \A i \in DOMAIN seen : MeantBy(i)' = MeantBy(i)
    BY <1>1, <1>2, <2>1, MeaningStays
  <2>3. \A i \in DOMAIN seen' : seen'[i] = MeantBy(i)'
    BY <2>1, <2>2 DEF InTurns
  <2>4. Len(lines') = Len(lines) \/ (Len(lines') = Len(lines) + 1 /\ rpc' = "gets" /\ pc' = "lines")
    BY <1>1, <2>1
  <2>5. printed = 0
    BY <2>1 DEF CalInv, Reported
  <2> QED
    BY <1>1, <2>1, <2>3, <2>4, <2>5 DEF InTurns
<1>4. CASE Processes
  <2>1. Next /\ Due /\ UNCHANGED <<file, lines, rpc>>
    BY <1>4 DEF Processes, reader
  <2>2. \A i \in DOMAIN lines : MeantBy(i)' = MeantBy(i)
    BY <1>1, <2>1, MeaningStays
  <2>3. CASE UNCHANGED seen
    <3>1. \A i \in DOMAIN seen' : seen'[i] = MeantBy(i)'
      BY <1>2, <2>2, <2>3, Zenon DEF InTurns
    <3>2. CASE pc = "lines"
      <4>1. pc' \in {"report", "aborted"} /\ UNCHANGED printed
        <5>1. ASSUME NEW l \in Line, Append(seen, l) = seen PROVE FALSE
          <6>1. seen \in Seq(Line)
            BY <1>1
          <6>2. Len(Append(seen, l)) = Len(seen) + 1 /\ Len(seen) \in Nat
            BY <6>1
          <6> QED
            BY <5>1, <6>2
        <5> QED
          BY <2>1, <2>3, <3>2, <5>1, CalendarStep
      <4>2. rpc = "end"
        BY <2>1, <3>2, <4>1, Zenon DEF Due
      <4> QED
        BY <1>1, <2>1, <2>3, <3>1, <4>1, <4>2, Zenon DEF InTurns
    <3>3. CASE pc # "lines"
      <4>1. (pc' = "report" => pc = "report") /\ (UNCHANGED printed \/ pc = "report")
        BY <2>1, <3>3, CalendarStep, Zenon
      <4> QED
        BY <1>1, <2>1, <2>3, <3>1, <3>3, <4>1, Zenon DEF InTurns
    <3> QED
      BY <3>2, <3>3
  <2>4. CASE ~UNCHANGED seen
    <3>1. PICK l \in Line : /\ pc = "lines" /\ seen' = Append(seen, l)
                            /\ UNCHANGED printed /\ pc' # "report"
      BY <2>1, <2>4, CalendarStep
    <3>2. Len(lines) = Len(seen) + 1 /\ Line0' = LineRead /\ Len(seen') = Len(lines)
      <4>1. Line0' = LineRead /\ Len(seen) < Len(lines)
        BY <2>1, <2>4, <3>1 DEF Due
      <4>2. Len(lines) = Len(seen) + 1
        <5>1. Len(lines) = Len(seen) \/ Len(lines) = Len(seen) + 1
          BY DEF InTurns
        <5>2. Len(seen) \in Nat /\ Len(lines) \in Nat /\ Len(seen) < Len(lines)
          BY <1>1, <4>1
        <5> QED
          BY <5>1, <5>2
      <4>3. Len(seen') = Len(seen) + 1
        BY <1>1, <3>1, AppendProperties
      <4> QED
        BY <4>1, <4>2, <4>3
    <3>3. ASSUME NEW i \in DOMAIN seen' PROVE seen'[i] = MeantBy(i)'
      <4>1. CASE i \in DOMAIN seen
        <5>1. seen'[i] = seen[i]
          BY <1>1, <3>1, <4>1
        <5> QED
          BY <1>2, <2>2, <4>1, <5>1 DEF InTurns
      <4>2. CASE i = Len(lines)
        <5>1. seen'[i] = LineRead /\ i \in DOMAIN lines
          BY <1>1, <3>2, <4>2 DEF Line0
        <5>2. LineRead = MeantBy(i)
          BY <4>2 DEF LineRead, MeantBy
        <5> QED
          BY <2>2, <5>1, <5>2
      <4>3. i \in 1..Len(lines)
        BY <1>1, <3>1, <3>2
      <4> QED
        BY <1>1, <3>2, <4>1, <4>2, <4>3
    <3> QED
      BY <1>1, <2>1, <3>1, <3>2, <3>3, Zenon DEF InTurns
  <2> QED
    BY <2>3, <2>4
<1>5. CASE UNCHANGED <<vars, reader>>
  <2>1. UNCHANGED <<seen, printed, pc, lines, file, rpc>>
    BY <1>5 DEF vars, reader
  <2>2. \A i \in DOMAIN lines : MeantBy(i)' = MeantBy(i)
    BY <1>1, <2>1, MeaningStays
  <2> QED
    BY <1>2, <2>1, <2>2 DEF InTurns
<1> QED
  BY <1>3, <1>4, <1>5 DEF ProgramNext

\* The program is in good order: buffer, lines and what is kept of them, and
\* main() has dealt with each line before the next is read.
ProgramInv == CalInv /\ ReaderInv /\ InTurns

THEOREM ProgramInvariant == ProgramSpec => []ProgramInv
<1>1. ProgramInit => InTurns
  BY InitInTurns
<1>2. CalInv /\ ReaderInv /\ InTurns /\ [ProgramNext]_<<vars, reader>> => InTurns'
  BY NextInTurns
<1>3. ProgramSpec => []CalInv /\ []ReaderInv
  BY ProgramIsACalendar, CalendarInvariant, ProgramIsAReader, ReaderInvariant, PTL
<1>4. ProgramSpec => []InTurns
  BY <1>1, <1>2, <1>3, PTL DEF ProgramSpec
<1> QED
  BY <1>3, <1>4, PTL DEF ProgramInv

\* Buffer, lines and what main() keeps are sound, and a line is processed before
\* the next one is read (vcalendar.c:186-300).
THEOREM ProgramTypeCorrect == ProgramSpec => []ProgramTypeOK
<1>1. ProgramInv => ProgramTypeOK
  <2> SUFFICES ASSUME ProgramInv PROVE ProgramTypeOK
    OBVIOUS
  <2>1. Len(seen) \in Nat /\ Len(lines) \in Nat
    <3>1. seen \in Seq(Line)
      BY DEF ProgramInv, CalInv, TypeOK
    <3>2. lines \in Seq(Seq(Nat))
      BY ReaderFacts DEF ProgramInv, ReaderInv
    <3> QED
      BY <3>1, <3>2
  <2>2. Len(lines) - Len(seen) \in {0, 1}
    BY <2>1 DEF ProgramInv, InTurns
  <2> QED
    BY <2>2 DEF ProgramInv, CalInv, ReaderInv, ProgramTypeOK
<1> QED
  BY <1>1, ProgramInvariant, PTL

\* What is reported of a file is true of the lines that main() made of it, and
\* all of it or nothing; and these are the lines that were read, each of them
\* by the time anything is printed, which is when the file has been read to its
\* end (vcalendar.c:186-368).
ReportOfLines ==
  /\ ReportTrue /\ AllOrNothing
  /\ \A i \in DOMAIN seen : seen[i] = MeantBy(i)
  /\ printed > 0 => Len(seen) = Len(lines) /\ rpc = "end" /\ pos = Len(file)

THEOREM ReportIsOfTheLines == ProgramSpec => []ReportOfLines
<1>1. ProgramInv => ReportOfLines
  BY ReportIsTrue, ReportIsWhole DEF ProgramInv, ReaderInv, InTurns, ReportOfLines
<1> QED
  BY <1>1, ProgramInvariant, PTL

----------------------------------------------------------------------------
(* Physical and logical lines *)

\* A physical line ends at its newline, or with the file.
LEMMA EndIs ==
  ASSUME file \in Seq(R!Kind), NEW k \in 1..Len(file), NEW e, e = R!EndOf(k)
  PROVE  /\ e \in k..Len(file) /\ (e = Len(file) \/ file[e] = Newline)
         /\ \A j \in k..Len(file) : file[j] = Newline => e <= j
<1> DEFINE T == {j \in k..Len(file) : file[j] = Newline} \cup {Len(file)}
<1>1. Len(file) \in Nat
  OBVIOUS
<1>2. T \in SUBSET Nat /\ T # {}
  BY <1>1
<1>3. R!NewlineAfter(k - 1) = {j \in k..Len(file) : file[j] = Newline}
  <2>1. k - 1 + 1 = k
    OBVIOUS
  <2> QED
    BY <2>1 DEF R!NewlineAfter
<1>4. e = R!F!Min(T)
  BY <1>3 DEF R!EndOf
<1>5. e \in T /\ \A j \in T : e <= j
  BY <1>2, <1>4, MinIs
<1> QED
  BY <1>1, <1>5

LEMMA PhysicalLine ==
  ASSUME file \in Seq(R!Kind), NEW s \in R!Starts, NEW q, q = R!EndOf(s)
  PROVE  /\ Len(file) \in Nat /\ s \in 1..Len(file) /\ q \in s..Len(file)
         /\ q = Len(file) \/ file[q] = Newline
         /\ \A k \in s..q : k < q => file[k] # Newline
         /\ \A k \in (s+1)..q : k \notin R!Starts
         /\ \A k \in s..q : R!EndOf(k) = q
<1>1. Len(file) \in Nat /\ s \in 1..Len(file)
  BY DEF R!Starts
<1>2. /\ q \in s..Len(file) /\ (q = Len(file) \/ file[q] = Newline)
      /\ \A j \in s..Len(file) : file[j] = Newline => q <= j
  BY <1>1, EndIs
<1>3. \A k \in s..q : k < q => file[k] # Newline
  BY <1>1, <1>2
<1>4. ASSUME NEW k \in (s+1)..q PROVE k \notin R!Starts
  <2>1. k - 1 \in s..q /\ k - 1 < q /\ k # 1
    BY <1>1, <1>2
  <2> QED
    BY <1>3, <2>1 DEF R!Starts
<1>5. ASSUME NEW k \in s..q PROVE R!EndOf(k) = q
  <2> DEFINE e == R!EndOf(k)
  <2>1. k \in 1..Len(file)
    BY <1>1, <1>2
  <2>2. /\ e \in k..Len(file) /\ (e = Len(file) \/ file[e] = Newline)
        /\ \A j \in k..Len(file) : file[j] = Newline => e <= j
    BY <2>1, EndIs
  <2> HIDE DEF e
  <2>3. q <= e
    BY <1>1, <1>2, <2>1, <2>2
  <2>4. e <= q
    BY <1>1, <1>2, <2>1, <2>2
  <2> QED
    BY <1>1, <1>2, <2>2, <2>3, <2>4 DEF e
<1> QED
  BY <1>1, <1>2, <1>3, <1>4, <1>5

\* What of the physical line at s belongs to the logical line at h.
Segment(h, s) ==
  s = h \/ (s \in R!Folds /\ s > h /\ R!Heads \cap (h+1)..s = {})

Behind(h, s) == IF s = h THEN s - 1 ELSE s

\* Of the characters behind p and up to q, a line's end, those that trimend()
\* leaves.
LeftOf(p, q) == {k \in (p + 1)..q : \E j \in k..q : file[j] \notin R!Blank}

LEMMA LogicalOn ==
  ASSUME file \in Seq(R!Kind), NEW h \in R!Heads, NEW s, Segment(h, s), NEW q, q = R!EndOf(s)
  PROVE  /\ s \in R!Starts /\ h <= s /\ R!Heads \cap (h+1)..q = {}
         /\ (s..q) \ R!Folds = (Behind(h, s) + 1)..q
         /\ {k \in R!Logical(h) : k <= q} =
              {k \in R!Logical(h) : k < s}
              \cup LeftOf(Behind(h, s), q)
<1>1. h \in R!Starts /\ h \notin R!Folds /\ s \in R!Starts
  BY DEF R!Heads, R!Folds, Segment
<1>2. /\ Len(file) \in Nat /\ h \in 1..Len(file) /\ s \in 1..Len(file) /\ q \in s..Len(file)
      /\ \A k \in (s+1)..q : k \notin R!Starts
      /\ \A k \in s..q : R!EndOf(k) = q
  BY <1>1, PhysicalLine
<1>3. h <= s /\ s \in Int /\ h \in Int /\ q \in Int /\ s <= q
  BY <1>2 DEF Segment
<1>4. R!Folds \subseteq R!Starts /\ R!Heads \subseteq R!Starts
  BY DEF R!Folds, R!Heads
<1>5. R!Heads \cap (h+1)..q = {}
  <2> SUFFICES ASSUME NEW k \in (h+1)..q, k \in R!Heads PROVE FALSE
    OBVIOUS
  <2>1. k \in (s+1)..q \/ k \in (h+1)..s
    BY <1>3
  <2>2. k \notin (s+1)..q
    BY <1>2, <1>4
  <2>3. k \notin (h+1)..s
    <3>1. CASE s = h
      BY <1>3, <3>1
    <3>2. CASE s # h
      BY <3>2 DEF Segment
    <3> QED
      BY <3>1, <3>2
  <2> QED
    BY <2>1, <2>2, <2>3
<1>6. (s..q) \ R!Folds = (Behind(h, s) + 1)..q
  <2>1. \A k \in (s+1)..q : k \notin R!Folds
    BY <1>2, <1>4
  <2>2. s \in R!Folds <=> s # h
    BY <1>1 DEF Segment
  <2>3. \A k \in s..q : k = s \/ k \in (s+1)..q
    BY <1>3
  <2>4. CASE s = h
    BY <1>3, <2>1, <2>2, <2>3, <2>4 DEF Behind
  <2>5. CASE s # h
    <3>1. (s+1)..q \subseteq s..q /\ s \notin (s+1)..q
      BY <1>3
    <3> QED
      BY <1>3, <2>1, <2>2, <2>3, <2>5, <3>1 DEF Behind
  <2> QED
    BY <2>4, <2>5
<1>7. ASSUME NEW k \in s..q
      PROVE  k \in R!Logical(h) <=> k \notin R!Folds /\ \E j \in k..q : file[j] \notin R!Blank
  <2>1. k \in h..Len(file) /\ R!EndOf(k) = q
    BY <1>2, <1>3
  <2>2. R!Heads \cap (h+1)..k = {}
    BY <1>3, <1>5
  <2> QED
    BY <2>1, <2>2 DEF R!Logical
<1>8. \A k \in R!Logical(h) : k \in Int /\ (k <= q => k < s \/ k \in s..q)
  BY <1>2, <1>3 DEF R!Logical
<1>9. {k \in R!Logical(h) : k <= q} =
        {k \in R!Logical(h) : k < s}
        \cup {k \in (s..q) \ R!Folds : \E j \in k..q : file[j] \notin R!Blank}
  <2>1. \A k \in R!Logical(h) : k < s => k <= q
    BY <1>3, <1>8
  <2>2. \A k \in s..q : k <= q
    BY <1>3
  <2> QED
    BY <1>7, <1>8, <2>1, <2>2
<1>10. {k \in R!Logical(h) : k <= q} = {k \in R!Logical(h) : k < s} \cup LeftOf(Behind(h, s), q)
  BY <1>6, <1>9 DEF LeftOf
<1> QED
  BY <1>1, <1>3, <1>5, <1>6, <1>10

\* When there is room, fgets reads to the end of the physical line.
LEMMA ChunkToEnd ==
  ASSUME file \in Seq(R!Kind), NEW s \in R!Starts, NEW q, q = R!EndOf(s),
         NEW from, from = s - 1 \/ (from = s /\ file[s] # Newline),
         NEW n \in Nat, n > 0, q - from <= n - 1, NEW c, c = R!Chunk(from, n)
  PROVE  /\ c \in Seq(Nat) /\ from \in Nat /\ q \in Nat /\ from <= q /\ q <= Len(file)
         /\ Len(c) = q - from /\ \A i \in 1..Len(c) : c[i] = from + i
<1>1. /\ Len(file) \in Nat /\ s \in 1..Len(file) /\ q \in s..Len(file)
      /\ q = Len(file) \/ file[q] = Newline
      /\ \A k \in s..q : k < q => file[k] # Newline
  BY PhysicalLine
<1>2. from \in Nat /\ q \in Nat /\ from <= q /\ q <= Len(file) /\ from \in 0..Len(file) /\ from + n > 0
  BY <1>1
<1> DEFINE e == ChunkEnd(from, n)
<1>3. /\ e \in {from + n - 1, Len(file)} \cup R!NewlineAfter(from) /\ e \in Nat
      /\ \A x \in {from + n - 1, Len(file)} \cup R!NewlineAfter(from) : e <= x
      /\ c = [i \in 1..(e - from) |-> from + i]
  BY <1>2, ChunkIs
<1> HIDE DEF e
<1>4. R!NewlineAfter(from) = {k \in (from + 1)..Len(file) : file[k] = Newline}
  BY DEF R!NewlineAfter
<1>5. e <= q
  <2>1. CASE q = Len(file)
    BY <1>3, <2>1
  <2>2. CASE q # Len(file)
    <3>1. file[q] = Newline
      BY <1>1, <2>2
    <3>2. q # from
      BY <1>1, <3>1
    <3>3. q \in (from + 1)..Len(file)
      BY <1>1, <1>2, <3>2
    <3>4. q \in R!NewlineAfter(from)
      BY <1>4, <3>1, <3>3
    <3> QED
      BY <1>3, <3>4
  <2> QED
    BY <2>1, <2>2
<1>6. q <= e
  <2>1. CASE e = from + n - 1 \/ e = Len(file)
    BY <1>1, <1>2, <2>1
  <2>2. CASE e \in R!NewlineAfter(from)
    <3>1. e \in (from + 1)..Len(file) /\ file[e] = Newline
      BY <1>4, <2>2
    <3>2. e \in s..q => ~ (e < q)
      BY <1>1, <3>1
    <3>3. e >= s
      BY <1>1, <1>2, <3>1
    <3> QED
      BY <1>1, <1>2, <1>3, <3>2, <3>3
  <2> QED
    BY <1>3, <2>1, <2>2
<1>7. e = q
  BY <1>2, <1>3, <1>5, <1>6
<1> DEFINE m == q - from
<1>8. m \in Nat /\ c = [i \in 1..m |-> from + i]
  BY <1>2, <1>3, <1>7
<1> HIDE DEF m
<1>9. c \in [1..m -> Nat] /\ DOMAIN c = 1..m
  <2>1. \A i \in 1..m : from + i \in Nat
    BY <1>2
  <2> QED
    BY <1>8, <2>1
<1>10. c \in Seq(Nat) /\ Len(c) = m
  <2>1. m \in Nat
    BY <1>8
  <2> QED
    BY <1>9, <2>1
<1> QED
  BY <1>2, <1>8, <1>10 DEF m

\* What trimend() leaves of a line that is read on.
LEMMA TrimmedRange ==
  ASSUME NEW b \in Seq(Nat), NEW from \in Nat, NEW q \in Nat, from <= q,
         NEW c \in Seq(Nat), Len(c) = q - from, \A i \in 1..Len(c) : c[i] = from + i,
         Len(b) > 0 => file[b[Len(b)]] \notin R!Blank,
         NEW t, t = R!Trimmed(b \o c)
  PROVE  /\ R!S!Range(t) = R!S!Range(b) \cup LeftOf(from, q)
         /\ Len(t) > 0 => file[t[Len(t)]] \notin R!Blank
<1> DEFINE s == b \o c
<1>0. Len(b) \in Nat /\ Len(c) \in Nat /\ DOMAIN b = 1..Len(b)
  OBVIOUS
<1>1. s \in Seq(Nat) /\ Len(s) = Len(b) + Len(c)
      /\ \A i \in 1..(Len(b) + Len(c)) : s[i] = IF i <= Len(b) THEN b[i] ELSE c[i - Len(b)]
  BY ConcatProperties
<1>t. t = R!Trimmed(s)
  OBVIOUS
<1> HIDE DEF s
<1>2. t \in Seq(Nat) /\ IsTrimmed(t, s)
  BY <1>1, <1>t, TrimmedIs
<1>3. /\ Len(t) \in Nat /\ Len(t) <= Len(b) + Len(c) /\ DOMAIN t = 1..Len(t)
      /\ \A i \in 1..Len(t) : t[i] = s[i]
      /\ \A i \in 1..Len(s) : i > Len(t) => file[s[i]] \in R!Blank
      /\ Len(t) > 0 => file[s[Len(t)]] \notin R!Blank
  BY <1>0, <1>1, <1>2 DEF IsTrimmed
<1>4. \A i \in 1..Len(b) : s[i] = b[i] /\ i \in 1..Len(s)
  BY <1>0, <1>1
<1>5. ASSUME NEW k \in (from + 1)..q
      PROVE  Len(b) + (k - from) \in 1..Len(s) /\ s[Len(b) + (k - from)] = k
  <2>1. k - from \in 1..Len(c) /\ from + (k - from) = k
    BY <1>0
  <2> DEFINE m == k - from
  <2>2. c[m] = k
    BY <2>1
  <2>3. m \in 1..Len(c)
    BY <2>1
  <2> HIDE DEF m
  <2>4. Len(b) + m \in 1..Len(s) /\ ~ (Len(b) + m <= Len(b)) /\ Len(b) + m - Len(b) = m
    BY <1>0, <1>1, <2>3
  <2> DEFINE x == Len(b) + m
  <2>5. x \in 1..(Len(b) + Len(c)) /\ ~ (x <= Len(b)) /\ x - Len(b) = m
    BY <1>0, <2>3
  <2>6. s[x] = k
    <3> HIDE DEF x
    <3>1. s[x] = c[x - Len(b)]
      BY <1>1, <2>5
    <3> QED
      BY <2>2, <2>5, <3>1
  <2> QED
    BY <2>4, <2>6 DEF m
<1>6. Len(b) <= Len(t)
  <2> SUFFICES ASSUME Len(b) > Len(t) PROVE FALSE
    BY <1>0, <1>3
  <2>1. Len(b) > 0 /\ Len(b) \in 1..Len(b)
    BY <1>0, <1>3
  <2> QED
    BY <1>3, <1>4, <2>1
<1>7. ASSUME NEW i \in 1..Len(t), i > Len(b)
      PROVE  t[i] = from + (i - Len(b)) /\ t[i] \in (from + 1)..q
  <2> DEFINE m == i - Len(b)
  <2>1. m \in 1..Len(c) /\ i \in 1..(Len(b) + Len(c)) /\ ~ (i <= Len(b))
    BY <1>0, <1>3, <1>7
  <2>2. t[i] = c[i - Len(b)]
    BY <1>1, <1>3, <2>1
  <2>3. t[i] = c[m]
    BY <2>2
  <2>4. c[m] = from + m
    BY <2>1
  <2>5. from + m \in (from + 1)..q
    <3> HIDE DEF m
    <3> QED
      BY <1>0, <2>1
  <2> QED
    BY <2>3, <2>4, <2>5
<1>8. ASSUME NEW i \in 1..Len(t), i > Len(b)
      PROVE  \E j \in t[i]..q : file[j] \notin R!Blank
  <2>1. Len(t) \in 1..Len(t) /\ Len(t) > Len(b) /\ Len(t) > 0
    BY <1>0, <1>3, <1>8
  <2>2. t[Len(t)] = from + (Len(t) - Len(b)) /\ t[Len(t)] \in (from + 1)..q
    BY <1>7, <2>1
  <2>3. t[i] = from + (i - Len(b)) /\ t[i] \in (from + 1)..q
    BY <1>7, <1>8
  <2>4. t[Len(t)] \in t[i]..q
    BY <1>0, <1>3, <2>2, <2>3
  <2>5. file[t[Len(t)]] \notin R!Blank
    BY <1>3, <2>1
  <2> QED
    BY <2>4, <2>5
<1>9. ASSUME NEW k \in (from + 1)..q, NEW j \in k..q, file[j] \notin R!Blank
      PROVE  k \in R!S!Range(t)
  <2>1. j \in (from + 1)..q
    OBVIOUS
  <2>2. Len(b) + (j - from) <= Len(t)
    <3>1. Len(b) + (j - from) \in 1..Len(s) /\ s[Len(b) + (j - from)] = j
      BY <1>5, <2>1
    <3>2. ~ (Len(b) + (j - from) > Len(t))
      BY <1>3, <1>9, <3>1
    <3> QED
      BY <1>0, <1>3, <2>1, <3>2
  <2>3. Len(b) + (k - from) \in 1..Len(t)
    BY <1>0, <1>3, <2>1, <2>2
  <2>4. t[Len(b) + (k - from)] = k
    BY <1>3, <1>5, <2>3
  <2> QED
    BY <1>3, <2>3, <2>4 DEF R!S!Range
<1>10. R!S!Range(t) \subseteq R!S!Range(b)
         \cup {k \in (from + 1)..q : \E j \in k..q : file[j] \notin R!Blank}
  <2> SUFFICES ASSUME NEW i \in 1..Len(t)
               PROVE  t[i] \in R!S!Range(b)
                        \cup {k \in (from + 1)..q : \E j \in k..q : file[j] \notin R!Blank}
    BY <1>3 DEF R!S!Range
  <2>1. CASE i > Len(b)
    BY <1>7, <1>8, <2>1
  <2>2. CASE ~ (i > Len(b))
    <3>1. i \in 1..Len(b)
      BY <1>0, <1>3, <2>2
    <3>2. t[i] = b[i]
      BY <1>3, <1>4, <3>1
    <3>3. b[i] \in R!S!Range(b)
      BY <1>0, <3>1 DEF R!S!Range
    <3> QED
      BY <3>2, <3>3
  <2> QED
    BY <2>1, <2>2
<1>r. R!S!Range(b) = {b[i] : i \in 1..Len(b)} /\ R!S!Range(t) = {t[i] : i \in 1..Len(t)}
  BY <1>0, <1>3 DEF R!S!Range
<1>11. R!S!Range(b) \subseteq R!S!Range(t)
  <2> SUFFICES ASSUME NEW i \in 1..Len(b) PROVE b[i] \in R!S!Range(t)
    BY <1>r
  <2>1. i \in 1..Len(t)
    BY <1>0, <1>3, <1>6
  <2>2. t[i] = b[i]
    BY <1>3, <1>4, <2>1
  <2> QED
    BY <1>r, <2>1, <2>2
<1>12. Len(t) > 0 => file[t[Len(t)]] \notin R!Blank
  <2> SUFFICES ASSUME Len(t) > 0 PROVE file[t[Len(t)]] \notin R!Blank
    OBVIOUS
  <2>1. Len(t) \in 1..Len(t)
    BY <1>3
  <2>2. t[Len(t)] = s[Len(t)]
    BY <1>3, <2>1
  <2> QED
    BY <1>3, <2>2
<1>13. R!S!Range(t) = R!S!Range(b)
         \cup {k \in (from + 1)..q : \E j \in k..q : file[j] \notin R!Blank}
  BY <1>9, <1>10, <1>11
<1> QED
  BY <1>12, <1>13 DEF LeftOf

----------------------------------------------------------------------------
(* Counting: the rank of a number in a set, the length of a line *)

Rank(P, x) == Cardinality({y \in P : y < x})

LEMMA RankOf ==
  ASSUME NEW P \in SUBSET Nat, IsFiniteSet(P), NEW x \in P
  PROVE  /\ Rank(P, x) \in Nat /\ Cardinality(P) \in Nat /\ Rank(P, x) < Cardinality(P)
         /\ \A y \in P : x < y => Rank(P, x) < Rank(P, y) /\ Rank(P, y) \in Nat
         /\ \A y \in P : Rank(P, x) = Rank(P, y) => x = y
<1> DEFINE B(y) == {z \in P : z < y}
<1>1. ASSUME NEW y \in P
      PROVE  IsFiniteSet(B(y)) /\ Cardinality(B(y)) \in Nat /\ Rank(P, y) = Cardinality(B(y))
  <2>1. B(y) \in SUBSET P
    OBVIOUS
  <2>2. IsFiniteSet(B(y))
    BY <2>1, FS_Subset
  <2> QED
    BY <2>2, FS_CardinalityType DEF Rank
<1>2. ASSUME NEW y \in P
      PROVE  IsFiniteSet(B(y) \cup {y}) /\ Cardinality(B(y) \cup {y}) = Cardinality(B(y)) + 1
  <2>1. y \notin B(y)
    OBVIOUS
  <2> HIDE DEF B
  <2> QED
    BY <1>1, <2>1, FS_AddElement
<1>3. ASSUME NEW y \in P, NEW z \in P, y < z PROVE Rank(P, y) < Rank(P, z)
  <2>0. y \in Nat /\ z \in Nat /\ \A w \in P : w \in Nat
    OBVIOUS
  <2>1. B(y) \cup {y} \in SUBSET B(z)
    <3>1. \A w \in P : w < y => w < z
      BY <1>3, <2>0
    <3> QED
      BY <1>3, <3>1
  <2>2. Cardinality(B(y) \cup {y}) <= Cardinality(B(z))
    BY <1>1, <2>1, FS_Subset
  <2> HIDE DEF B
  <2> QED
    BY <1>1, <1>2, <2>2
<1>4. Rank(P, x) < Cardinality(P) /\ Cardinality(P) \in Nat
  <2>1. B(x) \cup {x} \in SUBSET P
    OBVIOUS
  <2>2. Cardinality(B(x) \cup {x}) <= Cardinality(P) /\ Cardinality(P) \in Nat
    BY <2>1, FS_Subset, FS_CardinalityType
  <2> HIDE DEF B
  <2> QED
    BY <1>1, <1>2, <2>2
<1>5. ASSUME NEW y \in P, Rank(P, x) = Rank(P, y) PROVE x = y
  <2>1. x \in Nat /\ y \in Nat /\ Rank(P, x) \in Nat
    BY <1>1
  <2>2. ~ (x < y)
    BY <1>3, <1>5, <2>1
  <2>3. ~ (y < x)
    BY <1>3, <1>5, <2>1
  <2> QED
    BY <2>1, <2>2, <2>3
<1> QED
  BY <1>1, <1>3, <1>4, <1>5

Ascending(l) == \A a, b \in DOMAIN l : a < b => l[a] < l[b]

LEMMA AscendingCount ==
  ASSUME NEW l \in Seq(Nat), Ascending(l), NEW n \in 0..Len(l)
  PROVE  /\ IsFiniteSet({l[a] : a \in 1..n})
         /\ Cardinality({l[a] : a \in 1..n}) = n
<1> DEFINE I == {l[a] : a \in 1..n}
           f == [a \in 1..n |-> l[a]]
<1>1. Len(l) \in Nat /\ n \in Nat /\ DOMAIN l = 1..Len(l) /\ 1..n \subseteq DOMAIN l
  OBVIOUS
<1>2. \A a \in 1..n : l[a] \in Nat
  BY <1>1
<1>3. f \in [1..n -> I]
  OBVIOUS
<1>4. \A a, b \in 1..n : f[a] = f[b] => a = b
  <2> SUFFICES ASSUME NEW a \in 1..n, NEW b \in 1..n, f[a] = f[b] PROVE a = b
    OBVIOUS
  <2>1. l[a] = l[b] /\ l[a] \in Nat /\ a \in DOMAIN l /\ b \in DOMAIN l
    BY <1>1, <1>2
  <2>2. ~ (a < b) /\ ~ (b < a)
    BY <2>1 DEF Ascending
  <2> QED
    BY <2>2
<1>5. \A t \in I : \E s \in 1..n : f[s] = t
  OBVIOUS
<1>6. f \in Bijection(1..n, I)
  <2>1. DOMAIN f = 1..n
    OBVIOUS
  <2> HIDE DEF f, I
  <2>2. f \in Injection(1..n, I)
    BY <1>3, <1>4, <2>1 DEF Injection, IsInjective
  <2>3. f \in Surjection(1..n, I)
    BY <1>3, <1>5 DEF Surjection
  <2> QED
    BY <2>2, <2>3 DEF Bijection
<1>7. ExistsBijection(1..n, I)
  BY <1>6 DEF ExistsBijection
<1>8. IsFiniteSet(1..n) /\ Cardinality(1..n) = n
  BY <1>1, FS_Interval
<1> HIDE DEF I
<1>9. IsFiniteSet(I) /\ Cardinality(I) = n
  BY <1>7, <1>8, FS_Bijection
<1> QED
  BY <1>9 DEF I

\* The a-th of the places in an ascending line is the one of rank a - 1.
LEMMA AscendingRank ==
  ASSUME NEW l \in Seq(Nat), Ascending(l), NEW P, P = {l[a] : a \in 1..Len(l)}
  PROVE  /\ P \in SUBSET Nat /\ IsFiniteSet(P) /\ Cardinality(P) = Len(l)
         /\ \A a \in 1..Len(l) : l[a] \in P /\ Rank(P, l[a]) = a - 1
<1>1. Len(l) \in Nat /\ DOMAIN l = 1..Len(l) /\ \A a \in 1..Len(l) : l[a] \in Nat
  OBVIOUS
<1>2. P \in SUBSET Nat
  <2>1. \A x \in P : \E a \in 1..Len(l) : x = l[a]
    BY Zenon
  <2> QED
    BY <1>1, <2>1
<1>3. IsFiniteSet(P) /\ Cardinality(P) = Len(l)
  <2>1. Len(l) \in 0..Len(l)
    BY <1>1
  <2>2. IsFiniteSet({l[a] : a \in 1..Len(l)}) /\ Cardinality({l[a] : a \in 1..Len(l)}) = Len(l)
    BY <2>1, AscendingCount
  <2> QED
    BY <2>2, Zenon
<1>4. ASSUME NEW a \in 1..Len(l) PROVE Rank(P, l[a]) = a - 1
  <2>1. \A b \in 1..Len(l) : l[b] < l[a] <=> b < a
    <3> SUFFICES ASSUME NEW b \in 1..Len(l) PROVE l[b] < l[a] <=> b < a
      OBVIOUS
    <3>1. (b < a => l[b] < l[a]) /\ (a < b => l[a] < l[b]) /\ l[a] \in Nat /\ l[b] \in Nat
      BY <1>1 DEF Ascending
    <3>2. a < b \/ a = b \/ b < a
      OBVIOUS
    <3>3. b < a => l[b] < l[a]
      BY <3>1
    <3>4. l[b] < l[a] => b < a
      BY <3>1, <3>2
    <3> QED
      BY <3>3, <3>4
  <2>2. \A b \in 1..Len(l) : b < a <=> b \in 1..(a-1)
    OBVIOUS
  <2>3. a - 1 \in 0..Len(l) /\ 1..(a-1) \subseteq 1..Len(l)
    BY <1>1
  <2>4. {y \in P : y < l[a]} = {l[b] : b \in 1..(a-1)}
    BY <2>1, <2>2, <2>3
  <2>5. Cardinality({l[b] : b \in 1..(a-1)}) = a - 1
    BY <2>3, AscendingCount
  <2> QED
    BY <2>4, <2>5 DEF Rank
<1> QED
  BY <1>1, <1>2, <1>3, <1>4

----------------------------------------------------------------------------
(* A file whose lines fit is unfolded *)

\* How many logical lines begin among the first p characters.
HeadsTo(p) == Cardinality({g \in R!Heads : g <= p})

LEMMA HeadsCount ==
  ASSUME file \in Seq(R!Kind)
  PROVE  /\ R!Heads \in SUBSET (1..Len(file)) /\ R!Heads \in SUBSET Nat
         /\ Len(file) \in Nat /\ IsFiniteSet(R!Heads)
         /\ HeadsTo(0) = 0 /\ HeadsTo(Len(file)) = Cardinality(R!Heads)
         /\ \A p \in Nat : p + 1 \in R!Heads => Rank(R!Heads, p + 1) = HeadsTo(p)
         /\ \A p \in Nat, h \in R!Heads :
              h <= p /\ R!Heads \cap (h+1)..p = {} => HeadsTo(p) = Rank(R!Heads, h) + 1
<1>1. Len(file) \in Nat /\ R!Heads \in SUBSET (1..Len(file))
  BY DEF R!Heads, R!Starts
<1>2. R!Heads \in SUBSET Nat
  BY <1>1
<1>3. IsFiniteSet(R!Heads)
  <2>1. IsFiniteSet(1..Len(file))
    BY <1>1, FS_Interval
  <2> QED
    BY <1>1, <2>1, FS_Subset
<1>4. HeadsTo(0) = 0
  <2>1. {g \in R!Heads : g <= 0} = {}
    <3>1. \A g \in R!Heads : g \in Nat /\ ~ (g <= 0)
      BY <1>1
    <3> QED
      BY <3>1
  <2> QED
    BY <2>1, FS_EmptySet DEF HeadsTo
<1>5. HeadsTo(Len(file)) = Cardinality(R!Heads)
  <2>1. {g \in R!Heads : g <= Len(file)} = R!Heads
    <3>1. \A g \in R!Heads : g <= Len(file)
      BY <1>1
    <3> QED
      BY <3>1
  <2> QED
    BY <2>1 DEF HeadsTo
<1>6. ASSUME NEW p \in Nat PROVE Rank(R!Heads, p + 1) = HeadsTo(p)
  <2>1. \A g \in R!Heads : g < p + 1 <=> g <= p
    BY <1>2
  <2>2. {g \in R!Heads : g < p + 1} = {g \in R!Heads : g <= p}
    BY <2>1
  <2> QED
    BY <2>2 DEF HeadsTo, Rank
<1>7. ASSUME NEW p \in Nat, NEW h \in R!Heads, h <= p, R!Heads \cap (h+1)..p = {}
      PROVE  HeadsTo(p) = Rank(R!Heads, h) + 1
  <2> DEFINE B == {g \in R!Heads : g < h}
  <2>1. \A g \in R!Heads : g <= p <=> g < h \/ g = h
    <3> SUFFICES ASSUME NEW g \in R!Heads PROVE g <= p <=> g < h \/ g = h
      OBVIOUS
    <3>1. g \in Nat /\ h \in Nat /\ g \notin (h+1)..p
      BY <1>2, <1>7
    <3> QED
      BY <1>7, <3>1
  <2>2. {g \in R!Heads : g <= p} = B \cup {h}
    BY <2>1
  <2>3. B \in SUBSET R!Heads /\ h \notin B
    BY <1>2
  <2>4. IsFiniteSet(B)
    BY <1>3, <2>3, FS_Subset
  <2>5. Rank(R!Heads, h) = Cardinality(B)
    BY DEF Rank
  <2> HIDE DEF B
  <2>6. Cardinality(B \cup {h}) = Cardinality(B) + 1
    BY <2>3, <2>4, FS_AddElement
  <2> QED
    BY <2>2, <2>5, <2>6 DEF HeadsTo
<1> QED
  BY <1>1, <1>2, <1>3, <1>4, <1>5, <1>6, <1>7

\* The lines L are the first logical lines of the file.
Unfolds(L) ==
  \A i \in DOMAIN L : \E h \in R!Heads :
    Rank(R!Heads, h) = i - 1 /\ R!S!Range(L[i]) = R!Logical(h)

\* Of the logical line number n, counted from 0, b is what is among the first p
\* characters, which are the end of none and the beginning of no other.
InLine(p, n, b) ==
  \E h \in R!Heads :
    /\ h <= p /\ R!Heads \cap (h+1)..p = {} /\ Rank(R!Heads, h) = n
    /\ R!S!Range(b) = {k \in R!Logical(h) : k <= p}
    /\ Len(b) > 0 => file[b[Len(b)]] \notin R!Blank

Unfolding(p, L, b, r) ==
  /\ p \in {0, Len(file)} \/ file[p] = Newline
  /\ Unfolds(L)
  /\ r # "aborted"
  /\ r \in {"gets", "end"} => HeadsTo(p) = Len(L)
  /\ r = "gets" => p = Len(file) \/ p + 1 \in R!Heads
  /\ r = "peek" => InLine(p, Len(L), b)

UnfoldInv == R!Fits /\ ~err => Unfolding(pos, lines, buf, rpc)

\* It is about the file, and that stays as it is.
LEMMA UnfoldingStays ==
  ASSUME UNCHANGED file, R!Fits /\ ~err' => Unfolding(pos', lines', buf', rpc')
  PROVE  UnfoldInv'
<1>1. R!Starts' = R!Starts /\ \A k : R!EndOf(k)' = R!EndOf(k)
  BY DEF R!Starts, R!EndOf, R!NewlineAfter
<1>2. R!Folds' = R!Folds
  BY <1>1 DEF R!Folds
<1>3. R!Heads' = R!Heads
  BY <1>1, <1>2 DEF R!Heads
<1>4. \A h : R!Logical(h)' = R!Logical(h)
  BY <1>1, <1>2, <1>3 DEF R!Logical
<1>5. R!Fits' = R!Fits
  BY <1>1, <1>2, <1>3, <1>4 DEF R!Fits
<1>6. Unfolds(lines)' <=> Unfolds(lines')
  BY <1>3, <1>4 DEF Unfolds, Rank
<1>7. InLine(pos, Len(lines), buf)' <=> InLine(pos', Len(lines'), buf')
  BY <1>3, <1>4 DEF InLine, Rank
<1>8. HeadsTo(pos)' = HeadsTo(pos')
  BY <1>3 DEF HeadsTo
<1>9. Unfolding(pos, lines, buf, rpc)' <=> Unfolding(pos', lines', buf', rpc')
  BY <1>3, <1>6, <1>7, <1>8 DEF Unfolding
<1> QED
  BY <1>5, <1>9 DEF UnfoldInv

LEMMA InitUnfold == ReaderInv /\ R!Init => UnfoldInv
<1> SUFFICES ASSUME ReaderInv, R!Init PROVE Unfolding(pos, lines, buf, rpc)
  BY DEF UnfoldInv
<1>1. file \in Seq(R!Kind) /\ pos = 0 /\ lines = <<>> /\ rpc = "gets"
  BY DEF ReaderInv, R!TypeOK, R!Init
<1>2. HeadsTo(0) = 0
  BY <1>1, HeadsCount
<1>3. 0 = Len(file) \/ 0 + 1 \in R!Heads
  <2>1. Len(file) \in Nat /\ DOMAIN file = 1..Len(file)
    BY <1>1
  <2> QED
    BY <2>1 DEF R!Heads, R!Folds, R!Starts
<1>4. Unfolds(lines)
  BY <1>1 DEF Unfolds
<1> QED
  BY <1>1, <1>2, <1>3, <1>4 DEF Unfolding

LEMMA SameCardinality == \A X : R!Cardinality(X) = Cardinality(X)
  BY DEF R!Cardinality, Cardinality, R!IsFiniteSet, IsFiniteSet

\* Every physical line fits behind what it continues.
LEMMA RoomBehind ==
  ASSUME R!Fits, file \in Seq(R!Kind), NEW h \in R!Heads, NEW s, Segment(h, s), NEW q, q = R!EndOf(s)
  PROVE  Cardinality({k \in R!Logical(h) : k < s}) + (q - Behind(h, s)) <= BufSize - 2
<1>1. Cardinality({k \in R!Logical(h) : k < s}) + Cardinality((s..q) \ R!Folds) <= BufSize - 2
  <2>1. s \in {h} \cup {x \in R!Folds : x > h /\ R!Heads \cap (h+1)..x = {}}
    BY DEF Segment
  <2>2. \A g \in R!Heads : \A x \in {g} \cup {y \in R!Folds : y > g /\ R!Heads \cap (g+1)..y = {}} :
          Cardinality({k \in R!Logical(g) : k < x}) + Cardinality((x..R!EndOf(x)) \ R!Folds) <= BufSize - 2
    BY SameCardinality DEF R!Fits
  <2> QED
    BY <2>1, <2>2
<1>2. (s..q) \ R!Folds = (Behind(h, s) + 1)..q /\ s \in R!Starts
  BY LogicalOn
<1>3. s \in Nat /\ s >= 1 /\ q \in Nat /\ s <= q
  BY <1>2, PhysicalLine
<1> DEFINE b == Behind(h, s)
<1>4. b \in Nat /\ b <= q
  BY <1>3 DEF Behind
<1> HIDE DEF b
<1>5. Cardinality((b + 1)..q) = q - b
  <2>1. b + 1 \in Int /\ q \in Int
    BY <1>3, <1>4
  <2>2. Cardinality((b + 1)..q) = IF b + 1 > q THEN 0 ELSE q - (b + 1) + 1
    BY <2>1, FS_Interval
  <2> QED
    BY <1>3, <1>4, <2>2
<1> QED
  BY <1>1, <1>2, <1>5 DEF b

\* A line in the buffer is ascending, and as long as it has places.
LEMMA BufferCount ==
  ASSUME ReaderInv, rpc = "peek"
  PROVE  /\ buf \in Seq(Nat) /\ Ascending(buf)
         /\ Cardinality(R!S!Range(buf)) = Len(buf) /\ Len(buf) \in Nat
<1>1. buf \in Seq(1..pos) /\ pos \in Nat /\ Len(buf) \in Nat /\ lines \in Seq(Seq(1..pos))
  BY ReaderFacts DEF ReaderInv
<1>2. buf \in Seq(Nat) /\ DOMAIN buf = 1..Len(buf)
  <2>1. 1..pos \subseteq Nat
    BY <1>1
  <2> QED
    BY <1>1, <2>1, SeqMonotonic
<1>3. Ascending(buf)
  <2> DEFINE T == Append(lines, buf)
  <2>1. Sorted(T)
    BY DEF ReaderInv, R!Taken
  <2>2. Len(lines) + 1 \in DOMAIN T /\ T[Len(lines) + 1] = buf
    BY <1>1, AppendProperties
  <2> HIDE DEF T
  <2> QED
    BY <2>1, <2>2 DEF Sorted, Ascending
<1>4. R!S!Range(buf) = {buf[a] : a \in 1..Len(buf)}
  BY <1>2 DEF R!S!Range
<1> QED
  BY <1>1, <1>2, <1>3, <1>4, AscendingRank

LEMMA GetsUnfold ==
  ASSUME ReaderInv, R!Fits, Unfolding(pos, lines, buf, rpc), R!Gets
  PROVE  Unfolding(pos', lines', buf', rpc')
<1> DEFINE n == BufSize - 1
           c == R!Chunk(pos, n)
           h == pos + 1
           q == R!EndOf(h)
<1>1. /\ rpc = "gets" /\ c # <<>> /\ buf' = R!Trimmed(c) /\ pos' = pos + Len(c)
      /\ rpc' = "peek" /\ UNCHANGED lines
  <2>1. R!Room(<<>>) = n
    BY KindFacts DEF R!Room
  <2> QED
    BY <2>1 DEF R!Gets
<1>2. file \in Seq(R!Kind) /\ pos \in 0..Len(file) /\ Len(file) \in Nat /\ pos \in Nat
  BY ReaderFacts DEF ReaderInv
<1>3. n \in Nat /\ n > 0 /\ n - 1 = BufSize - 2
  BY KindFacts
<1> HIDE DEF n
<1>c. c = R!Chunk(pos, n)
  OBVIOUS
<1> HIDE DEF c
<1>4. h \in R!Heads /\ HeadsTo(pos) = Len(lines)
  <2>1. pos # Len(file)
    <3>1. HasRead(c, pos, n)
      BY <1>2, <1>3, <1>c, ChunkReads
    <3>2. Len(c) \in Nat /\ pos + Len(c) <= Len(file) /\ (Len(c) = 0 => c = <<>>)
      BY <3>1 DEF HasRead
    <3> QED
      BY <1>1, <1>2, <3>2
  <2> QED
    BY <1>1, <2>1 DEF Unfolding
<1>5. Segment(h, h) /\ Behind(h, h) = pos /\ h \in R!Starts /\ h - 1 = pos
  <2>1. h - 1 = pos
    BY <1>2
  <2> QED
    BY <1>4, <2>1 DEF Segment, Behind, R!Heads
<1>6. q \in Nat /\ q <= Len(file) /\ h <= q /\ (q = Len(file) \/ file[q] = Newline)
  BY <1>2, <1>5, PhysicalLine
<1>7. /\ R!Heads \cap (h+1)..q = {}
      /\ {k \in R!Logical(h) : k <= q} =
           {k \in R!Logical(h) : k < h} \cup LeftOf(pos, q)
  BY <1>2, <1>4, <1>5, LogicalOn
<1>8. {k \in R!Logical(h) : k < h} = {}
  <2>1. \A k \in R!Logical(h) : ~ (k < h)
    BY <1>2 DEF R!Logical
  <2> QED
    BY <2>1
<1>9. q - pos <= n - 1
  <2>1. Cardinality({k \in R!Logical(h) : k < h}) + (q - Behind(h, h)) <= BufSize - 2
    BY <1>2, <1>4, <1>5, RoomBehind
  <2>2. Cardinality({k \in R!Logical(h) : k < h}) = 0
    BY <1>8, FS_EmptySet
  <2>3. 0 + (q - pos) <= BufSize - 2
    BY <1>5, <2>1, <2>2
  <2> QED
    BY <1>2, <1>3, <1>6, <2>3
<1> HIDE DEF q
<1>q. q = R!EndOf(h)
  BY DEF q
<1>10. c \in Seq(Nat) /\ pos <= q /\ Len(c) = q - pos /\ \A i \in 1..Len(c) : c[i] = pos + i
  <2>1. pos = h - 1
    BY <1>2
  <2>2. file \in Seq(R!Kind) /\ h \in R!Starts /\ n \in Nat /\ n > 0
    BY <1>2, <1>3, <1>5
  <2> HIDE DEF h
  <2>3. /\ c \in Seq(Nat) /\ pos \in Nat /\ q \in Nat /\ pos <= q /\ q <= Len(file)
        /\ Len(c) = q - pos /\ \A i \in 1..Len(c) : c[i] = pos + i
    BY <1>9, <1>c, <1>q, <2>1, <2>2, ChunkToEnd
  <2> QED
    BY <2>3
<1>11. pos' = q
  BY <1>1, <1>2, <1>6, <1>10
<1>12. /\ R!S!Range(buf') = LeftOf(pos, q)
       /\ Len(buf') > 0 => file[buf'[Len(buf')]] \notin R!Blank
  <2> DEFINE e == <<>>
  <2>1. e \in Seq(Nat) /\ Len(e) = 0 /\ e \o c = c /\ R!S!Range(e) = {}
    BY <1>10 DEF R!S!Range
  <2>2. buf' = R!Trimmed(e \o c) /\ (Len(e) > 0 => file[e[Len(e)]] \notin R!Blank)
    BY <1>1, <2>1
  <2> HIDE DEF e
  <2>3. /\ R!S!Range(buf') = R!S!Range(e) \cup LeftOf(pos, q)
        /\ Len(buf') > 0 => file[buf'[Len(buf')]] \notin R!Blank
    <3>1. pos \in Nat /\ q \in Nat /\ pos <= q /\ c \in Seq(Nat) /\ Len(c) = q - pos
      BY <1>2, <1>6, <1>10
    <3>2. \A i \in 1..Len(c) : c[i] = pos + i
      BY <1>10
    <3>3. e \in Seq(Nat)
      BY <2>1
    <3> QED
      BY <2>2, <3>1, <3>2, <3>3, TrimmedRange
  <2> QED
    BY <2>1, <2>3
<1>13. Rank(R!Heads, h) = Len(lines)
  BY <1>2, <1>4, HeadsCount
<1>14. InLine(q, Len(lines), buf')
  <2>1. R!S!Range(buf') = {k \in R!Logical(h) : k <= q}
    BY <1>7, <1>8, <1>12
  <2> HIDE DEF h
  <2> QED
    BY <1>4, <1>6, <1>7, <1>12, <1>13, <2>1 DEF InLine
<1> QED
  BY <1>1, <1>6, <1>11, <1>14 DEF Unfolding

LEMMA ContinueUnfold ==
  ASSUME ReaderInv, R!Fits, Unfolding(pos, lines, buf, rpc), R!Continue
  PROVE  Unfolding(pos', lines', buf', rpc')
<1> DEFINE n == BufSize - Len(buf) - 1
           s == pos + 1
           c == R!Chunk(s, n)
           q == R!EndOf(s)
<1>1. /\ rpc = "peek" /\ pos < Len(file) /\ file[s] = Space
      /\ buf' = R!Trimmed(buf \o c) /\ pos' = s + Len(c)
      /\ rpc' = "peek" /\ UNCHANGED lines
  <2>1. R!Room(buf) = n
    BY DEF R!Room
  <2> QED
    BY <2>1 DEF R!Continue, R!ContinuationNext
<1>2. file \in Seq(R!Kind) /\ pos \in 0..Len(file) /\ Len(file) \in Nat /\ pos \in Nat
  BY ReaderFacts DEF ReaderInv
<1>c. c = R!Chunk(s, n)
  OBVIOUS
<1>q. q = R!EndOf(s)
  OBVIOUS
<1>n. n = BufSize - Len(buf) - 1
  OBVIOUS
<1> HIDE DEF c, q, n
<1>3. PICK h \in R!Heads :
        /\ h <= pos /\ R!Heads \cap (h+1)..pos = {} /\ Rank(R!Heads, h) = Len(lines)
        /\ R!S!Range(buf) = {k \in R!Logical(h) : k <= pos}
        /\ Len(buf) > 0 => file[buf[Len(buf)]] \notin R!Blank
  BY <1>1 DEF Unfolding, InLine
<1>4. h \in Nat /\ h >= 1 /\ s \in Nat /\ h < s /\ s # h
  <2>1. h \in 1..Len(file)
    BY <1>2, HeadsCount
  <2> QED
    BY <1>2, <1>3, <2>1
<1>5. s \in R!Folds
  <2>1. file[pos] = Newline /\ s - 1 = pos /\ s > 1
    BY <1>1, <1>2, <1>3, <1>4 DEF Unfolding
  <2>2. s \in DOMAIN file
    BY <1>1, <1>2
  <2> QED
    BY <1>1, <2>1, <2>2 DEF R!Folds, R!Starts
<1>6. Segment(h, s) /\ Behind(h, s) = s
  <2>1. s \notin R!Heads
    BY <1>5 DEF R!Heads
  <2>2. (h+1)..s \subseteq ((h+1)..pos) \cup {s}
    BY <1>2, <1>4
  <2>3. R!Heads \cap (h+1)..s = {}
    BY <1>3, <2>1, <2>2
  <2> QED
    BY <1>4, <1>5, <2>3 DEF Segment, Behind
<1>7. /\ s \in R!Starts /\ R!Heads \cap (h+1)..q = {}
      /\ {k \in R!Logical(h) : k <= q} = {k \in R!Logical(h) : k < s} \cup LeftOf(s, q)
  BY <1>2, <1>6, <1>q, LogicalOn
<1>8. q \in Nat /\ q <= Len(file) /\ s <= q /\ (q = Len(file) \/ file[q] = Newline)
  BY <1>2, <1>7, <1>q, PhysicalLine
<1>9. {k \in R!Logical(h) : k < s} = R!S!Range(buf)
  <2>1. \A k \in R!Logical(h) : k < s <=> k <= pos
    BY <1>2 DEF R!Logical
  <2> QED
    BY <1>3, <2>1
<1>10. buf \in Seq(Nat) /\ Cardinality(R!S!Range(buf)) = Len(buf) /\ Len(buf) \in Nat
  BY <1>1, BufferCount
<1>11. n \in Nat /\ n > 0 /\ q - s <= n - 1
  <2>1. Cardinality({k \in R!Logical(h) : k < s}) + (q - Behind(h, s)) <= BufSize - 2
    BY <1>2, <1>6, <1>q, RoomBehind
  <2>2. Len(buf) + (q - s) <= BufSize - 2
    BY <1>6, <1>9, <1>10, <2>1
  <2> QED
    BY <1>4, <1>8, <1>10, <1>n, <2>2, KindFacts
<1>s. pos = s - 1 /\ s \in Nat
  BY <1>2
<1> HIDE DEF s
<1>12. c \in Seq(Nat) /\ s <= q /\ Len(c) = q - s /\ \A i \in 1..Len(c) : c[i] = s + i
  <2>1. file[s] # Newline
    BY <1>1, ReaderAssumption DEF R!KindAssumption
  <2>2. /\ c \in Seq(Nat) /\ s \in Nat /\ q \in Nat /\ s <= q /\ q <= Len(file)
        /\ Len(c) = q - s /\ \A i \in 1..Len(c) : c[i] = s + i
    BY <1>2, <1>7, <1>11, <1>c, <1>q, <2>1, ChunkToEnd
  <2> QED
    BY <2>2
<1>13. pos' = q
  BY <1>1, <1>8, <1>12, <1>s
<1>14. /\ R!S!Range(buf') = R!S!Range(buf) \cup LeftOf(s, q)
       /\ Len(buf') > 0 => file[buf'[Len(buf')]] \notin R!Blank
  <2>1. s \in Nat /\ q \in Nat /\ s <= q /\ c \in Seq(Nat) /\ Len(c) = q - s
    BY <1>8, <1>12, <1>s
  <2>2. \A i \in 1..Len(c) : c[i] = s + i
    BY <1>12
  <2>3. buf \in Seq(Nat) /\ (Len(buf) > 0 => file[buf[Len(buf)]] \notin R!Blank)
    BY <1>3, <1>10
  <2>4. buf' = R!Trimmed(buf \o c)
    BY <1>1
  <2> QED
    BY <2>1, <2>2, <2>3, <2>4, TrimmedRange
<1>15. InLine(q, Len(lines), buf')
  <2>1. h <= q
    BY <1>4, <1>8
  <2>2. R!S!Range(buf') = {k \in R!Logical(h) : k <= q}
    BY <1>7, <1>9, <1>14
  <2> QED
    BY <1>3, <1>7, <1>14, <2>1, <2>2 DEF InLine
<1> QED
  BY <1>1, <1>8, <1>13, <1>15 DEF Unfolding

LEMMA HandOnUnfold ==
  ASSUME ReaderInv, Unfolding(pos, lines, buf, rpc), R!AtEnd \/ R!NextLine
  PROVE  Unfolding(pos', lines', buf', rpc')
<1>1. /\ rpc = "peek" /\ rpc' = "gets" /\ lines' = Append(lines, buf) /\ UNCHANGED <<pos, buf>>
      /\ eof \/ ~R!ContinuationNext
  BY DEF R!AtEnd, R!NextLine, R!HandOn
<1>2. /\ file \in Seq(R!Kind) /\ pos \in 0..Len(file) /\ Len(file) \in Nat /\ pos \in Nat
      /\ lines \in Seq(Seq(Nat)) /\ buf \in Seq(Nat) /\ (eof => pos = Len(file))
  <2>1. buf \in Seq(Nat)
    BY <1>1, BufferCount
  <2> QED
    BY <2>1, ReaderFacts DEF ReaderInv, R!TypeOK
<1>3. PICK h \in R!Heads :
        /\ h <= pos /\ R!Heads \cap (h+1)..pos = {} /\ Rank(R!Heads, h) = Len(lines)
        /\ R!S!Range(buf) = {k \in R!Logical(h) : k <= pos}
  BY <1>1 DEF Unfolding, InLine
<1>4. h \in Nat /\ h >= 1
  BY <1>2, HeadsCount
<1>5. pos = Len(file) \/ pos + 1 \in R!Heads
  <2> SUFFICES ASSUME pos # Len(file) PROVE pos + 1 \in R!Heads
    OBVIOUS
  <2>1. pos < Len(file) /\ ~eof /\ file[pos + 1] # Space
    BY <1>1, <1>2 DEF R!ContinuationNext
  <2>2. file[pos] = Newline
    BY <1>2, <1>3, <1>4, <2>1 DEF Unfolding
  <2> DEFINE s == pos + 1
  <2>3. s \in DOMAIN file /\ s - 1 = pos
    BY <1>2, <2>1
  <2>4. s \in R!Starts
    <3> HIDE DEF s
    <3> QED
      BY <2>2, <2>3 DEF R!Starts
  <2>5. s \notin R!Folds
    BY <2>1 DEF R!Folds
  <2> QED
    BY <2>4, <2>5 DEF R!Heads
<1>6. R!S!Range(buf) = R!Logical(h)
  <2>1. ASSUME NEW k \in R!Logical(h) PROVE k <= pos
    <3>1. k \in h..Len(file) /\ R!Heads \cap (h+1)..k = {}
      BY DEF R!Logical
    <3>2. CASE pos = Len(file)
      BY <1>2, <3>1, <3>2
    <3>3. CASE pos + 1 \in R!Heads
      <4>1. pos + 1 \notin (h+1)..k
        BY <3>1, <3>3
      <4> QED
        BY <1>2, <1>3, <1>4, <3>1, <4>1
    <3> QED
      BY <1>5, <3>2, <3>3
  <2> QED
    BY <1>3, <2>1
<1>7. Len(lines') = Len(lines) + 1 /\ DOMAIN lines' = 1..(Len(lines) + 1) /\ Len(lines) \in Nat
      /\ DOMAIN lines = 1..Len(lines)
      /\ lines'[Len(lines) + 1] = buf /\ \A i \in 1..Len(lines) : lines'[i] = lines[i]
  BY <1>1, <1>2
<1>8. HeadsTo(pos) = Len(lines')
  <2>1. HeadsTo(pos) = Rank(R!Heads, h) + 1
    BY <1>2, <1>3, HeadsCount
  <2> QED
    BY <1>3, <1>7, <2>1
<1>9. Unfolds(lines')
  <2> SUFFICES ASSUME NEW i \in DOMAIN lines'
               PROVE  \E g \in R!Heads :
                        Rank(R!Heads, g) = i - 1 /\ R!S!Range(lines'[i]) = R!Logical(g)
    BY DEF Unfolds
  <2>1. CASE i = Len(lines) + 1
    <3>1. i - 1 = Len(lines) /\ lines'[i] = buf
      BY <1>7, <2>1
    <3> QED
      BY <1>3, <1>6, <3>1
  <2>2. CASE i # Len(lines) + 1
    <3>1. i \in DOMAIN lines /\ lines'[i] = lines[i]
      BY <1>7, <2>2
    <3> QED
      BY <3>1 DEF Unfolding, Unfolds
  <2> QED
    BY <2>1, <2>2
<1> QED
  BY <1>1, <1>5, <1>8, <1>9 DEF Unfolding

LEMMA NextUnfold ==
  ReaderInv /\ ReaderInv' /\ UnfoldInv /\ [R!Next]_(R!vars) => UnfoldInv'
<1> SUFFICES ASSUME ReaderInv, ReaderInv', UnfoldInv, [R!Next]_(R!vars) PROVE UnfoldInv'
  OBVIOUS
<1>0. UNCHANGED file
  <2>1. CASE R!Gets \/ R!GetsNone \/ R!GetsFails \/ R!Continue
    BY <2>1 DEF R!Gets, R!GetsNone, R!GetsFails, R!Continue
  <2>2. CASE R!AtEnd \/ R!NextLine \/ R!PeekFails
    BY <2>2 DEF R!AtEnd, R!NextLine, R!PeekFails
  <2>3. CASE R!Finished \/ UNCHANGED R!vars
    BY <2>3 DEF R!Finished, R!vars
  <2> QED
    BY <2>1, <2>2, <2>3 DEF R!Next
<1> SUFFICES ASSUME R!Fits, ~err' PROVE Unfolding(pos', lines', buf', rpc')
  BY <1>0, UnfoldingStays
<1>1. CASE R!GetsFails \/ R!PeekFails
  BY <1>1 DEF R!GetsFails, R!PeekFails
<1>2. CASE R!Gets \/ R!Continue \/ R!AtEnd \/ R!NextLine
  <2>1. ~err
    BY <1>2 DEF R!Gets, R!Continue, R!AtEnd, R!NextLine
  <2>2. Unfolding(pos, lines, buf, rpc)
    BY <2>1 DEF UnfoldInv
  <2> QED
    BY <1>2, <2>2, GetsUnfold, ContinueUnfold, HandOnUnfold
<1>3. CASE R!GetsNone
  <2>1. ~err /\ rpc = "gets" /\ rpc' = "end" /\ UNCHANGED <<file, pos, lines>>
    BY <1>3 DEF R!GetsNone
  <2>2. Unfolding(pos, lines, buf, rpc)
    BY <2>1 DEF UnfoldInv
  <2> QED
    BY <2>1, <2>2 DEF Unfolding
<1>4. CASE R!Finished \/ UNCHANGED R!vars
  <2>1. UNCHANGED <<file, pos, err, buf, rpc, lines>>
    BY <1>4 DEF R!Finished, R!vars
  <2> QED
    BY <2>1 DEF UnfoldInv
<1> QED
  BY <1>1, <1>2, <1>3, <1>4 DEF R!Next

LEMMA UnfoldInvariant == R!Spec => []UnfoldInv
<1>1. R!Init => UnfoldInv
  BY InitReader, InitUnfold
<1> QED
  BY <1>1, NextUnfold, ReaderInvariant, PTL DEF R!Spec

\* A file whose lines fit comes out as its logical lines, all of them by the
\* time the report is printed, whatever their number and length
\* (vcalendar.c:191-204).
THEOREM FileIsUnfolded == ProgramSpec => []LinesUnfold
<1>1. ReaderInv /\ UnfoldInv => LinesUnfold
  <2> SUFFICES ASSUME ReaderInv, UnfoldInv, R!Fits, ~err
               PROVE  /\ \A i \in DOMAIN lines : \E h \in R!Heads :
                           /\ Rank(R!Heads, h) = i - 1
                           /\ R!S!Range(lines[i]) = R!Logical(h)
                      /\ rpc = "end" => Len(lines) = Cardinality(R!Heads)
    BY SameCardinality DEF LinesUnfold, R!LinesUnfold, Rank
  <2>1. Unfolding(pos, lines, buf, rpc)
    BY DEF UnfoldInv
  <2>2. rpc = "end" => Len(lines) = Cardinality(R!Heads)
    <3> SUFFICES ASSUME rpc = "end" PROVE Len(lines) = Cardinality(R!Heads)
      OBVIOUS
    <3>1. file \in Seq(R!Kind) /\ pos = Len(file)
      BY ReaderFacts DEF ReaderInv
    <3> QED
      BY <2>1, <3>1, HeadsCount DEF Unfolding
  <2> QED
    BY <2>1, <2>2 DEF Unfolding, Unfolds
<1> QED
  BY <1>1, ProgramIsAReader, ReaderInvariant, UnfoldInvariant, PTL

----------------------------------------------------------------------------
(* The report is of the file *)

\* The logical line number n, counted from 1, begins where the lines before it
\* are n - 1.
LEMMA HeadNumberIs ==
  ASSUME file \in Seq(R!Kind), NEW h \in R!Heads, NEW n, Rank(R!Heads, h) = n - 1
  PROVE  HeadNumber(n) = h
<1>1. R!Heads \in SUBSET Nat /\ IsFiniteSet(R!Heads)
  BY HeadsCount
<1>2. HeadNumber(n) = CHOOSE g \in R!Heads : Rank(R!Heads, g) = n - 1
  BY DEF HeadNumber, Rank
<1> DEFINE c == CHOOSE g \in R!Heads : Rank(R!Heads, g) = n - 1
<1>3. c \in R!Heads /\ Rank(R!Heads, c) = n - 1
  OBVIOUS
<1> HIDE DEF c
<1>4. Rank(R!Heads, h) = Rank(R!Heads, c)
  BY <1>3
<1>5. h = c
  BY <1>1, <1>3, <1>4, RankOf
<1> QED
  BY <1>2, <1>5 DEF c

\* A set of places, in their order, is the ascending line that has them.
LEMMA KindsAre ==
  ASSUME NEW l \in Seq(Nat), Ascending(l), NEW P, P = R!S!Range(l)
  PROVE  KindsOf(P) = [k \in DOMAIN l |-> file[l[k]]]
<1>1. Len(l) \in Nat /\ DOMAIN l = 1..Len(l)
  OBVIOUS
<1>2. P = {l[a] : a \in 1..Len(l)}
  BY <1>1 DEF R!S!Range
<1>3. /\ P \in SUBSET Nat /\ IsFiniteSet(P) /\ Cardinality(P) = Len(l)
      /\ \A a \in 1..Len(l) : l[a] \in P /\ Rank(P, l[a]) = a - 1
  BY <1>2, AscendingRank
<1> DEFINE c(i) == CHOOSE k \in P : Rank(P, k) = i - 1
<1>4. KindsOf(P) = [i \in 1..Cardinality(P) |-> file[c(i)]]
  BY DEF KindsOf, Rank
<1>5. ASSUME NEW i \in 1..Len(l) PROVE c(i) = l[i]
  <2>1. l[i] \in P /\ Rank(P, l[i]) = i - 1
    BY <1>3
  <2>2. c(i) \in P /\ Rank(P, c(i)) = i - 1
    BY <2>1
  <2> HIDE DEF c
  <2>3. \A y \in P : Rank(P, l[i]) = Rank(P, y) => l[i] = y
    BY <1>3, <2>1, RankOf
  <2> QED
    BY <2>1, <2>2, <2>3
<1> HIDE DEF c
<1> QED
  BY <1>1, <1>3, <1>4, <1>5

LEMMA LinesAscend ==
  ASSUME ReaderInv, NEW i \in DOMAIN lines
  PROVE  lines[i] \in Seq(Nat) /\ Ascending(lines[i])
<1>1. lines \in Seq(Seq(Nat)) /\ DOMAIN lines = 1..Len(lines) /\ Len(lines) \in Nat
  BY ReaderFacts DEF ReaderInv
<1>2. i \in DOMAIN R!Taken /\ R!Taken[i] = lines[i]
  <2>1. CASE rpc = "peek"
    BY <1>1, <2>1, AppendProperties DEF R!Taken
  <2>2. CASE rpc # "peek"
    BY <2>2 DEF R!Taken
  <2> QED
    BY <2>1, <2>2
<1>3. Sorted(R!Taken)
  BY DEF ReaderInv
<1> QED
  BY <1>1, <1>2, <1>3 DEF Sorted, Ascending

\* Of a file whose lines fit, what main() took is the beginning of what the
\* file says, and it is all of that when the loop has come to its end.
LEMMA TakesWhatIsMeant ==
  ASSUME seen \in Seq(Line), ReaderInv, InTurns, UnfoldInv, R!Fits, ~err
  PROVE  /\ Seqs!IsPrefix(seen, FileMeans)
         /\ Len(seen) = Len(lines) /\ rpc = "end" => seen = FileMeans
<1> DEFINE C == Cardinality(R!Heads)
           n == Len(seen)
<1>1. /\ lines \in Seq(Seq(Nat)) /\ DOMAIN lines = 1..Len(lines) /\ Len(lines) \in Nat
      /\ n \in Nat /\ DOMAIN seen = 1..n /\ file \in Seq(R!Kind)
  BY ReaderFacts DEF ReaderInv
<1>2. n <= Len(lines)
  <2>1. Len(lines) = n \/ Len(lines) = n + 1
    BY DEF InTurns
  <2>2. n \in Nat /\ Len(lines) \in Nat
    BY <1>1
  <2> HIDE DEF n
  <2> QED
    BY <2>1, <2>2
<1>3. Unfolding(pos, lines, buf, rpc)
  BY DEF UnfoldInv
<1>4. R!Heads \in SUBSET Nat /\ IsFiniteSet(R!Heads) /\ C \in Nat
  BY <1>1, HeadsCount, FS_CardinalityType
<1>5. Len(lines) <= C
  <2> SUFFICES ASSUME Len(lines) > 0 PROVE Len(lines) <= C
    BY <1>1, <1>4
  <2>1. Len(lines) \in DOMAIN lines
    BY <1>1
  <2>2. PICK h \in R!Heads : Rank(R!Heads, h) = Len(lines) - 1
    BY <1>3, <2>1 DEF Unfolding, Unfolds
  <2>3. Rank(R!Heads, h) < C
    BY <1>4, RankOf
  <2> QED
    BY <1>1, <1>4, <2>2, <2>3
<1>6. ASSUME NEW i \in 1..n PROVE seen[i] = Meaning[KindsOf(R!Logical(HeadNumber(i)))]
  <2>1. i \in DOMAIN lines /\ seen[i] = MeantBy(i)
    <3>1. i \in DOMAIN seen
      BY <1>1
    <3>2. seen[i] = MeantBy(i)
      BY <3>1 DEF InTurns
    <3> HIDE DEF n
    <3>3. i \in 1..Len(lines)
      BY <1>1, <1>2
    <3> QED
      BY <1>1, <3>2, <3>3
  <2>2. PICK h \in R!Heads : Rank(R!Heads, h) = i - 1 /\ R!S!Range(lines[i]) = R!Logical(h)
    BY <1>3, <2>1 DEF Unfolding, Unfolds
  <2>3. HeadNumber(i) = h
    BY <1>1, <2>2, HeadNumberIs
  <2>4. lines[i] \in Seq(Nat) /\ Ascending(lines[i])
    BY <2>1, LinesAscend
  <2>5. KindsOf(R!Logical(h)) = [k \in DOMAIN lines[i] |-> file[lines[i][k]]]
    BY <2>2, <2>4, KindsAre
  <2> QED
    BY <2>1, <2>3, <2>5 DEF MeantBy
<1> HIDE DEF C, n
<1>7. FileMeans = [i \in 1..C |-> Meaning[KindsOf(R!Logical(HeadNumber(i)))]]
  BY DEF FileMeans, C
<1>8. DOMAIN FileMeans = 1..C /\ \A i \in 1..n : i \in 1..C /\ FileMeans[i] = seen[i]
  <2>1. \A i \in 1..n : i \in 1..C
    BY <1>1, <1>2, <1>4, <1>5
  <2> QED
    BY <1>6, <1>7, <2>1
<1>9. Seqs!IsPrefix(seen, FileMeans)
  <2> DEFINE X == {FileMeans[i] : i \in 1..C}
  <2>1. FileMeans \in [1..C -> X]
    BY <1>7, <1>8
  <2>2. FileMeans \in Seq(X) /\ Len(FileMeans) = C
    BY <1>4, <2>1
  <2> HIDE DEF X
  <2>3. n <= Len(FileMeans)
    BY <1>1, <1>2, <1>4, <1>5, <2>2
  <2>4. SubSeq(seen, 1, n) = [i \in 1..n |-> seen[i]]
    BY <1>1 DEF n
  <2>5. SubSeq(FileMeans, 1, n) = [i \in 1..n |-> FileMeans[i]]
    BY <1>1, <2>2, <2>3
  <2>6. SubSeq(seen, 1, n) = SubSeq(FileMeans, 1, n)
    BY <1>8, <2>4, <2>5
  <2> QED
    BY <2>3, <2>6 DEF Seqs!IsPrefix, n
<1>10. ASSUME n = Len(lines), rpc = "end" PROVE seen = FileMeans
  <2>1. pos = Len(file)
    BY <1>10 DEF ReaderInv
  <2>2. HeadsTo(pos) = Len(lines)
    BY <1>3, <1>10 DEF Unfolding
  <2>3. n = C
    BY <1>1, <1>10, <2>1, <2>2, HeadsCount DEF C
  <2>4. seen = [i \in 1..n |-> seen[i]]
    BY <1>1 DEF n
  <2>5. FileMeans = [i \in 1..n |-> FileMeans[i]]
    BY <1>7, <2>3
  <2> QED
    BY <1>8, <2>4, <2>5
<1> QED
  BY <1>9, <1>10 DEF n

\* Of a file whose lines fit, main() takes what the file says, in its order and
\* from its beginning; its report is true, all or nothing, and of the whole
\* file; and of any file, nothing is reported before all of it is read
\* (vcalendar.c:186-368).
THEOREM ReportIsOfTheFile == ProgramSpec => []ReportOfFile
<1>1. ProgramInv /\ UnfoldInv => ReportOfFile
  <2> SUFFICES ASSUME ProgramInv, UnfoldInv PROVE ReportOfFile
    OBVIOUS
  <2>1. ReportTrue /\ AllOrNothing
    BY ReportIsTrue, ReportIsWhole DEF ProgramInv
  <2>2. printed > 0 => Len(seen) = Len(lines) /\ rpc = "end" /\ pos = Len(file)
    BY DEF ProgramInv, ReaderInv, InTurns
  <2>3. ASSUME R!Fits, ~err
        PROVE  /\ Seqs!IsPrefix(seen, FileMeans)
               /\ printed = 7 => seen = FileMeans
    <3>1. seen \in Seq(Line)
      BY DEF ProgramInv, CalInv, TypeOK
    <3>2. /\ Seqs!IsPrefix(seen, FileMeans)
          /\ Len(seen) = Len(lines) /\ rpc = "end" => seen = FileMeans
      BY <2>3, <3>1, TakesWhatIsMeant DEF ProgramInv
    <3>3. printed = 7 => printed > 0
      OBVIOUS
    <3> QED
      BY <2>2, <3>2, <3>3
  <2> QED
    BY <2>1, <2>2, <2>3 DEF ReportOfFile
<1> QED
  BY <1>1, ProgramIsAReader, ProgramInvariant, UnfoldInvariant, PTL
=============================================================================
