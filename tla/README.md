# A verification project for vcalendar

vcalendar prints the content of a calendar attachment as Microsoft Outlook
sends it: when the event starts and ends, what it is about, who is invited.
The program proper is `vcalendar.c` with `atnd.c` and the table `tz_xref.c`; it
stands on the author's "EZ" library, which comes with it: growing vectors and
strings, error reporting, and wrappers of libc that abort when a call fails.

This directory holds TLA+ modules that model these parts, configurations with
which TLC checks them on small instances, and proofs that TLAPS checks for
every value of the constants.  `PROJECT.json` says for every definition which
lines it models.

## 1. Inventory

### The parts, their state and operations

| Part | Source | State | Operations |
|---|---|---|---|
| PTRVEC | `ptrvec.c`, `ptrvec.h` | a block of slots, `maxItems`, `numItems`, `head`, `tail`; a cached scratch buffer for sorting | construct, reset, destroy, add and remove at both ends, remove an item, find, sort, resize, traverse |
| eprintf | `util.c:66-194` | one mutex, the handler in place, two string buffers, all shared by all threads | `_eprintf`, `_sys_eprintf`, `set_eprintf_line`, the default handler |
| ez_libc, ez_libpthread | `ez_libc.c`, `ez_libpthread.c` | none | call; on failure report and `abort()` |
| line reader | `vcalendar.c:176-204` | a `FILE`, a buffer of 4096 bytes | read a line, trim it, look one character ahead, join what continues it |
| dispatch and report | `vcalendar.c:102-368`, `atnd.c` | flags and values of each kind of line, the vector of attendees | one treatment per kind of line; then the report |
| vcal2utc | `vcalendar.c:374-476`, `tz_xref.c` | the environment's `TZ` | parse, switch the zone, convert, switch back |
| text extraction | `vcalendar.c:478-559`, `atnd.c:8-41` | two static STRs | unescape; find a name and an address |
| STR | `str.c:30-233, 673-711` | buffer, size, length | initialise, grow, append, put, format |
| STR encoders | `str.c:235-671` | none of their own | XML, URL, HTML, JSON, regex, SQL, any character; `percent_decode` |
| rotating buffers | `util.c:378-451` and others | five buffers and a counter per thread and function | return the next one |
| popen_3, pclose_3 | `util.c:1383-1556` | pipes, a child process | fork with three pipes; close, wait, kill |
| rmdir_recursive | `util.c:1091-1145` | open directories on the call stack | remove a tree |
| algorithms | `util.c` | none | bit strings, dates, times, hexadecimal, tokens |
| descriptors and sockets | `util.c:491-665` and others | none of their own | change a mode, connect, temporary names |
| MinGW shims | `util.c:716-839` | | replacements for missing calls |
| build | `Makefile`, `Jmakefile`, `vcal-xterm.sh` | | |

### How they interact

`main` is one thread.  It reads lines from the file (line reader), hands each
to the treatment of its kind (dispatch), which for times calls `vcal2utc`, for
texts `unescape` or `fetchPerson`, for attendees `ATND_create` and
`PTRVEC_addTail`; when the file is at its end it prints the report, which calls
`local_strftime` and `PTRVEC_sort`.  Everything that goes wrong is reported by
`eprintf`, or by an `ez_` wrapper that then aborts.  The parts share three
pieces of state: the environment's `TZ`, which `vcal2utc` changes and
`local_strftime` reads; the vector; and the static struct of `util.c`.

The library is written for programs with many threads: error reporting locks a
mutex, and the rotating buffers are per thread.  The model of error reporting
has many threads for that reason.

### What is hard

* **Ring arithmetic** (PTRVEC): the stretch of items may wrap around the end of
  the block when the block grows; emptiness has no index of its own.
* **Refused memory**: growth falls back to smaller requests; `main` ignores the
  answers of the constructor, of `addTail` and of `sort`.
* **Threads** (eprintf): two shared buffers, a handler that changes under its
  users, a handler that itself may have to report.
* **Lookahead and three places where a file may end** (line reader), read
  errors that look like ends, lines longer than the buffer.
* **Growth that gives up** (STR): loops that ask for more room until it is
  there, texts half written when it is refused, errors told as 1, as -1 or not.
* **Numbers the kernel gives out again** (popen_3): descriptors that name
  another file by the time they are closed, ends of pipes inherited by a
  sibling, process ids of children already reaped; a child that ends between a
  poll and the kill.
* **A recursion that trusts the file system** (rmdir_recursive): links lead out of
  the tree or into circles, listings stay open, others change the tree meanwhile.
* **Answers in shared buffers** (local_strftime and others): how many stand at
  once, and what other threads do to the one struct `localtime` fills.
* **Clocks, calendars and formats** (`secs2tod`, Julian days, `str2bits`,
  `fetchPerson`): a changed clock, truncating division, `sscanf` that stops early.
* **Global state switched for a moment** (`TZ`) with an exit by `goto` in
  between.
* **Order of error and exit**: abort after the message; no half report.

### What makes each part correct

* PTRVEC is a deque: no sequence of calls loses, invents or reorders an item.
* A message reaches its handler unmixed; handlers are handed back at most once
  and never while in use; the program is not aborted before it has said why;
  a call that reports returns, and a call that failed terminates the program.
* No letter of the file is lost or repeated; lines that fit come out unfolded;
  the buffer is not overrun; the reader comes to the end of every file.
* The report says what the calendar says, in the user's zone; a calendar with a
  line that cannot be read gives no report; every early end has a reason.
* A STR is only ever appended whole texts; it stays in its buffer, terminator
  included; a call that cannot have memory changes nothing and says so.
* What an encoder wrote means its source to a reader of the language; without memory
  it may mean less, never something else.
* A child finds its pipes at its standard streams; no descriptor leaks; only
  the own child is killed, and nobody leaves a zombie; `pclose_3` hangs only
  for a child that has no reason to end.

* What a file says is what is reported: all of it, from its first logical line to
  its last, and nothing before all of it was read.
* `rmdir_recursive` removes its tree and nothing else, ends, and aborts only for a
  reason that can be named.
* As many answers as there are buffers stand at once, and show what was asked.
* Dates, times of day, bit texts and lines agree with definitions that do not use
  the code's arithmetic or its formats.

`PROJECT.json` lists under "hazards" the lines where these can go wrong.

## 2. The modules

| Module | Models | Proofs |
|---|---|---|
| `Deque` | what `ptrvec.h` promises: a sequence of pointers | |
| `PtrVec` | `ptrvec.c`, shown to implement `Deque` | `PtrVecProofs` |
| `Eprintf` | error reporting by any number of threads | `EprintfProofs` |
| `LineReader` | the first half of `main`'s loop | `ProgramProofs` |
| `VCalendar` | `main` as a whole, with `vcal2utc`; its vector is a `Deque` | `ProgramProofs` |
| `Program` | the composition of these two: `main` from the file to the report | `ProgramProofs` |
| `Lines` | what `vcal2utc`, `fetchPerson`, `ATND_constructor` and `unescape` make of a line | `ConversionProofs` |
| `AString` | what `str.h` promises: a string that is appended to | |
| `Str` | `str.c:30-233, 673-711`, shown to implement `AString` | `StrProofs` |
| `Walks` | a loop that goes through a string and appends, for `Encode` and `Lines` | `ConversionProofs` |
| `Encode` | the encoders and the decoder of `str.c` | `ConversionProofs` |
| `Popen3` | `popen_3` and `pclose_3` | `Popen3Proofs` |
| `Rmdir` | `rmdir_recursive` in a file system with links and other processes | `RmdirProofs` |
| `RotBuf` | the functions that answer in rotating buffers, several threads | `RotBufProofs` |
| `Dates`, `DayTime`, `BitStrings` | Julian days; `secs2tod`; texts of bits and hexadecimal, as operators | `ConversionProofs` |
| `Util` | calls of the operators of the last four, one at a time | `ConversionProofs` |
| `MCPtrVec`, `MCProgram`, `MCVCalendar`, `MCStr`, `MCEncode`, `MCPopen3`, `MCRmdir`, `MCRotBuf`, `MCUtil` | constants for TLC (`Eprintf` needs none) | |

Each of the modules carries "fault variants", definitions with a plausible slip
in them.  No specification uses them; `PROJECT.json` lists under "mutants"
which property finds which slip.

### Deque and PtrVec

`PtrVec` keeps the fields of `PTRVEC`: `vec.ptrArr` is a function from slots
to pointers, where a slot nobody wrote reads as `Garbage`, and
`vec.maxItems`, `numItems`, `head`, `tail` are the integers of the code.
`sortBuf_sz` is the size recorded for the scratch buffer, and `sortBuf` the bytes there
really are, which a refused `malloc` takes away.  `ret` is what the last call returned.
`life` says whether the object is zeroed, live or destroyed, or has been
corrupted by a write past its scratch buffer.  There is one action per
function; `PTRVEC_sinit` is `Construct` or `Clear`, depending on its object,
as it is in the code.  `resize` gives the set of a call's outcomes, because
`realloc` may refuse; `grow` and `Room` combine such sets the way the code
combines the calls.

`unsigned` sizes wrap at `UintMod`.  `HeapMax` bounds what the heap ever
grants, and so the model.

`Deque` has the same calls on a sequence, with every answer the header allows.
`ImplementsDeque` is `Deque`'s specification with `items` read off the ring as
`PTRVEC_loopFwd` visits it.

### Eprintf

A call is named by its thread and a number, and its message by the same name.
`fmt_sb` and `msg_sb` say whose text the shared buffers hold.  A thread's `pc`
passes from `lock` through `format`, `expand` and `print` into the handler:
the default one in the three steps of `dflt_eprintf_line`, or some other one.
`fn` says whether it is in a plain report, in an `ez_` call that failed (which
ends in `abort`), or in `set_eprintf_line`.  `StderrFails` is a write to stderr
that fails: it leads to the second lock of the same mutex, from where no step
leads on.

### LineReader

The file is a sequence of kinds of characters: letters, the space, the newline
and other blanks.  What has been read goes by its place in the file, so that a
lost, repeated or reordered character shows.  `Chunk` and `MeetsEnd` are what
`fgets` reads and whether it meets the end of the file.  `Gets` is the outer
read with its trim, `Continue` one turn of the inner loop, `NextLine` the turn
that puts the character back, `AtEnd` the loop's own test.  `GetsFails` and
`PeekFails` are read errors: `ez_fgets` aborts, the bare `fgetc` does not
notice.  `Logical` says what the logical lines of a file are without reading
it.

### VCalendar

A line is a record of its kind and what can be made out of it; `Bad` stands for
what cannot.  `TimeLine` is `vcal2utc` to the end of its parse, then
`Timegm`, or `SetTZ`, `Mktime`, `RestoreTZ`, or `NoZone`; `Store` is what
`main` does with the answer.  A moment is a pair of a zone and a wall clock, so
that a conversion in the wrong zone shows.  The report is printed one section
at a time.  `starved` records that the heap refused something: the code looks
at almost none of these refusals, so the properties about the content of the
report say little of such runs, and say so openly.

The attendees are a `Deque`, by `D == INSTANCE Deque`: what the program relies
on is the abstract vector, which `PtrVec` is shown to implement.  `main`
constructs its vector for 10 items and never shrinks it, which is the client
`SafeClient` of the proofs.

### Program

`Program` EXTENDS `VCalendar` and takes in `LineReader`, with `rpc` for its `pc`.
The two halves of `main`'s loop take turns: `Reads` is a step of the reader, which
waits while a line is being processed (`Reading`); `Processes` is a step of
`VCalendar`, which takes the line that was handed over (`Due`), and goes on to the
report when the reader is at its end.  A failed `ez_fgets` aborts both
(`ReadFails`), a failed look ahead (`PeekReadFails`) is not noticed.  `Meaning`
says what a logical line of the file is to `VCalendar`: any function will do.
`VCalendar`'s own guess of the next line and of reading errors is thereby replaced
by a file.  `FileMeans` reads the file without the code's loop, and
`ReportOfFile` compares.

### Lines

A line is a sequence of characters and of words that are matched as a whole
(`"CN="`, `"MAILTO"`, `"time"` for a text that `strptime` takes).  `TimeStr` is the
search for the colon before the time, `ZoneOf` the search of the table; `Run`,
`Mail` and `Scan` are `sscanf`'s conversions, with their limits (`NameSize`,
`MailSize`) and the literal text between them; `unescape` is a `Walk`: from each
character it appends what the code does and goes on behind what it has taken.  `Nothing` is the answer `-1` or `NULL`.  The lines that are read are
built by `TimeLine`, `PersonLine` and `Escaped` in `Util`, as Outlook writes them.
`IsZoneName` and `IsPerson` say which names, roles and addresses such a line can
hold: a name is not empty and has neither colon nor semicolon in it, an address has no
space, `CN=` is not in the role before it, the name of a zone ends with its only colon or
is in quotes.  The code looks for just these marks, so that with one of them out of place
the line says something else (`LinesAssumption`).

The real table `tz_xref.c` has the property the search needs, as inspection shows:
of its rows none is a prefix of a later one, since each ends in a colon or a
quotation mark.  `LinesRead` is checked for such tables, in every order.

### AString and Str

`sz` and `len` are the fields; `text` is what is in `buf` before its first null
byte, so that what a failed call leaves behind `len` shows.  A call is a
sequence of steps, because it asks `growbuf` again and again: `op` names the
call and where it is, `arg` the text to be appended, and `TooSmall` is the
condition under which it asks, in the three forms the code writes it.  `Grow`
is a `growbuf` that got one of the sizes it tries, `GrowFails` one that got
none; the heap may refuse any of them.  `Vsnprintf` writes as much as there is
room for, before anybody knows whether it is all.  A formatted text is the text
that comes out; a `vsnprintf` that fails is `VsnprintfFails`.
`STR_appendFile` reads pieces, and each is a `STR_append`.  `due` is what the
string would be if nothing had been refused.  After `Destroy` the fields keep
their old values in the code; the model clears them, since nobody reads them
before the next construction.

### Encode

`enc` is the function called.  A state is between two turns of its loop: `Turn`
is one of any encoder that goes byte by byte, `TurnHTML` one of
`STR_utf8toHTML`, which takes up to four bytes and keeps its `code` from turn to
turn, and `EndsTooSoon` its early return.  The operators `XmlCalls`, `UrlCalls`
and so on say what an encoder appends for a character, as one text for each
call to `STR_append`, `STR_putc` or `STR_sprintf`, since each may be refused:
`Appended` lets the heap refuse any of them.  `rest` is the part of a refused
`STR_sprintf` that stays behind the string.  The name in an entity, or the number
in a numeric one, is the code point shifted out of the way (`Named`), so that
`&lt;` is three symbols.

`Read` is written for the languages, not for the code: what an XML, JSON or SQL
reader, or a POSIX extended regular expression (the kind that `util.c:915` compiles), makes of a
text.  `RegexOperators` are those of that language, and `RegexPiece` knows nothing of
`RegexSpecial`, the set the encoder escapes.  For URLs it is the
repository's own decoder (`PercentDecode`).  Each is a `Walk`: `Piece` says what the
language takes from a place on, and what it means; what is of no language means 0.
Sources are bytes, up to 255 (code points for HTML).  One above 127 is a negative `char`: it
belongs to no class of the C locale, and `anychar2str` shows it in eight digits.

### Popen3

Every process has a table of descriptors; a descriptor is closed, is the child's
or the parent's end of one of a child's three pipes, or is something else.
`Popen` takes the six lowest free numbers in the order of the three `pipe()`
calls and copies the table for the child.  `ParentCloses` and `ChildRuns` are the two sides after
the fork, in either order; `ChildAborts` is a child one of whose `ez_` calls fails
before its command runs.  `Attached` is the child's three `close` and three
`dup2`.  A child reads, writes or stays: it ends when nobody can write to it
or read from it any more (`ChildEnds`), of its own accord, or is killed.

`pclose_3` is `CloseFds`, and then, by `max_ms`, nothing, `Await`, or the loop
`Sleep` and `Poll` and after it `Kill` and `AwaitKilled`.  Time passes in
`Sleep` only, by exactly the pause asked for; real pauses are longer.
`ClientClosesStream` is a caller that closes a stream itself, which the test
with `fcntl` in `pclose_3` allows for.  The caller calls `pclose_3` once for
each child.

### Rmdir

The nodes of a file system are numbered so that each lies in a directory with a
smaller number: `Root` is the directory to be removed, `Out` the one around it, and
any node may be a directory, a file or a link to anything.  `frames` is the stack of
calls; a frame has the node its path names (`at`), the directory that is
(`dir`), the entries its listing has yet to give (`unread`), and whether it got a
buffer.  There is one action for each system call: `Opendir`, `Readdir` (or `Skip`
for `.` and `..`), `Stat`, `Unlink`, `Rmdir`, and `NoMore` for the end of a listing.
`Abort` is a call that cannot be done, `Fault` one that fails for a reason of its
own (`MayFail`), `Meddle` another process that adds or removes a node.  A path goes
through every directory and link that was descended into (`PathStands`,
`LinksTo`).  `opened` counts listings, which nothing ever closes.  A listing may
or may not show what is added or removed while it is open.

### RotBuf

For each thread and function there are a `count` and the buffers (`bufArr`); `Call`
is a function that uses only these, `CallFails` one that answers NULL after it has taken
its turn (`addrinfo_2_addr`), `Gmtime` and `Strftime` are the two halves of a
time function, between which another thread may fill the one `tm`.  When two threads
are between them at once, `strftime` may read some of either (`raced`, `Garbage`).
What is asked goes by thread, function and number of the call, so that an answer
that shows another's question is seen.  `answers` keeps the last ones, as many as
there are buffers.

### Dates, DayTime, BitStrings and Util

These are functions without state, modelled as operators with the names of the
code; `Util` has one variable for what is asked and one for the answer.  In
`DayTime` time passes in steps; a zone changes its clock once.  Where the clock
shows a time twice or never, `mktime` may answer either (`MktimeAny`), so
`Answers` is a set.  In `BitStrings` a word is the set of its bits, and `Scanned`
is `sscanf` with `str2bits`'s format, for any number of symbols and any length; one of
its conversions is `Converted`.  The characters of texts and names are `Char`.

What is assumed of the questions is what a call can be given.  `TimesAssumption`: days
and moments are numbers, a zone changes its clock once.  `TableAssumption`: the names in
a table differ, fit `str2bits`'s symbols, have no bar in them and begin with no space; a
table with two equal names, or such characters in one, could not be read by `str2bits`
at all.  `TextsAssumption`: bytes are bytes, and twice their number is an `unsigned`.

## 3. The runs

| Run | Specification | Shows |
|---|---|---|
| `PtrVec` | `Spec` | the ring's indices and traversals stay right, sorting stays in its buffer, and the vector is a deque |
| `Eprintf` | `FairSpec` | messages, lines, handlers and aborts, and every call's end, three threads, stderr failing |
| `EprintfStderr` | `FairSpec` | *violation*: a failing stderr hangs the program |
| `Program` | `FairProgram` | letters, unfolding, the report of a file, the end, of every short file |
| `VCalendar` | `Spec` | report, zone, all or nothing, reasons, of every short calendar |
| `Str` | `FairSpec` | buffer and terminator, whole texts, refinement of `AString`, calls return |
| `Encode` | `EncoderSpec` | encoded texts read back, nothing is invented, cut UTF-8 is told |
| `Popen3` | `FairSpec` | streams, descriptors, kills and zombies, calls return |
| `Rmdir` | `FairSpec` | what is removed, why a call aborts, that it ends |
| `RotBuf` | `Spec` | answers that stand, times shown as asked |
| `Util` | `Spec` | days, times of day, texts of bits, lines |
| `UtilTod` | `Spec` | *violation*: `secs2tod` meets its `assert(0)` |

### Bounds, and why they are enough

* `PtrVec`: four slots at first and a heap of six let the vector grow by half
  (4 to 6) when doubling is refused, so a wrapped head part moves by less than
  its own length, and let it be full with nothing to be had.  Two pointers, of
  which one sorts first and both may occur several times, tell orders apart.
  `UintMod` 128 keeps byte counts representable, as they are on any real
  heap.
* `Eprintf`: three threads with two calls each: one in a handler, one swapping
  it, one waiting, and each of them once more.
* `Program`: files of six characters (`MaxFile`), with a buffer of 5 bytes that three
  characters fill (`BufSize`), hold a line too long for the buffer, several folds,
  or three lines.  `OtherBlank` has one member for every blank that is neither
  space nor newline.  `Meaning` gives the shortest lines a meaning: an attendee, a
  text, times in a listed zone and in UTC, a line of no use, one that is passed over.
  A folded line means something the same characters in two lines do not.
* `VCalendar`: three lines allow a repeated kind between others, two names
  that compare equal and one that does not, and a bad line after good ones.
  The zones are one in the table, one not in it, and UTC.
* `Str`: ten bytes are the fewest that a tenth adds a byte to (`SizeHint`), and a
  heap of eleven (`HeapMax`) grants one growth and then refuses, so that texts of
  two and three characters meet every condition at its boundary, in a fresh and
  in a grown buffer.  One piece per file (`FileChunks`) is enough for a refusal.
* `Encode`: three characters (`MaxLen`) put two on either side of an escape, and
  hold one that looks like an escape's beginning, its digits included.  Of each
  alphabet: a letter, what is escaped, what occurs in escapes, and a byte above 127; of
  regular expressions also `^`, which is an operator that is not escaped.  The
  code points for HTML take one to four bytes; the source may then end in the
  middle of one, or with a byte that begins none.
* `Popen3`: two children, the fewest of which one inherits from the other.
  Twelve descriptors (`Fd`) are two children's six; with standard streams open
  a second `popen_3` may find too few and abort.  A `max_ms` of 5
  with a minimal pause of 2 (`MinPause`, 10 ms in the code) gives several turns
  of the loop, the last of them too late; 0 and -1 are the other two ways.
  The program starts with all of its standard streams open, or with none: then the
  pipes get the numbers the child needs for its own.  A caller may close the
  stream of a child's input (`ClientCloses`), the one whose closing means
  something to the child.
* `Rmdir`: three nodes are a file or directory within a directory and a link to
  either, in all arrangements, links out of the tree and circles included.  Three descriptors
  (`MaxOpen`) do not suffice for the root and three directories, nor for a circle of
  links, of which the system follows one per path (`MaxLinks`, 40 on Linux).  Once
  another process meddles (`MaxMeddle`), with every file that is there or is not yet.
* `RotBuf`: a count that wraps at 16 (`UintMod`) leaves the remainder by 5 that 2^32
  leaves, so that 18 calls of a function with five buffers cross the wrap; a second thread
  has a time function and `addrinfo_2_addr`, which may answer NULL once (`MaxFailures`).  Other
  numbers of buffers (4, 8, 10) are the theorem's.
* `Util`: four hundred years are the calendar's period (146 097 days, here a little
  more).  Days of 48 steps with a shift of 2 are half hours and summer time; `From`
  covers the hours around a change at two o'clock, at midnight, or far away.  Texts of
  five characters over two letters, bar and space, and tables of up to four names, one
  with a space in it, with room for three symbols of two letters (`MaxSymbols`,
  `MaxName`) reach every limit of the format; names of up to seven
  characters pass `NameSize` 6.  Tables of zones have up to three rows, of which one
  name begins another.

### Fairness

* `Eprintf`: `WF_vars(Step(t))` for each thread.  A thread that runs is
  scheduled; a waiting one finds the mutex free again and again, and since the
  others have finitely many calls left, weak fairness is enough.  `Call` has no
  fairness: nobody has to report anything.  A failing stderr is not excluded by
  fairness but by the constant `StderrMayFail`.
* `Program`: `WF_reader(Reads)` and `WF_progress(Processes)`: the one process
  runs, and reads return.  Every step of `VCalendar`, up to its end, changes one of
  `pc`, `seen` and `printed` (`progress`).  Failures are left out: none is owed to
  anybody.
* `Str`: `WF_vars(Step)`: a call that has begun goes on.  Nothing is assumed of
  the heap: the refusals that end a loop come from `HeapMax`.
* `Popen3`: the parent goes on with its call, a forked child comes to run its
  command, and one that sees the end of its input, or a broken pipe, ends.  No
  child ends without a reason, no signal has to come, and nobody has to call
  `pclose_3`.

* `Rmdir`: `WF_vars(Step)`: system calls return.  Neither a failure nor another
  process is owed to it.

`Eprintf` and `EprintfStderr` do not check for deadlock: there the system really
may stop, with a thread waiting for the mutex it holds, or every thread done.
Neither does `Popen3`: `waitpid` may wait for ever, and a failed `pipe()` aborts the
program.  Nor does `RotBuf`: nobody has to call anything, and the calls are counted.

## 4. What the code does and its documents deny

Two disagreements have a run each:

1. A report that fails to be written hangs the program (`EprintfStderr`).
2. `secs2tod` may find no time, where it says this is impossible: in the last hour of
   the day before the clocks go forward, `tm_isdst` of a summer day is used for
   that day's midnight, which has winter time (`UtilTod`; with glibc, TZ=CST6CDT,
   from 2026-03-07 23:30 and for 00:00, it aborts).

Others were met while modelling.  The models contain them, and the properties are
stated so that they hold with them, or the constants leave them out:

* A physical line longer than the buffer is processed in pieces, the second taken
  for a line of its own (`vcalendar.c:186`; the comment at 184 says "one line at a
  time").  In the model: `LinesUnfold` is stated for lines that fit (`Fits`).
* `PTRVEC_resize` to fewer slots, no fewer than the items, cuts the block before it
  moves the items, and answers 0 with items gone (`ptrvec.c:148`; `ptrvec.h:106`
  promises an error only for fewer than the items).  In the model; excluded from the
  run by `ShrinkAllowed`, and from the proofs by `SafeClient`.
* `STR_appendFile` looks for an answer of -1, but `STR_append` answers 1: a refused
  piece is left out and the answer is 0 (`str.c:695`; `str.h:112`).  In the model:
  `FileRead`.
* `pclose_3` tells a stream its caller has closed only by whether the number is open,
  and closes whatever has got that number since (`util.c:1488`).  In the model:
  `CloseFds`.  The properties are about the child that is closed and say nothing of
  the descriptor that is lost to another.
* While the clock is changed, `secs2tod` is also off by the change on days it finds a
  time (`util.c:866`).  `TodIsNext` is stated for `Steady` clocks.
* `strbits` shows seven bits of each byte: its loop starts below bit 7
  (`util.c:473`).  In the model.
* `str2bits` drops what follows the 20th symbol, an empty one or one of 60
  characters, and answers 0 (`util.c:272`).  In the model: `Scanned`.
* At the wrap of a count, with five or ten buffers, the sequence of buffers starts
  anew too soon (`util.c:424`).  In the model: `Usable`.
* `gmtime` and `localtime` share one struct among threads, though the buffers are each
  thread's own (`util.c:391`).  In the model: `raced`.
* `rmdir_recursive` follows links out of the tree and fails at `rmdir` of the link;
  never closes a listing; and returns 0 or aborts, never the -1 it announces
  (`util.c:1096`).  In the model: `Linked`, `opened`, `Abort`.
* A name of 64 characters or more, or an attendee with a SENT-BY, is refused, and
  ends the whole program without a report (`vcalendar.c:541`, `atnd.c:24`).  In the model:
  `Scan`, `Refused`.
* `SUMMARY`, `LOCATION` and `DESCRIPTION` lines are cut at the first colon, also when it
  is in a quoted parameter (`vcalendar.c:249`).  Left out: lines come with the
  value that is behind it.
* `SUMMARY` and `LOCATION` values are cut at 1023 bytes without a word, by `strncpy` into
  the static struct (`vcalendar.c:258, 270`), while a line may have 4094; so would be an
  organizer (246), who is never that long.  Left out: the value of a line is what is left of it.
* `vcal2utc` keeps `getenv`'s pointer where its comment speaks of a copy
  (`vcalendar.c:437`), and the `setenv` at 453 may, by POSIX, overwrite what it points to.
  glibc does not.  In the model `TZ_orig` is the value, so `ZoneRestored` is a statement about
  the program with such a libc.
* `rmdir_recursive` ignores what `STR_sprintf` answers (`util.c:1117`): a path longer than
  `PATH_MAX` whose buffer is not granted more would be cut, and what the cut path names be
  removed.  Left out: paths fit, and only the constructor may be refused its buffer.
* Some `ez_` wrappers deviate from their common form: `ez_popen` aborts for any
  `errno` that a successful `popen` leaves behind, `ez_fread` and `ez_fwrite` for an
  error of an earlier call on the stream,
  `ez_getgrnam` aborts for a group that does not exist, and `ez_flock`, `ez_open`, `ez_access`,
  `ez_recv` hand some failures back.  Left out.
* A full vector of fewer than four slots is not grown by `grow()`'s last attempt,
  and the addition overwrites an item (`ptrvec.c:36`).  Left out by `SafeSizes`.
* Byte counts in `unsigned` (`ptrvec.c:109`).  Left out by `SafeSizes`.
* A tenth of fewer than ten bytes is nothing, so `growbuf` grants a buffer its own
  size and is asked again for ever (`str.c:93`).  Left out by `SizeHint`.
* `vsnprintf`'s -1 compared with a `size_t` asks for all the memory there is
  (`str.c:126, 163`).  In the model: `VsnprintfFails`.
* What a refused `STR_sprintf` has written stays behind `len` (`str.c:125`).  In
  the model: `text` may be longer than `len`.
* Control characters in JSON have their code padded with spaces, where four digits
  are due (`str.c:582`), a percent sign is not escaped in a URL, so that
  `STR_percent_decode` takes it for an escape (`str.c:286-305`), and one entity has no semicolon
  (`str.c:502`).  In the model; `Claimed` leaves such sources out.
* A byte that begins no UTF-8 character repeats the one before (`str.c:365-421`).  In
  the model: `CodeAt`.
* `STR_escapeRegex` leaves `^` and `|` as they are, which are operators, although
  `str.h:171-173` promises a result "without special interpretation" (`str.c:618`
  suspects as much).  In the model: `RegexSpecial` against `RegexOperators`; `Claimed`
  leaves sources with these two (`RegexMissed`) out, and without that TLC finds the text
  `^` not read back.
* Half an escape may be seen behind the string after a refused `STR_sprintf`.  In
  the model: `rest`.
* `pclose_3` answers a process id where `util.h:537` says 0 (`util.c:1498`).  In the
  model: `Await`.
* A child may live longer than `max_ms` (`util.c:1502`).  In the model: `Sleep`.

Of all these vcalendar itself meets 1, long lines, names and values, colons in parameters, and `getenv`'s pointer: its vector starts with
ten slots, it never resizes one, and 2^29 attendees do not fit a calendar; its
STRs are large, it appends no files to them and encodes nothing, it starts no processes
with `popen_3`, removes no directories, has one thread and asks for no time of day.

## 5. What is proved

### PtrVecProofs

Theorems of the form `SafeClient => (Spec => []P)`, for any pointers, heap,
and arguments: `TypeCorrect`, `RingStaysSound` (with its halves
`RingShapeHolds` and `TraversalsAgree`), `SortStaysInBuffer`, and `PtrVecImplementsDeque`.  `SafeClient` says that
vectors are constructed for at least four items, byte counts fit `unsigned`,
and nobody shrinks.  None of these can be spared: without them an addition or a sort
overwrites memory, or a resize loses items (section 4).

The inductive invariant is `RingInv`: the type invariant with exact ranges,
`RingShape`, that the size recorded for the scratch buffer is its real one, that occupied slots hold pointers and no garbage, and that the
vector is never corrupt.  `RingShape` alone is not inductive: growth preserves
it only if a wrapped head part really ends at the end of the block, and the
refinement needs the occupied slots defined.  The proof has a lemma about each
helper (what growth, addition, removal, closing the gap and refilling do to
the sequence of items), separate lemmas for the modular arithmetic of slots,
and for the refinement one step per call.

### EprintfProofs

Theorems `Spec => []P`, for any number of threads and calls, stderr failing or
not: `TypeCorrect`, `MessagesStayIntact`, `SwapsStaySafe` (with its halves
`HandlersRetire` and `SwapsFormAChain`), `LinesStayWhole`, `ReportsPrecedeAbort`.

The inductive invariant `EInv` says that a thread is between its lock and
unlock exactly when it owns the mutex, what the buffers hold at each place in
between, that handlers taken out are used by no one but the taker, and that
call names not yet given occur nowhere.  `LInv` adds what stderr looks like
while its owner is between text and newline.

### RotBufProofs

`LastAnswersStay` is `Spec => []LastAnswersStand`: as many answers as a function has
buffers stand at once, for any number of threads, functions, buffers and calls, any
range of the count (`UintMod`), calls that fail or not.  It says of a count that wraps
at 2^32 what the run shows for one that wraps at 16.  `RotInvariant` is the inductive
invariant `RotInv`: `count` is the number of calls modulo `UintMod`; the answers kept
are exactly those of the latest calls, in order, each at the buffer that its turn
gives it (`Recent`); and those not lost to a wrap stand (`Standing`).
`LastAnswersStand` alone is not inductive, since it does not say which buffer comes
next.  The rest is arithmetic, from `Division` and `IsRemainder` up to `OtherSlot`: of
two calls closer together than there are buffers, the later one takes another buffer,
unless the count wraps in between and the number of buffers does not divide its range.

`TimesAreShownAsAsked` is `Spec => ShownAsAsked`, from `RotInv` and an invariant about
the one `tm` (`TmInv`): it holds what the thread that is between the two library calls
asked for, unless another has been between them at the same time (`raced`).

### StrProofs

`TypeCorrect`, `SuccessStaysWhole` and `StrImplementsAString` are about every text and
every refusal of memory.  The type invariant is not inductive: a text is put behind
the string only because the loop before has left when there was room, so `StrInv` says
for each place of a call what is due (`due` is the value with the whole text at hand
behind it, until a piece of a file has been refused), and that what `vsnprintf` wrote is
the beginning of that text, cut where the buffer ends.  The refinement follows step by
step: a call that is under way stutters, and the step at which it answers is the
step of `AString`.

### ProgramProofs

Of `VCalendar`: `ReportsTheTruth`, `ReportsAllOrNothing`, `ZoneIsRestored` and `FailureIsExplained` hold
for any number of lines, any table of zones, any `TZ` and any order of names.  The
inductive invariant `CalInv` relates what is kept of each kind of line to the last line of
that kind among those dealt with (`Remembered`, `Kept`), the list of attendees to the
attendee lines, each once (`Attending`), what `TZ` is at each step of the
conversion to what it was before, and the sections printed to what is kept.  The report's
properties alone say nothing before the report is begun.  Where the heap has refused
something (`starved`) the attendees may be incomplete, and only the rest is claimed.
`BadAssumption` says that what stands for an unreadable value is no value.

Of `Program`: `ProgramIsACalendar` and `ProgramIsAReader` show that the composition implements both of
its parts: each of its steps is a step or a stutter of either, so that the theorems
about `VCalendar` are theorems about `main` with its loop.  `LettersAreKept` and
`ProgramTypeCorrect` are about every file, with lines of any length and reads that fail.
The inductive invariant of the reader, `ReaderInv`, says that the places taken are in
order, that they are at most `pos`, and that every letter up to `pos` is among them;
`InTurns` says that `main` has dealt with every line before the next is read and took
each for what it means.  `ReportIsOfTheLines` puts these together: nothing is printed
before the file is read to its end, and the report is true of the lines that were read.

`FileIsUnfolded` and `ReportIsOfTheFile` say what these lines are, of every file whose
lines fit (`Fits`) and are read without an error.  `LinesUnfold` relates only finished
lines to the file, so it is not inductive.  `UnfoldInv` says where the reader stands: at
the end of a physical line; between logical lines, at the head of the next one, with as
many lines handed on as heads passed; within one, with just those of its places up to
`pos` in the buffer, the last of them no blank (`InLine`).  `LogicalOn` says what one
more physical line adds to a logical line, `ChunkToEnd` that `fgets` reads to the end of a
physical line that fits, which is where the room behind the continued line counts
(`RoomBehind`), and `TrimmedRange` that trimming a line that ends in no blank,
with more appended, takes blanks from what was appended only.  For the report, a line is ascending and
so determined by its set of places, and the n-th head by its rank (`AscendingRank`,
`RankOf`).

### Popen3Proofs

`StreamsAreAttached`, `NoDescriptorLeaks` and `EachChildIsReaped` hold for any number of
children and of descriptors, any of the standard streams being closed at the start, and
callers that close streams themselves.  The inductive invariant `PopenInv` says which
ends of whose pipes each process may hold: the parent only its own ends, at the numbers
noted in `fd_arr` (`ParentHolds`), and between `fork` and its own closing the child's; a
forked child each of its ends once and none below the stream it is for (`OwnEnds`), which is why
the three `dup2` in their order destroy none of them; a running child exactly
what it should (`AttachedIn`).  That none is below its stream comes from `pipe()` giving the
lowest free numbers (`LowestIn`), three times in a row.  `FdAssumption` says that there are
finitely many descriptors, the three standard ones among them.

### RmdirProofs

`TypeCorrect`, `RemovesTheTree` and `AbortsForAReason` are about every finite file system, with
links to anywhere, any calls failing, and another process adding and removing files.
The inductive invariant `RmdirInv` has five parts: what the files are (`FilesInv`);
where each call stands and what is at hand (`CallsInv`); that what is there is in
something that is there (`Grounded`), from which it follows that with the root gone all of
the tree is; what was removed when nobody else meddles (`RemovalInv`); and, as long as there
is no reason to abort (`Calm`), that the calls descend from directory to directory
within the tree, each of what is there of their directories is in hand or still to be
listed, and the listings opened are as many as directories met (`CalmInv`), so that every
system call finds what it needs and descriptors last.  `Inside` and `Linked` are defined as
least sets that are closed (`Reached`), so that induction over the tree is the choice of
a smallest counterexample.

### ConversionProofs

The theorems about what the algorithms compute, for inputs of every length.  Their loops
are recursive functions, and an induction principle that takes a predicate is out of
the provers' reach; so each induction is the choice of a least counterexample in a set of
numbers that is defined by the case at hand.  `LeastExists` is proved from the
well-foundedness of strict inclusion among finite sets, and `FromTheEnd`,
`FromTheStart` and `OneByOneOn` follow from it.

**Encoders.** `EncodersReadBack`, `EncodersInventNothing` and `EncodersTellCuts` hold for
sources of any length and any refusals; the first, of the characters the encoder serves
(`Claimed`), which for regular expressions are all but `^` and `|`.  That the text so
far reads as the characters passed is not inductive: a text says what it reads as only
together with what comes behind it, for a backslash at its end would take the next
character.  `Says` is the stronger statement, that a text reads as something *before
anything that may follow*; it is shown of each character's text in each language, and
composed by appending.  `EncInv`, the inductive invariant, says that `pos` is at the k-th
character of the source (`Reached`), that what is written reads as the first k characters, or,
if an append was refused, as some of them in their order (`Reads`), and what the answer
tells (`Ended`).  Arithmetic on the bits of UTF-8 (how many bytes a first byte announces,
what number the bytes make) is in lemmas of its own.

**Answers.** `AnswersHold` is the inductive invariant `UtilInv`: question and answer are
of the right kind, and the answer is the function's to that question.  The four theorems
that follow are then facts about the operators.

**Dates** (`DatesAreRight`): for every Julian day from the first, for ever.  Fliegel and
Van Flandern's divisions are shown to find the century, the year that begins in March and the
day of that year that a number stands for (`PartsAre`, `PartsExist`), and of that day the month
(`MonthsAre`), with leap days where the calendar has them (`LeapDay`).  `Follows`
compares the parts of two days in sequence, `WayBack` puts them together again.

**Times of day** (`TodsAreNext`): for any length of the day and the shift.  Around a
moment whose clock is steady, the two days the code tries are ordinary ones, on which
`mktime` has one answer.

**Lines** (`LinesAreRead`).  The code searches: the first `CN=`, the first colon, the
first row of the table that begins the text.  `FirstAt` and `NoSooner` say where a word
is found first in a line that is put together of parts; `ZoneListed` that among names
of zones none begins another one's line.  `RunIs` says what a `%[^...]` of `sscanf` takes.
Of `fetchPerson`'s formats the one that fits reads (`ScanReads`), and the others refuse:
`LongNameFails`, `PlainHasNoDeputy`, `DeputyFound`.  `unescape` is a walk like the readers of the encoders.

**Bits and digits** (`TextsAreReadBack`).  `str2bits` stops without a word, so two things
are shown of `sscanf`.  Whatever the text, each symbol is one of its pieces, unless some piece is
too long (`FromPieces`); no name is as long as that, so no symbol is unknown without an
unknown piece.  If all pieces fit, then the symbols are the pieces up to the place that
was reached, which is at a bar or at the end, and each conversion passes one bar more
(`ReadSoFar`), until there are no more bars or no more symbols.  Each name that `bits2str` appends adds a piece to the text and changes none before it
(`PiecesGrow`), from which the pieces of its text are the names shown (`BitsAreNamed`).

### What stays with TLC

Every safety invariant, action property and refinement that a passing run checks is stated by
one of these theorems.  Liveness is checked by TLC only (`CallsReturn`, `EzFailureTerminates`,
`ProgramEnds`, `CallEnds`): TLAPS reasons neither about fairness nor about ENABLED.  The
two violations of section 4 are counterexamples that TLC finds.

## 6. What is not modelled, and why

* `strptime`, and keywords letter by letter: a line's parts are words in `Lines`.
  The rows of the table of zones: any table will do.
* Tokens, indentation, enum names, `printBuffer`, and conversions of milliseconds:
  single loops or expressions.
* Descriptor modes, sockets, `pager_open`, regular expressions: one system call after
  another, no state of their own, and nobody calls them.
* Text with null bytes in STRs, NULL sources of encoders, the exit status of
  children.
* The other `ez_` wrappers, but for their common form in `Eprintf` (section 4 has the
  exceptions).
* MinGW shims and build files: other platforms, no behaviour.
* That stdout is flushed only after `main` has returned success.

## 7. Plan

1. `unescape` over a `Str` whose heap refuses.
