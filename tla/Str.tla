-------------------------------- MODULE Str --------------------------------
(***************************************************************************)
(* STR (str.c, str.h): a null-terminated string in a buffer that grows     *)
(* while it is appended to.  realloc() may refuse any request, and always  *)
(* refuses more than HeapMax bytes; a call keeps asking, one growbuf after *)
(* the other, until the text fits or growbuf gives up.                     *)
(***************************************************************************)
EXTENDS Integers, Sequences, FiniteSets

S == INSTANCE SequencesExt

CONSTANTS
  Char,           \* the characters, without the terminator
  Lower,          \* tolower()
  Text,           \* the texts a caller appends, and pieces of files
  SizeHint,       \* the constructor's argument
  HeapMax,        \* bound: the most bytes the heap will ever grant
  FileChunks,     \* bound: the pieces of sizeof(buf) bytes a file has
  FormatMayFail   \* whether vsnprintf() may answer -1

ASSUME TextAssumption == Text \subseteq Seq(Char) /\ Lower \in [Char -> Char]
ASSUME SizeAssumption ==
  /\ SizeHint \in Nat \ {0} /\ HeapMax \in Nat /\ SizeHint <= HeapMax
  /\ FileChunks \in Nat /\ FormatMayFail \in BOOLEAN

VARIABLES
  sz, len,        \* the fields of these names
  text,           \* the bytes of buf before its first null byte
  life,           \* "raw" or "live"
  op,             \* the call under way and where it is, or "none"
  arg,            \* the text it is to append
  due,            \* what the string is to be when it has
  chunks,         \* how many pieces of its file STR_appendFile has read
  ret             \* what the last call returned

call == <<op, arg, due, chunks>>
vars == <<sz, len, text, life, call, ret>>

----------------------------------------------------------------------------
\* The characters that count: the first len of them.
Value == SubSeq(text, 1, len)

\* Fault variant: STR_putc does not think of the terminator.
TooSmall_Putc ==
  \/ op = "putc" /\ len >= sz
  \/ op \in {"append", "file"} /\ len + Len(arg) + 1 >= sz
  \/ op = "printed" /\ Len(arg) >= sz - len
  \/ op = "garbled"

\* The calls' conditions for asking growbuf for more.  The -1 of a vsnprintf
\* that failed is more than any size_t.
TooSmall ==
  \/ op = "putc" /\ len + 1 >= sz
  \/ op \in {"append", "file"} /\ len + Len(arg) + 1 >= sz
  \/ op = "printed" /\ Len(arg) >= sz - len
  \/ op = "garbled"

\* Fault variant: growbuf backs off to the size there is.
Sizes_BackOff == {(sz * i) \div 10 : i \in 10..20}

\* The sizes growbuf asks for: twice as much, and a tenth less each time.
Sizes == {(sz * i) \div 10 : i \in 11..20}

\* Fault variant: a text goes behind the terminator, not behind len.
Put_Strcat(s) == text' = text \o s

\* Bytes and terminator are written behind the characters that count.
Put(s) == text' = Value \o s

Begin(o, s) ==
  /\ op = "none" /\ life = "live"
  /\ op' = o /\ arg' = s /\ due' = Value \o s /\ chunks' = 0

Return(rc) ==
  op' = "none" /\ arg' = <<>> /\ due' = <<>> /\ chunks' = 0 /\ ret' = rc

----------------------------------------------------------------------------
Init ==
  /\ sz = 0 /\ len = 0 /\ text = <<>> /\ life = "raw"
  /\ op = "none" /\ arg = <<>> /\ due = <<>> /\ chunks = 0 /\ ret = 0

\* STR_constructor, also by way of STR_sinit of a zeroed object.
Construct ==
  /\ life = "raw"
  /\ sz' = SizeHint
  /\ \/ life' = "live" /\ ret' = 0
     \/ life' = "raw" /\ ret' = 1
  /\ UNCHANGED <<len, text, call>>

\* STR_reset, also by way of STR_sinit of a live object.
Reset ==
  /\ life = "live" /\ op = "none"
  /\ len' = 0 /\ text' = <<>> /\ ret' = 0
  /\ UNCHANGED <<sz, life, call>>

\* STR_tolower works up to the terminator.
ToLower ==
  /\ life = "live" /\ op = "none"
  /\ text' = [i \in DOMAIN text |-> Lower[text[i]]]
  /\ UNCHANGED <<sz, len, life, call, ret>>

\* The buffer is freed.  Nobody clears the fields, and nobody reads them before
\* the next construction sets them.
Destroy ==
  /\ life = "live" /\ op = "none"
  /\ life' = "raw" /\ sz' = 0 /\ len' = 0 /\ text' = <<>>
  /\ UNCHANGED <<call, ret>>

\* The calls of STR_append, STR_putc, STR_sprintf and STR_vsprintf.
AppendText(s) == Begin("append", s) /\ UNCHANGED <<sz, len, text, life, ret>>
Putc(c)       == Begin("putc", <<c>>) /\ UNCHANGED <<sz, len, text, life, ret>>
Sprintf(s)    == Begin("format", s) /\ UNCHANGED <<sz, len, text, life, ret>>

\* An empty format is answered at once.
SprintfEmpty ==
  /\ op = "none" /\ life = "live" /\ ret' = 0
  /\ UNCHANGED <<sz, len, text, life, call>>

\* vsnprintf writes what there is room for, and answers the length of it all.
Vsnprintf ==
  /\ op = "format" /\ op' = "printed"
  /\ Put(SubSeq(arg, 1, S!Min({Len(arg), sz - len - 1})))
  /\ UNCHANGED <<sz, len, life, arg, due, chunks, ret>>

\* It fails in the middle of what it writes.
VsnprintfFails ==
  /\ op = "format" /\ FormatMayFail /\ op' = "garbled"
  /\ \E k \in 0..S!Min({Len(arg), sz - len - 1}) : Put(SubSeq(arg, 1, k))
  /\ UNCHANGED <<sz, len, life, arg, due, chunks, ret>>

\* growbuf, whose new block holds what the old one held.  vsnprintf is called
\* again, and fails as it did.
Grow ==
  /\ TooSmall
  /\ sz' \in {n \in Sizes : n <= HeapMax}
  /\ op' = IF op = "printed" THEN "format" ELSE op
  /\ UNCHANGED <<len, text, life, arg, due, chunks, ret>>

\* Fault variant: what there was room for is taken into the string.
GrowFails_Counts ==
  /\ TooSmall
  /\ len' = Len(text)
  /\ \/ op = "file" /\ op' = "read" /\ UNCHANGED <<arg, due, chunks, ret>>
     \/ op \in {"append", "putc"} /\ Return(1)
     \/ op \in {"printed", "garbled"} /\ Return(-1)
  /\ UNCHANGED <<sz, text, life>>

\* growbuf gives up.  STR_appendFile compares the answer with -1, not 1.
GrowFails ==
  /\ TooSmall
  /\ \/ op = "file" /\ op' = "read" /\ UNCHANGED <<arg, due, chunks, ret>>
     \/ op \in {"append", "putc"} /\ Return(1)
     \/ op \in {"printed", "garbled"} /\ Return(-1)
  /\ UNCHANGED <<sz, len, text, life>>

\* The text fits.
Finish ==
  /\ op \in {"append", "putc", "file", "printed"} /\ ~TooSmall
  /\ \/ op = "printed" /\ Return(Len(arg)) /\ UNCHANGED text
     \/ op \in {"append", "putc"} /\ Return(0) /\ Put(arg)
     \/ op = "file" /\ op' = "read" /\ Put(arg) /\ UNCHANGED <<arg, due, chunks, ret>>
  /\ len' = len + Len(arg)
  /\ UNCHANGED <<sz, life>>

\* STR_appendFile: fopen, fread until nothing comes, and the end.
AppendFile ==
  \/ Begin("read", <<>>) /\ UNCHANGED <<sz, len, text, life, ret>>
  \/ /\ op = "none" /\ life = "live" /\ ret' = -1
     /\ UNCHANGED <<sz, len, text, life, call>>

FileRead(s) ==
  /\ op = "read" /\ s # <<>> /\ chunks < FileChunks
  /\ op' = "file" /\ arg' = s /\ due' = due \o s /\ chunks' = chunks + 1
  /\ UNCHANGED <<sz, len, text, life, ret>>

FileEnd ==
  /\ op = "read"
  /\ Return(0) \/ Return(-1)
  /\ UNCHANGED <<sz, len, text, life>>

Step ==
  \/ Vsnprintf \/ VsnprintfFails \/ Grow \/ GrowFails \/ Finish \/ FileEnd
  \/ \E s \in Text : FileRead(s)

Next ==
  \/ Construct \/ Reset \/ ToLower \/ Destroy \/ SprintfEmpty \/ AppendFile
  \/ \E c \in Char : Putc(c)
  \/ \E s \in Text : AppendText(s) \/ Sprintf(s)
  \/ Step

Spec == Init /\ [][Next]_vars

\* A call that has begun goes on.
FairSpec == Spec /\ WF_vars(Step)

----------------------------------------------------------------------------
(* Properties *)

\* The string that counts lies within the C string, and that with its terminator
\* in the buffer, whatever is appended and refused (str.c:108-220).
TypeOK ==
  /\ life \in {"raw", "live"} /\ sz \in 0..HeapMax
  /\ text \in Seq(Char) /\ len \in 0..Len(text)
  /\ op \in {"none", "append", "putc", "format", "printed", "garbled", "read", "file"}
  /\ arg \in Seq(Char) /\ due \in Seq(Char) /\ chunks \in 0..FileChunks /\ ret \in Int
  /\ life = "live" => Len(text) < sz

\* A call that answers success has appended all of its text behind all that was
\* there, and the C string ends where len says, also when an earlier call has
\* failed halfway.
SuccessIsWhole ==
  [][/\ op \in {"append", "putc", "printed"} /\ op' = "none"
     /\ ret' = IF op = "printed" THEN Len(arg) ELSE 0
     => text' = due /\ len' = Len(due)]_vars

\* A STR is a string that is only appended to: no call that fails changes it.
A == INSTANCE AString WITH
       Text <- Text \cup {<<c>> : c \in Char}, value <- Value, alive <- life = "live"
ImplementsAString == A!Spec

\* Every call returns, however often it has to ask for more room.
CallsReturn == op # "none" ~> op = "none"
=============================================================================
