----------------------------- MODULE BitStrings -----------------------------
(***************************************************************************)
(* Bits as text: bits2str and str2bits with a table of names, strbits,     *)
(* and bytes_2_hexStr (util.c:220-336, 454-489, 1069-1089).  A word is the *)
(* set of the numbers of its bits, a text a sequence of characters.        *)
(***************************************************************************)
EXTENDS Integers, SequencesExt

CONSTANTS
  Bar, Space,     \* '|' and ' '
  MaxSymbols,     \* 20, the conversions in str2bits's format
  MaxName,        \* 59, the characters each of them takes
  ByteBits,       \* 8
  UintMod         \* 2^32

ASSUME TextAssumption ==
  Bar # Space /\ {MaxSymbols, MaxName, ByteBits, UintMod} \subseteq Nat \ {0}

\* A table is a sequence of names and the bits they stand for.
NamesOf(table)       == {table[i].name : i \in DOMAIN table}
BitsNamed(name, table) == table[Min({i \in DOMAIN table : table[i].name = name})].bits

\* The rows of which some bit is set, and what sets a name apart from those before.
Shown(bits, table)   == {i \in DOMAIN table : table[i].bits \cap bits # {}}
Mark(bits, table, i) == IF \E j \in Shown(bits, table) : j < i THEN <<Bar>> ELSE <<>>

\* Fault variant: the first name is set apart as well.
bits2str_BarFirst(bits, table) ==
  FlattenSeq([i \in DOMAIN table |->
    IF i \in Shown(bits, table) THEN <<Bar>> \o table[i].name ELSE <<>>])

\* Their names, in the table's order.
bits2str(bits, table) ==
  FlattenSeq([i \in DOMAIN table |->
    IF i \in Shown(bits, table) THEN Mark(bits, table, i) \o table[i].name ELSE <<>>])

\* How far sscanf gets: behind the spaces from `at' on, and behind the
\* characters other than '|', as many as a conversion takes.
Behind(str, at, Pass(_)) ==
  Min({k \in at..Len(str) : k = Len(str) \/ ~Pass(str[k+1])})
SkipSpace(str, at)  == Behind(str, at, LAMBDA c : c = Space)
SymbolEnd(str, at)  == Min({at + MaxName, Behind(str, at, LAMBDA c : c # Bar)})

\* One conversion.  Before each but the first sscanf wants a '|', with spaces
\* around it, and it gives up at the first thing it cannot match.
Converted(str, s, first) ==
  LET bar   == SkipSpace(str, s.at)
      begin == IF first THEN 0 ELSE SkipSpace(str, bar + 1)
      end   == SymbolEnd(str, begin)
  IN  IF s.going /\ (first \/ (bar < Len(str) /\ str[bar + 1] = Bar /\ begin < Len(str)))
            /\ end > begin
      THEN [at |-> end, going |-> TRUE, symbols |-> Append(s.symbols, SubSeq(str, begin + 1, end))]
      ELSE [s EXCEPT !.going = FALSE]

\* The symbols sscanf stores.
Scanned(str) ==
  LET scan[k \in 0..MaxSymbols] ==
        IF k = 0 THEN [at |-> 0, going |-> TRUE, symbols |-> <<>>]
        ELSE Converted(str, scan[k - 1], k = 1)
  IN  scan[MaxSymbols].symbols

\* Every symbol must be in the table; the bits of those before one that is not
\* have been stored by then.
str2bits(str, table) ==
  LET symbols == Scanned(str)
      unknown == {i \in DOMAIN symbols : symbols[i] \notin NamesOf(table)}
      heeded  == {i \in DOMAIN symbols : \A u \in unknown : i < u}
  IN  [rtn |-> IF unknown = {} THEN 0 ELSE -1,
       bits |-> UNION {BitsNamed(symbols[i], table) : i \in heeded}]

\* From the first bit of the last byte on; the loop begins below bit 7, so that
\* the highest bit of each byte is not shown.
strbits(bits, nBytes) ==
  LET shown == ByteBits - 1
  IN  [k \in 1..(nBytes * shown) |->
        LET byte == nBytes - 1 - ((k - 1) \div shown)
            bit  == shown - 1 - ((k - 1) % shown)
        IN  byte * ByteBits + bit \in bits]

\* Two digits for each byte, or NULL (here -1) without room for them.
bytes_2_hexStr(rtn_sz, src) ==
  IF (2 * Len(src)) % UintMod >= rtn_sz THEN <<-1>>
  ELSE FlattenSeq([i \in DOMAIN src |-> <<src[i] \div 16, src[i] % 16>>])
=============================================================================
