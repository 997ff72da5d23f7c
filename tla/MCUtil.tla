------------------------------- MODULE MCUtil -------------------------------
(* Util for TLC: 400 years and a leap year's start and end; a day of half  *)
(* hours in which the clock changes at two or at midnight; small tables.   *)
EXTENDS Util, TLC

CONSTANTS A, B

MCDays == 2299161..2445500
MCZone == [at : {-100, 48, 52, 94, 96, 100}, after : BOOLEAN]
MCFrom == 0..150

Named1(n, b) == [name |-> n, bits |-> b]
MCTable == {<<>>, <<Named1(<<A>>, {0}), Named1(<<B>>, {1}), Named1(<<A, B>>, {2})>>,
            <<Named1(<<A>>, {0, 3}), Named1(<<B>>, {3})>>,
            <<Named1(<<A, Space>>, {0}), Named1(<<A>>, {1, 2}), Named1(<<B, B>>, {2}), Named1(<<B>>, {3})>>}
MCWord == SUBSET {0, 1, 2, 3, 7, 8, 15}
MCChar == {A, B, Bar, Space}
MCText == SeqOf(MCChar, 5)
MCZoneSpring == {[at |-> 52, after |-> TRUE]}

Long(n) == SeqOf({"a", " "}, n) \ {<<>>}
MCZoneName ==
  {<<":">>} \cup {s \o <<":">> : s \in SeqOf({"a", "b"}, 2) \ {<<>>}}
    \cup {<<"quote", "a">> \o s \o <<"quote">> : s \in SeqOf({"a", ":"}, 2)}
Row(ms, p) == [ms |-> ms, posix |-> p]
Rows == {Row(<<"a", ":">>, "p"), Row(<<"a", "b", ":">>, "q"), Row(<<"quote", "a", ":", "quote">>, "r"),
         Row(<<"quote", "a", "quote">>, "s"), Row(<<"quote", "a", ":", "a", "quote">>, "t")}
MCZoneTable == {t \in SeqOf(Rows, 3) : IsInjective(t)}
MCWritten ==
  [role : {<<>>, <<"REQ-PARTICIPANT", ";">>}, name : Long(7), mailto : {"MAILTO", "mailto"},
   deputy : {<<>>, <<"MAILTO", ":", "a">>, <<"mailto", ":", "a", "a">>}, mail : {<<"a">>, <<"a", "a", "a">>}]
MCProse == SeqOf({"a", "n", "t", ",", "\\", "newline"}, 4)
MCBytes == SeqOf({0, 18, 255}, 3)
=============================================================================
