-------------------------------- MODULE Dates --------------------------------
(***************************************************************************)
(* The conversions between Julian day numbers and Gregorian dates          *)
(* (util.c:1036-1066).  Their integers are wide enough for every day that  *)
(* fits in 31 bits; what remains is that division in C drops the fraction. *)
(***************************************************************************)
EXTENDS Integers

\* a / b in C, for b > 0.
Quotient(a, b) == IF a < 0 THEN -((-a) \div b) ELSE a \div b

julian_2_gregorian(julianDay) ==
  LET ell0 == julianDay + 68569
      n    == (4 * ell0) \div 146097
      ell1 == ell0 - (146097 * n + 3) \div 4
      i    == (4000 * (ell1 + 1)) \div 1461001
      ell2 == ell1 - (1461 * i) \div 4 + 31
      j    == (80 * ell2) \div 2447
      ell3 == j \div 11
  IN  [year |-> 100 * (n - 49) + i + ell3, month |-> j + 2 - 12 * ell3,
       day |-> ell2 - (2447 * j) \div 80]

\* Fault variant: division rounds down, as of the positive numbers elsewhere.
gregorian_2_julian_Floors(year, month, day) ==
  LET q == (month - 14) \div 12
  IN  (1461 * (year + 4800 + q)) \div 4 + (367 * (month - 2 - 12 * q)) \div 12
        - (3 * ((year + 4900 + q) \div 100)) \div 4 + day - 32075

gregorian_2_julian(year, month, day) ==
  LET q == Quotient(month - 14, 12)
  IN  Quotient(1461 * (year + 4800 + q), 4)
        + Quotient(367 * (month - 2 - 12 * q), 12)
        - Quotient(3 * Quotient(year + 4900 + q, 100), 4)
        + day - 32075

----------------------------------------------------------------------------
(* The Gregorian calendar itself: its first day, and the day after a day.  *)

FirstDay  == 2299161
FirstDate == [year |-> 1582, month |-> 10, day |-> 15]

IsLeap(y) == y % 4 = 0 /\ (y % 100 = 0 => y % 400 = 0)
DaysIn(y, m) == CASE m = 2 -> IF IsLeap(y) THEN 29 ELSE 28
                  [] m \in {4, 6, 9, 11} -> 30
                  [] OTHER -> 31

NextDate(t) ==
  CASE t.day < DaysIn(t.year, t.month) -> [t EXCEPT !.day = @ + 1]
    [] t.day = DaysIn(t.year, t.month) /\ t.month < 12 ->
         [t EXCEPT !.day = 1, !.month = @ + 1]
    [] OTHER -> [year |-> t.year + 1, month |-> 1, day |-> 1]
=============================================================================
