----------------------------- MODULE Granularity -----------------------------
(***************************************************************************)
(* drivers.Granularity (src/unnamed/part_002): the bounds and the label of *)
(* the DAY, MONTH or YEAR period an instant falls in.  Instants are kept at *)
(* the resolution the operators tell apart: a calendar date and a position *)
(* in the day, "start" (00:00:00), "mid" (any time inside the day) or      *)
(* "last" (23:59:59.999999999, one nanosecond before the next day).  All   *)
(* instants are UTC: main sets time.Local = time.UTC, so Truncate(24h) and *)
(* time.Date agree on where a day starts.                                  *)
(***************************************************************************)
EXTENDS Integers

CONSTANTS Years   \* the calendar years the instants range over

Granularities == {"DAY", "MONTH", "YEAR", "FOREVER"}
Parts == <<"start", "mid", "last">>

Leap(y) == (y % 4 = 0 /\ y % 100 # 0) \/ y % 400 = 0

DaysIn(y, m) ==
  CASE m = 2                -> IF Leap(y) THEN 29 ELSE 28
    [] m \in {4, 6, 9, 11}  -> 30
    [] OTHER                -> 31

Instant(y, m, d, p) == [y |-> y, m |-> m, d |-> d, p |-> p]

\* time.Time{}: January 1 of year 1, 00:00 UTC.
ZeroTime == Instant(1, 1, 1, "start")

\* time.Date(y, m, d, 0, 0, 0, 0, loc) for d at most one past the month end
\* and m at most one past December: Go normalises the overflow into the
\* next month and year.
Date(y, m, d) ==
  LET m1 == IF m = 13 THEN 1 ELSE m
      y1 == IF m = 13 THEN y + 1 ELSE y
  IN IF d > DaysIn(y1, m1)
     THEN IF m1 = 12 THEN Instant(y1 + 1, 1, 1, "start")
                     ELSE Instant(y1, m1 + 1, 1, "start")
     ELSE Instant(y1, m1, d, "start")

\* t.Add(-time.Nanosecond) for t at the start of a day: the last
\* nanosecond of the day before.
MinusNanosecond(t) ==
  IF t.d > 1 THEN Instant(t.y, t.m, t.d - 1, "last")
  ELSE IF t.m > 1 THEN Instant(t.y, t.m - 1, DaysIn(t.y, t.m - 1), "last")
  ELSE Instant(t.y - 1, 12, 31, "last")

\* Granularity.Lower.  DAY truncates to a multiple of 24h since the zero
\* time, which is UTC midnight.  Unknown granularities log and return the
\* zero time, as FOREVER does.
Lower(g, t) ==
  CASE g = "DAY"   -> Instant(t.y, t.m, t.d, "start")
    [] g = "MONTH" -> Date(t.y, t.m, 1)
    [] g = "YEAR"  -> Date(t.y, 1, 1)
    [] OTHER       -> ZeroTime

\* Mutant of Upper: the final Add(-time.Nanosecond) is forgotten, so the
\* bound is the first instant of the next period.
UpperNoNanosecond(g, t) ==
  CASE g = "DAY"   -> Date(t.y, t.m, t.d + 1)
    [] g = "MONTH" -> Date(t.y, t.m + 1, 1)
    [] g = "YEAR"  -> Date(t.y + 1, 1, 1)
    [] OTHER       -> ZeroTime

\* Granularity.Upper: start of the period, AddDate by one period, minus one
\* nanosecond.  FOREVER and unknown granularities return the zero time.
Upper(g, t) ==
  CASE g = "DAY"   -> MinusNanosecond(Date(t.y, t.m, t.d + 1))
    [] g = "MONTH" -> MinusNanosecond(Date(t.y, t.m + 1, 1))
    [] g = "YEAR"  -> MinusNanosecond(Date(t.y + 1, 1, 1))
    [] OTHER       -> ZeroTime

\* Granularity.Format renders a Go layout.  In a layout "2006" is the year,
\* "01" the month and "02" the day, so the DAY layout "2006-01-01" prints
\* year, month, month.  The label is kept as the tuple of the printed
\* fields; FOREVER and unknown granularities log and return "".
Format(g, t) ==
  CASE g = "DAY"   -> <<t.y, t.m, t.m>>
    [] g = "MONTH" -> <<t.y, t.m>>
    [] g = "YEAR"  -> <<t.y>>
    [] OTHER       -> << >>

\* Order of instants: by date, then by position in the day.
Rank(p) == CHOOSE i \in 1..3 : Parts[i] = p
Before(s, t) ==
  \/ s.y < t.y
  \/ s.y = t.y /\ s.m < t.m
  \/ s.y = t.y /\ s.m = t.m /\ s.d < t.d
  \/ s.y = t.y /\ s.m = t.m /\ s.d = t.d /\ Rank(s.p) < Rank(t.p)
NotAfter(s, t) == s = t \/ Before(s, t)

Instants == {Instant(y, m, d, p) : y \in Years, m \in 1..12, d \in 1..31,
                                   p \in {"start", "mid", "last"}}
ValidInstants == {t \in Instants : t.d <= DaysIn(t.y, t.m)}

=============================================================================
