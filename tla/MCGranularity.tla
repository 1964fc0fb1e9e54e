--------------------------- MODULE MCGranularity ---------------------------
(***************************************************************************)
(* Every granularity against every instant of a leap and a common year:    *)
(* each state is one input (g, t) of the Granularity operators.            *)
(***************************************************************************)
EXTENDS Granularity

MCYears == {2019, 2020}

VARIABLES g, t
vars == <<g, t>>

Init == g \in Granularities /\ t \in ValidInstants
Next == g' \in Granularities /\ t' \in ValidInstants
Spec == Init /\ [][Next]_vars

Bounded == {"DAY", "MONTH", "YEAR"}

\* Lower and Upper of DAY, MONTH and YEAR enclose the instant, and the
\* bounds of the period of either bound are the same period: across month
\* ends, February of a leap year and the turn of the year, the date
\* arithmetic of AddDate(...).Add(-time.Nanosecond) lands on the last
\* instant of the same period.
PeriodContainsInstant ==
  g \in Bounded =>
    /\ NotAfter(Lower(g, t), t)
    /\ NotAfter(t, Upper(g, t))
    /\ Lower(g, Upper(g, t)) = Lower(g, t)
    /\ Upper(g, Lower(g, t)) = Upper(g, t)

\* Format labels the period an instant belongs to: two instants with the
\* same label lie in the same period.  The DAY layout "2006-01-01" repeats
\* the month where the day ("02") was meant.
FormatNamesPeriod ==
  g \in Bounded =>
    \A u \in ValidInstants :
      Format(g, u) = Format(g, t) => Lower(g, u) = Lower(g, t)

=============================================================================
