CONSTANTS
  Years <- MCYears
SPECIFICATION Spec
INVARIANT PeriodContainsInstant
