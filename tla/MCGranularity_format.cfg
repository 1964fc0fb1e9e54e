CONSTANTS
  Years <- MCYears
SPECIFICATION Spec
INVARIANT FormatNamesPeriod
