\* Days of two ticks, reports of one day and of two, two midnights.
SPECIFICATION Spec
CONSTANTS
  Event = {e1, e2}
  Quote = {q1}
  Day = 2
  Ranges = {1, 2}
  Horizon = 5
  None = None
INVARIANTS
  BarsAreComplete
  TotalsAgree
