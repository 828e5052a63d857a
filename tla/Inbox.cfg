\* Two companies, one id, two requests, two texts, two moments.
SPECIFICATION Spec
CONSTANTS
  Company = {c1, c2}
  Quote = {q1}
  Note = {n1, n2}
  Request = {r1, r2}
  None = None
  MaxTime = 2
SYMMETRY Interchangeable
INVARIANTS
  ConfirmedIsKept
  ReplyIsMailed
PROPERTIES
  ImplementsCorrespondence
  FirstResponseStays
