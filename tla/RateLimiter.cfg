\* Two IPs, two requests per window of two ticks, over two windows and the gap between them.
SPECIFICATION Spec
CONSTANTS
  Ip = {"a", "b"}
  Limit = 2
  Window = 2
  MaxTime = 5
INVARIANTS
  LessThanTwice
  RetryAfterSuffices
PROPERTIES
  RefusedOnlyWhenFull
