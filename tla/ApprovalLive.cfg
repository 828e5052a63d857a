\* Liveness, without symmetry. One name, one address, and a database whose
\* duplicates kept migration 011 from making its index on pending applications,
\* so that two approvals meet on the slug and on the address.
SPECIFICATION FairSpec
CONSTANTS
  Worker = {w1, w2}
  Registration = {r1, r2}
  Company = {c1, c2}
  User = {u1, u2}
  Email = {"e1"}
  AdminEmail = {}
  Name = {"a"}
  Slug = {"s1", "s2", "s3"}
  MaxAttempt = 3
  SlugFor <- MCSlugFor
  PendingIndex = FALSE
  MaxQuotes = 0
  None = None
INVARIANTS
  KeysAreUnique
PROPERTIES
  EveryRequestEnds
