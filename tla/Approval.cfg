\* Two requests at a time over two applications.
SPECIFICATION Spec
CONSTANTS
  Worker = {w1, w2}
  Registration = {r1, r2}
  Company = {c1, c2}
  User = {u1, u2}
  Email = {"e1", "e2", "root"}
  AdminEmail = {"root"}
  Name = {"a", "b"}
  Slug = {"s1", "s2", "s3"}
  MaxAttempt = 3
  SlugFor <- MCSlugFor
  PendingIndex = TRUE
  MaxQuotes = 1
  None = None
SYMMETRY Symmetry
INVARIANTS
  AccountsMatchApprovals
  AnswersAreTrue
  QuotesHaveCompany
  NoHalfAccount
  NoDeadlock
PROPERTIES
  DecisionsAreFinal
  ImplementsOnboarding
