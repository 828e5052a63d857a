\* Two requests at a time, one new initial password, tokens of two hours.
SPECIFICATION FairSpec
CONSTANTS
  Chosen = {own}
  Request = {"r1", "r2"}
  Lifetime = 2
  MaxReset = 1
  MaxTime = 3
INVARIANTS
  PanelAfterChange
  FlagGoesWithPassword
  AnsweredChangeWasMade
PROPERTIES
  NoLockout
