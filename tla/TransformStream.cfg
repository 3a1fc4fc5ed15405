\* Two writes, three enqueues, and more reads than either.
SPECIFICATION FairSpec
CONSTANTS
  MaxWrites = 2
  MaxReads = 4
  MaxEnqueues = 3
  MaxHwm = 1
INVARIANTS
  TypeOK
  AssertionsHold
  BlockedForAReason
  SidesEndTogether
  PassesEverything
PROPERTIES
  BlockedWriteGoesOn
CHECK_DEADLOCK FALSE
