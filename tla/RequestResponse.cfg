\* Three bytes and three reads, so that two reads may overlap at the end.
SPECIFICATION FairSpec
CONSTANTS
  MaxBytes = 3
  MaxReads = 3
INVARIANTS
  TypeOK
  OneConsumer
  TextIsWhole
  FailureTakesOverlap
PROPERTIES
  TextSettles
CHECK_DEADLOCK FALSE
