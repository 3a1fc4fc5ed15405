\* Two bodies; permits that are above, at and below 2^32.
SPECIFICATION FairSpec
CONSTANTS
  NumSources = 2
  MaxBytes = 2
  MaxSent = 6
  MaxRoom = 4
  WordSize = 3
INVARIANTS
  TypeOK
  Intact
  ShortWritesAreTruncated
  PolledTasksAreBlocked
PROPERTIES
  EveryCopyIsAPipe
  CopyEnds
