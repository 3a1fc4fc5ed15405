\* One byte and one read suffice.
SPECIFICATION FairSpec
CONSTANTS
  MaxBytes = 1
  MaxReads = 1
PROPERTIES
  ForwardingFetchSettles
CHECK_DEADLOCK FALSE
