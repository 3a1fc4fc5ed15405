\* Liveness of the timers, in a release build; no symmetry, for a temporal property.
SPECIFICATION FairSpec
CONSTANTS
  Timeouts = {t1}
  Intervals = {i1, i2}
  Ios = {}
  Handles = {h1, h2, h3}
  NoHandle = NoHandle
  NoTask = NoTask
  MaxJobs = 1
  Debug = FALSE
PROPERTIES
  TimersNotStarved
