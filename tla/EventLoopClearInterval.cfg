\* clearInterval after the first occurrence.
SPECIFICATION Spec
CONSTANTS
  Timeouts = {t1}
  Intervals = {i1, i2}
  Ios = {f1}
  Handles = {h1, h2, h3}
  NoHandle = NoHandle
  NoTask = NoTask
  MaxJobs = 1
  Debug = TRUE
INVARIANTS
  ClearStopsTimer
