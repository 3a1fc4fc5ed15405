\* A callback that clears a timer in front of its own.
SPECIFICATION Spec
CONSTANTS
  Timeouts = {t1, t2, t3}
  Intervals = {i1, i2}
  Ios = {f1}
  Handles = {h1, h2, h3, h4}
  NoHandle = NoHandle
  NoTask = NoTask
  MaxJobs = 1
  Debug = TRUE
SYMMETRY Symmetry
INVARIANTS
  QueuedTasksStay
