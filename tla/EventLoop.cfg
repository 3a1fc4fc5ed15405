\* Callbacks that clear any timer, their own included, and I/O tasks that queue
\* their successors, in a debug build.
SPECIFICATION Spec
CONSTANTS
  Timeouts = {t1}
  Intervals = {i1, i2}
  Ios = {f1, f2}
  Handles = {h1, h2, h3, h4}
  NoHandle = NoHandle
  NoTask = NoTask
  MaxJobs = 1
  Debug = TRUE
SYMMETRY Symmetry
INVARIANTS
  TypeOK
  NoTaskLostSilently
  PollablesOwned
  DoneMeansNothingPending
PROPERTIES
  OnlyQueuedTasksRun
