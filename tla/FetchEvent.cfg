\* All kinds of responses, with few calls; no symmetry, for a temporal property.
SPECIFICATION FairSpec
CONSTANTS
  Promises = {p1, p2}
  Outcomes = {"empty", "static", "closed", "stream", "unusable", "host",
              "incoming", "bare", "consumed", "other", "rejected"}
  MaxHandlers = 2
  MaxCalls = 5
INVARIANTS
  TypeOK
  OneResponse
  CountMatchesReactions
  MicrotasksFindTheirState
  OutstandingMeansActive
  ReturnMeansAnswered
  WritersHaveABody
PROPERTIES
  StateAdvances
  SettledResponseIsSent
