\* Two requests to a path with two hooks, bodies of up to one unit more than allowed.
CONSTANTS
  Requests = {r, s}
  NoRequest = NoRequest
  ChainLength = 2
  ContentLimit = 2
  Pieces = {1, 2}
  Asserts = TRUE
SPECIFICATION GateSpec
INVARIANTS
  GateTypeOK
  OnlyFittingHooksRun
  ChainOrder
  AnswerIsTrue
  ServerCounters
  OrderedAsRequests
PROPERTIES
  AcceptedIsExecuted
