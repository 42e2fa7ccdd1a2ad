\* The assertions of http_server.cpp, with a body over the limit.
CONSTANTS
  Requests = {r}
  NoRequest = NoRequest
  ChainLength = 1
  ContentLimit = 2
  Pieces = {1, 2}
  Asserts = TRUE
SPECIFICATION ServerSpec
INVARIANTS
  AssertionsHold
