\* README.md, "will check all matching hooks".
CONSTANTS
  Requests = {r}
  NoRequest = NoRequest
  ChainLength = 2
  ContentLimit = 2
  Pieces = {1, 2}
  Asserts = TRUE
SPECIFICATION ServerSpec
INVARIANTS
  AllMatchingChecked
