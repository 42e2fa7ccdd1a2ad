\* Any settings, up to three hooks at paths of up to two segments, exceptions at any step.
CONSTANTS
  Names = {status, a}
  Empty = Empty
  StatusName = status
  MaxDepth = 2
  MaxHooks = 3
  Asserts = TRUE
  Capacity = 8
SPECIFICATION SetupSpec
INVARIANTS
  SetupTypeOK
  FindsMostSpecific
  EveryHookReachable
  OptionsFit
  ServedByAll
  NothingDangles
  NothingLeft
PROPERTIES
  ClientsServed
