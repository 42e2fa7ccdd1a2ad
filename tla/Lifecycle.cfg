\* Two commands, and two signals at any time, beside those that a young child echoes; the
\* memory of a freed object may be given out again once.
CONSTANTS
  Procs = {a, b}
  Functions = {}
  NoItem = NoItem
  Pids = {p, q}
  NoPid = NoPid
  ForkMayFail = FALSE
  Signals = {2, 10}
  MaxSignals = 2
  MaxReused = 1
SPECIFICATION LifeSpec
INVARIANTS
  LifeTypeOK
  WakeUp
  TimersFollowCommand
  NoStalePid
  OneLiveCommand
  NoOrphan
  ReapedAcrossReloads
  CurrentFoundFirst
PROPERTIES
  SignalStops
  DestructionEnds
