\* process.h, "The handler will be executed when the process finishes", after a reload.
CONSTANTS
  Procs = {a, b}
  Functions = {}
  NoItem = NoItem
  Pids = {p, q}
  NoPid = NoPid
  ForkMayFail = FALSE
  Signals = {10}
  MaxSignals = 1
  MaxReused = 0
SPECIFICATION LifeSpec
PROPERTIES
  HandlerOfItsOwn
