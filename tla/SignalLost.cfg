\* signal_listener.h, "Waits for one of the signals to occur, then invokes the handler".
CONSTANTS
  Procs = {a}
  Functions = {}
  NoItem = NoItem
  Pids = {p}
  NoPid = NoPid
  ForkMayFail = FALSE
  Signals = {10, 15}
  MaxSignals = 2
  MaxReused = 0
SPECIFICATION LifeSpec
INVARIANTS
  SignalsHandled
