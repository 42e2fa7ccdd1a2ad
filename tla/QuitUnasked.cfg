\* signal_listener.h, "Waits for one of the signals to occur", when SIGUSR1 is all that is sent.
CONSTANTS
  Procs = {a}
  Functions = {}
  NoItem = NoItem
  Pids = {p}
  NoPid = NoPid
  ForkMayFail = FALSE
  Signals = {10}
  MaxSignals = 1
  MaxReused = 0
SPECIFICATION LifeSpec
INVARIANTS
  SignalsWereSent
