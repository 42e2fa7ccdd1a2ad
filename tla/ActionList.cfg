\* Two commands and a function; the first command is the first start() of the
\* program, and p and q are used again once they are reaped.
CONSTANTS
  Procs = {a, b}
  Functions = {f}
  NoItem = NoItem
  Pids = {p, q}
  NoPid = NoPid
  ForkMayFail = TRUE
SPECIFICATION ListSpec
INVARIANTS
  ListTypeOK
  NoForgottenZombie
  WakeUp
  TimersFollowCommand
  ChildHasOneOwner
  CountersAgree
PROPERTIES
  EveryZombieReaped
  EveryActionEnds
  ImplementsSerial
