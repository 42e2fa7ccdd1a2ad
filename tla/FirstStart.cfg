\* The first start() of the program: process::list does not exist yet.
CONSTANTS
  Procs = {a}
  Pids = {p}
  NoPid = NoPid
  ForkMayFail = FALSE
SPECIFICATION ProcSpec
INVARIANTS
  EndedChildIsNoticed
