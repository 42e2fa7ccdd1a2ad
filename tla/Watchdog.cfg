\* debian/gitlab-hook.service: WatchdogSec=5s, with a second of four ticks.
CONSTANTS
  UsecPerSec = 4
  usec = 20
SPECIFICATION WatchdogSpec
INVARIANTS
  KeptAlive
