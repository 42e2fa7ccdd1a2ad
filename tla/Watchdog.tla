------------------------------ MODULE Watchdog ------------------------------
(***************************************************************************)
(* src/watchdog.cpp against systemd's watchdog: the service manager kills  *)
(* a service from which it has not heard for the configured time, and a    *)
(* timer of the event loop is to prevent this.                             *)
(*                                                                         *)
(* Time is counted in ticks, of which UsecPerSec make a second: what the   *)
(* code does with microseconds is done with ticks, so that a second may be *)
(* short enough to be counted through.                                     *)
(***************************************************************************)
EXTENDS Integers

CONSTANTS
  UsecPerSec,  \* the code's 1000000, a positive number
  usec         \* systemd's limit, as told by sd_watchdog_enabled(), positive too

VARIABLES
  now,      \* ticks since the constructor has started the timer
  pending,  \* has the timer still to expire?
  silence,  \* ticks since the service was last heard of
  service   \* "up" or "killed" by systemd

watchdogVars == <<now, pending, silence, service>>

\* The constructor's timeval.  The subtraction is one of unsigned numbers, but its
\* result is cast to a signed one.
tv_sec  == usec % UsecPerSec
tv_usec == usec - tv_sec * UsecPerSec

\* evtimer_new() and event_add(), in a main() that has sent "READY=1".
WatchdogInit == now = 0 /\ pending = TRUE /\ silence = 0 /\ service = "up"

\* libevent adds a timeval to the present time, carries one second at most, and
\* compares seconds before microseconds.
Carry == IF tv_usec >= UsecPerSec THEN 1 ELSE 0
Due ==
  LET sec     == tv_sec + Carry
      elapsed == now \div UsecPerSec
  IN  \/ elapsed > sec
      \/ elapsed = sec /\ now % UsecPerSec >= tv_usec - Carry * UsecPerSec

\* watchdogCb().  The timer is not a persistent one.
TimerExpires ==
  /\ service = "up"
  /\ pending
  /\ Due
  /\ silence' = 0
  /\ pending' = FALSE
  /\ UNCHANGED <<now, service>>

\* Time passes; the event loop is never late.
Tick ==
  /\ service = "up"
  /\ ~(pending /\ Due)
  /\ now' = now + 1
  /\ silence' = silence + 1
  /\ service' = IF silence' > usec THEN "killed" ELSE "up"
  /\ UNCHANGED pending

\* systemd starts the service anew, which is another behaviour.
Killed == service = "killed" /\ UNCHANGED watchdogVars

WatchdogNext == TimerExpires \/ Tick \/ Killed

WatchdogSpec == WatchdogInit /\ [][WatchdogNext]_watchdogVars

-----------------------------------------------------------------------------
(* Properties *)

\* "As long as the context's event loop is running, it will regularly trigger
\* the SystemD watchdog to prevent it from shutting down the application"
\* (watchdog.h).  The loop runs in every state of this module.
KeptAlive == service # "killed"
=============================================================================
