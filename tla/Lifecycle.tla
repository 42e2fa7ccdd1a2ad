------------------------------ MODULE Lifecycle ------------------------------
(***************************************************************************)
(* The life of the program around its list of actions: main() of           *)
(* src/main.cpp with the signal listeners of src/signal_listener.cpp.      *)
(*                                                                         *)
(* main() sets up a generation of objects and runs the event loop until a  *)
(* signal stops it: SIGHUP, SIGINT and SIGTERM quit, SIGUSR1 reloads the   *)
(* configuration file.  Either way the objects are destroyed in the        *)
(* reverse order of their construction: the signal listeners first, then   *)
(* the list of actions with its command in flight.  The event base and     *)
(* process::list survive into the next generation, and so do the pointers  *)
(* of process::list to the objects that have been freed without kill() or  *)
(* the end of their child.  Here an element of Procs is an address, which  *)
(* may come to hold another object.  `pid' and `processes' speak of the    *)
(* objects that exist; first, next and remains of what memory holds.       *)
(*                                                                         *)
(* libevent catches a signal by writing it to a pipe of its own.  When the *)
(* loop polls, everything in the pipe becomes active at once, and the      *)
(* callbacks follow in the order of the signals' numbers.                  *)
(* A forked child keeps libevent's handlers, and the pipe, until execve(). *)
(***************************************************************************)
EXTENDS ActionList

CONSTANTS
  Signals,    \* the numbers of the signals that somebody may send
  MaxSignals, \* bound: how many are sent in all
  MaxReused   \* bound: how often the memory of a freed object is given out again

SIGHUP  == 1
SIGINT  == 2
SIGUSR1 == 10
SIGTERM == 15

ASSUME LifeAssumption ==
  /\ Signals \subseteq {SIGHUP, SIGINT, SIGUSR1, SIGTERM}
  /\ MaxSignals \in Nat
  /\ MaxReused \in Nat

VARIABLES
  main,     \* where main() is: "running" the event loop, "stopped" behind it,
            \* "deaf" without listeners, "cleared" without a list of actions;
            \* or "exited", or "killed" by a signal's default action
  restart,  \* main()'s flag
  caught,   \* signals in libevent's pipe
  active,   \* signals whose callbacks are due in this turn of the loop
  lost,     \* history: signals whose event was freed while active
  gone,     \* history: actions destroyed together with their list
  sent,     \* how many signals have been sent
  first,    \* process::list::mProcesses; NoItem stands for nullptr
  next,     \* process::impl::next, as memory holds it
  remains,  \* the pid that memory still holds of an object that has been freed
  stale,    \* the handler of a freed object that onSigchld is about to call, as
            \* what it will be told of the child, or "none"
  reused,   \* how often the memory of a freed object has been given out again
  young     \* children between fork() and execve()

mainVars == <<main, restart, caught, active, lost, gone, sent>>
memVars  == <<first, next, remains, stale, reused>>
kinVars  == <<memVars, young>>
lifeVars == <<vars, mainVars, kinVars>>

LifeTypeOK ==
  /\ ListTypeOK
  /\ main \in {"running", "stopped", "deaf", "cleared", "exited", "killed"}
  /\ restart \in BOOLEAN
  /\ caught \in SUBSET (Signals \union {SIGTERM})
  /\ active \in SUBSET (Signals \union {SIGTERM})
  /\ lost \in SUBSET (Signals \union {SIGTERM})
  /\ gone \in SUBSET Items
  /\ sent \in 0 .. MaxSignals
  /\ first \in Procs \union {NoItem}
  /\ next \in [Procs -> Procs \union {NoItem}]
  /\ remains \in [Procs -> Pids \union {NoPid}]
  /\ stale \in {"none"} \union Ended
  /\ reused \in 0 .. MaxReused
  /\ young \in SUBSET Pids

LifeInit ==
  /\ ListInit
  /\ main = "running"
  /\ restart = FALSE
  /\ caught = {}
  /\ active = {}
  /\ lost = {}
  /\ gone = {}
  /\ sent = 0
  /\ first = NoItem
  /\ next = [i \in Procs |-> NoItem]
  /\ remains = [i \in Procs |-> NoPid]
  /\ stale = "none"
  /\ reused = 0
  /\ young = {}

-----------------------------------------------------------------------------
(* Signals *)

\* The listeners' events and with them libevent's handlers exist until they are
\* freed; after that a signal has its default effect, to end the program.
SendSignal(sig) ==
  /\ main \notin {"exited", "killed"}
  /\ loop # "aborted"
  /\ sent < MaxSignals
  /\ sent' = sent + 1
  /\ IF main \in {"running", "stopped"}
     THEN caught' = caught \union {sig} /\ UNCHANGED main
     ELSE main' = "killed" /\ UNCHANGED caught
  /\ UNCHANGED <<vars, kinVars, restart, active, lost, gone>>

\* The loop polls, after all that was active has been called.
Poll ==
  /\ main = "running"
  /\ loop = "idle"
  /\ active = {}
  /\ caught # {}
  /\ active' = caught
  /\ caught' = {}
  /\ UNCHANGED <<vars, kinVars, main, restart, lost, gone, sent>>

SignalRaised_NoStop(sig) ==
  /\ main = "running"
  /\ loop = "idle"
  /\ sig \in active
  /\ \A other \in active : sig <= other
  /\ active' = active \ {sig}
  /\ restart' = (restart \/ sig = SIGUSR1)
  /\ main' = IF sig = SIGUSR1 THEN main ELSE "stopped"
  /\ UNCHANGED <<vars, kinVars, caught, lost, gone, sent>>

\* signal_listener::impl::callback() with either handler given to wait().  No
\* other callback follows it, since it stops the loop.
SignalRaised(sig) ==
  /\ main = "running"
  /\ loop = "idle"
  /\ sig \in active
  /\ \A other \in active : sig <= other
  /\ active' = active \ {sig}
  /\ restart' = (restart \/ sig = SIGUSR1)
  /\ main' = "stopped"
  /\ UNCHANGED <<vars, kinVars, caught, lost, gone, sent>>

-----------------------------------------------------------------------------
(* The objects of a generation are destroyed *)

\* HTTP server and listeners: freed events are not active any more, but what is
\* in the pipe waits there for a listener of the next generation.
DestroyListeners ==
  /\ main = "stopped"
  /\ main' = "deaf"
  /\ lost' = lost \union active
  /\ active' = {}
  /\ UNCHANGED <<vars, kinVars, restart, caught, gone, sent>>

DropActions_KeepEvents ==
  /\ main = "deaf"
  /\ main' = "cleared"
  /\ gone' = gone \union {actions[n] : n \in DOMAIN actions}
  /\ actions' = <<>>
  /\ UNCHANGED <<events, counters, outcome, restart, active, lost, sent>>

\* The list of actions and its events.
DropActions ==
  /\ main = "deaf"
  /\ main' = "cleared"
  /\ gone' = gone \union {actions[n] : n \in DOMAIN actions}
  /\ actions' = <<>>
  /\ execEv' = FALSE
  /\ timeoutEv' = FALSE
  /\ killEv' = FALSE
  /\ UNCHANGED <<counters, outcome, restart, active, lost, sent>>

DestroyIdleList_WithSigchld ==
  /\ ~InFlight
  /\ DropActions
  /\ sigchld' = FALSE
  /\ UNCHANGED <<pid, processes, listening, child, doomed, unheard, loop, kinVars, caught>>

DestroyIdleList == ~InFlight /\ DropActions /\ UNCHANGED <<procVars, kinVars, caught>>

\* The child of the process that is destroyed with the list, if one is in flight.
ChildInFlight == pid[Head(actions)]

\* What SIGTERM to the child leaves in libevent's pipe, which the program and the
\* child share: a child that has not come to execve() yet "catches" it there.
Echo == IF ChildInFlight \in young THEN {SIGTERM} ELSE {}

\* Children are young from their fork until they execute, see ChildExecutes, or end.
Grow ==
  young' = {p \in Pids : child'[p] = "running" /\ (child[p] = "none" \/ p \in young)}

\* ~impl() of the process in flight sends SIGTERM to the child.  The object is
\* freed, but it remains linked, and its memory goes on holding pid and handler.
DestroyCommand ==
  /\ InFlight
  /\ pid' = [pid EXCEPT ![Head(actions)] = NoPid]
  /\ remains' = [remains EXCEPT ![Head(actions)] = ChildInFlight]
  /\ processes' = processes \ {Head(actions)}
  /\ caught' \in {caught, caught \union Echo}
  /\ UNCHANGED <<listening, first, next, reused>>

ChildIsReaped ==
  /\ child' = [child EXCEPT ![ChildInFlight] = "none"]
  /\ doomed' = doomed \ {ChildInFlight}
  /\ unheard' = unheard \ {ChildInFlight}

\* The child has ended already ...
DestructorReaps ==
  /\ DestroyCommand
  /\ child[ChildInFlight] \in Ended
  /\ ChildIsReaped
  /\ UNCHANGED sigchld

\* ... or ends before the destructor has looked six times, 1 ms apart ...
DestructorEnds ==
  /\ DestroyCommand
  /\ child[ChildInFlight] = "running"
  /\ ChildIsReaped
  /\ sigchld' = (sigchld \/ listening)

\* ... or does not, although it was sent SIGKILL before the last look.
DestructorGivesUp_NoKill ==
  /\ DestroyCommand
  /\ child[ChildInFlight] = "running"
  /\ UNCHANGED <<child, doomed, unheard, sigchld>>

DestructorGivesUp_Waits ==
  /\ DestroyCommand
  /\ child[ChildInFlight] = "running"
  /\ ChildInFlight \in doomed
  /\ UNCHANGED <<child, doomed, unheard, sigchld>>

DestructorGivesUp ==
  /\ DestroyCommand
  /\ child[ChildInFlight] = "running"
  /\ doomed' = doomed \union {ChildInFlight}
  /\ UNCHANGED <<child, unheard, sigchld>>

DestroyBusyList ==
  /\ DropActions
  /\ DestructorReaps \/ DestructorEnds \/ DestructorGivesUp
  /\ Grow
  /\ UNCHANGED <<loop, stale>>

-----------------------------------------------------------------------------
(* The next generation, or none *)

\* The configuration file is loaded and everything set up anew ...
Reload ==
  /\ main = "cleared"
  /\ restart
  /\ main' = "running"
  /\ restart' = FALSE
  /\ UNCHANGED <<vars, kinVars, caught, active, lost, gone, sent>>

\* ... or some of it throws, and main() ends as when it is to quit.
Exit ==
  /\ main = "cleared"
  /\ main' = "exited"
  /\ UNCHANGED <<vars, kinVars, restart, caught, active, lost, gone, sent>>

-----------------------------------------------------------------------------
(* process::list, with what reloads have left in it *)

\* Objects that do not exist any more.
Freed == {i \in Procs : outcome[i] \in Over} \union (gone \intersect Procs)

\* The objects in the order of the list, and NoItem behind its end.  A list that
\* is tied into a knot does not end.
Walk[n \in 0 .. Cardinality(Procs)] ==
  IF n = 0 THEN first ELSE IF Walk[n - 1] = NoItem THEN NoItem ELSE next[Walk[n - 1]]

\* Freed objects that the list still leads to.
Dangling == {Walk[n] : n \in DOMAIN Walk} \intersect Freed

\* The pid that memory holds at an object's address.
Holds(i) == IF pid[i] # NoPid THEN pid[i] ELSE remains[i]

\* onSigchld() has not come to the end of the list, nor to an object that holds p,
\* before it comes to the n-th place.
Seeks(p, n) == \A k \in 0 .. n - 1 : Walk[k] # NoItem /\ Holds(Walk[k]) # p

\* The objects that it looks at in its search for the owner of the child.
Visited(p) == {Walk[n] : n \in {m \in DOMAIN Walk : Seeks(p, m)}} \ {NoItem}

\* It looks for ever.
Circles(p) == Seeks(p, Cardinality(Procs) + 1)

\* The object is taken out of the list where the list first points to it.
Unlink(i) ==
  IF first = i THEN first' = next[i] /\ UNCHANGED next
  ELSE \E n \in DOMAIN Walk \ {0} :
         /\ Walk[n] = i
         /\ \A k \in 0 .. n - 1 : Walk[k] # i
         /\ next' = [next EXCEPT ![Walk[n - 1]] = next[i]]
         /\ UNCHANGED first

Link_AtTail ==
  \/ processes' = processes /\ UNCHANGED <<first, next>>
  \/ \E i \in processes' \ processes :
       IF first = NoItem THEN first' = i /\ UNCHANGED next
       ELSE \E n \in DOMAIN Walk :
              /\ Walk[n] # NoItem
              /\ next[Walk[n]] = NoItem
              /\ next' = [next EXCEPT ![Walk[n]] = i]
              /\ UNCHANGED first
  \/ \E i \in processes \ processes' : Unlink(i)

\* add() and remove().
Link ==
  \/ processes' = processes /\ UNCHANGED <<first, next>>
  \/ \E i \in processes' \ processes : first' = i /\ next' = [next EXCEPT ![i] = first]
  \/ \E i \in processes \ processes' : Unlink(i)

\* It looks at a freed object: undefined.  The search may go well, see ListStep,
\* or crash ...
SearchCrashes(p) ==
  /\ loop = "reaping"
  /\ child[p] \in Ended
  /\ Visited(p) \intersect Freed # {} \/ Circles(p)
  /\ loop' = "aborted"
  /\ UNCHANGED <<pid, processes, listening, sigchld, child, doomed, unheard, listVars, kinVars,
                 caught>>

\* ... or find what the memory of the freed object still holds: the pid and,
\* moved away from it, the handler.
FindsFreed(p) ==
  /\ ReapKilled(p)
  /\ \E i \in Visited(p) \intersect Freed :
       /\ remains[i] = p
       /\ remains' = [remains EXCEPT ![i] = NoPid]
       /\ Unlink(i)
  /\ stale' = child[p]
  /\ Grow
  /\ UNCHANGED <<reused, caught>>

\* The handler belongs to a list that is gone.  The list that is there now may have
\* come to lie in the same memory: the handler takes it for its own, and ends its
\* current action, the running command included.
StaleHandler ==
  LET how == IF stale = "failure" THEN "failed" ELSE "completed"
  IN  /\ stale # "none"
      /\ actions # <<>>
      /\ execEv => Tail(actions) # <<>>
      /\ stale' = "none"
      /\ timeoutEv' = FALSE
      /\ killEv' = FALSE
      /\ failed' = IF how = "failed" THEN failed + 1 ELSE failed
      /\ Finish(how)
      /\ \/ DestructorReaps \/ DestructorEnds \/ DestructorGivesUp
         \/ ~InFlight /\ UNCHANGED <<pid, processes, listening, child, sigchld, doomed,
                                     unheard, first, next, remains, reused, caught>>
      /\ Grow
      /\ UNCHANGED <<executed, loop>>

\* Or the handler reaches into freed memory, or takes the front of an empty list, or
\* leaves executeNextAction due for one: the model does not follow it any further.
StaleHandlerCrashes ==
  /\ stale # "none"
  /\ stale' = "none"
  /\ loop' = "aborted"
  /\ UNCHANGED <<pid, processes, listening, sigchld, child, doomed, unheard, listVars,
                 first, next, remains, reused, young, caught>>

\* A process that is set up for an action gets the memory of a freed one to which
\* process::list still points; the constructor resets next and pid.  (Memory that
\* nothing points to is as good as new.)
AppendReused(i) ==
  /\ main = "running"
  /\ loop = "idle"
  /\ i \in Dangling
  /\ reused < MaxReused
  /\ reused' = reused + 1
  /\ next' = [next EXCEPT ![i] = NoItem]
  /\ remains' = [remains EXCEPT ![i] = NoPid]
  /\ gone' = gone \ {i}
  /\ outcome' = [outcome EXCEPT ![i] = "listed"]
  /\ actions' = Append(actions, i)
  /\ execEv' = (execEv \/ Len(actions') = 1)
  /\ UNCHANGED <<procVars, timeoutEv, killEv, counters, first, stale, young,
                 main, restart, caught, active, lost, sent>>

-----------------------------------------------------------------------------
(* The list of actions at work *)

\* A child comes to execve().
ChildExecutes(p) ==
  /\ p \in young
  /\ young' = young \ {p}
  /\ UNCHANGED <<vars, mainVars, memVars>>

\* A search for the owner of a child comes to an end.
SearchEnds ==
  \A p \in Pids : child[p] # "none" /\ child'[p] = "none" => Owners(p) # {} \/ ~Circles(p)

ListStep ==
  /\ main = "running"
  /\ stale = "none"
  /\ ListNext
  /\ SearchEnds
  /\ Link
  /\ Grow
  /\ caught' = caught \union (IF killEv' /\ ~killEv THEN Echo ELSE {})
  /\ UNCHANGED <<main, restart, active, lost, gone, sent, remains, stale, reused>>

\* What onSigchld may come to when its search leads to freed objects.
AstrayStep ==
  /\ main = "running"
  /\ \/ stale = "none" /\ \E p \in Pids : SearchCrashes(p) \/ FindsFreed(p)
     \/ StaleHandler
     \/ StaleHandlerCrashes
  /\ UNCHANGED <<main, restart, active, lost, gone, sent>>

\* Children go on ending while main() or a handler does something else.
ChildStep ==
  /\ main # "running" \/ stale # "none"
  /\ \E p \in Pids, how \in Ended : ChildEnds(p, how)
  /\ Grow
  /\ UNCHANGED <<listVars, mainVars, memVars>>

\* The program is over, or sleeps in the event loop with nothing left to do.
Rest ==
  /\ \/ main \in {"exited", "killed"}
     \/ /\ main = "running"
        /\ \A i \in Items : outcome[i] \in Over \/ i \in gone
        /\ ~sigchld
        /\ \A p \in Pids : child[p] # "running"
  /\ UNCHANGED lifeVars

LifeNext ==
  \/ \E sig \in Signals : SendSignal(sig)
  \/ \E sig \in active : SignalRaised(sig)
  \/ Poll
  \/ DestroyListeners
  \/ DestroyIdleList
  \/ DestroyBusyList
  \/ Reload
  \/ Exit
  \/ ListStep
  \/ AstrayStep
  \/ \E i \in Procs : AppendReused(i)
  \/ ChildStep
  \/ \E p \in Pids : ChildExecutes(p)
  \/ Rest

\* A callback of the list that has begun goes on.
ListGoesOn ==
  \/ /\ CommandStarted \/ \E p \in Pids : HandlerCalled(p) \/ ReapKilled(p)
     /\ ListStep
  \/ ReapNone /\ ListStep
  \/ AstrayStep

\* The thread goes on: in callbacks, in the event loop and in main().
LifeFairness ==
  /\ WF_lifeVars(ListGoesOn)
  /\ WF_lifeVars(Poll)
  /\ WF_lifeVars(\E sig \in active : SignalRaised(sig))
  /\ WF_lifeVars(DestroyListeners)
  /\ WF_lifeVars(DestroyIdleList
                 \/ (DestroyBusyList /\ (DestructorReaps \/ DestructorGivesUp)))
  /\ WF_lifeVars(Reload \/ Exit)

LifeSafety == LifeInit /\ [][LifeNext]_lifeVars
LifeSpec   == LifeSafety /\ LifeFairness

-----------------------------------------------------------------------------
(* Properties *)

\* A program that quits by itself leaves no command behind, except one that has
\* been sent SIGKILL and must end.  (One killed by a signal's default action
\* leaves its command running.)
NoOrphan ==
  main = "exited" => \A p \in Pids : child[p] = "running" => p \in doomed

\* process::list and its SIGCHLD event stay when a generation goes: a child that has
\* ended, such as one that a destructor gave up on, is still to be reaped, in the next
\* generation if need be.
ReapedAcrossReloads ==
  loop # "aborted" => NoForgottenZombie

\* A signal that has been caught stops the loop, whatever the list of actions
\* does at the time: no callback waits for a command.
SignalStops ==
  caught # {} /\ main = "running" ~> main # "running" \/ loop = "aborted"

\* The destructors come to their end, even if the command ignores SIGTERM: the
\* next generation starts, or the program is over.
DestructionEnds ==
  main \in {"stopped", "deaf", "cleared"} ~> main \in {"running", "exited", "killed"}

\* The process of the current command is the first of process::list: its end is
\* noticed, and kill() removes it, without a look at the objects behind it, which
\* a reload may have left there freed.
CurrentFoundFirst ==
  InFlight /\ loop # "forked" => first = Head(actions)

\* "Waits for one of the signals to occur, then invokes the handler"
\* (signal_listener.h, wait()): the program does not go on in a new generation
\* as if a signal that its listeners had caught had never been sent.
SignalsHandled == main = "running" => lost = {}

\* "The handler will be executed when the process finishes or execution fails
\* somehow" (process.h, start()): the end of a command that has been started is
\* announced to the list of actions in a step that reaps its own child.
HandlerOfItsOwn ==
  [][\A i \in Procs :
       /\ pid[i] # NoPid
       /\ outcome[i] = "listed" /\ outcome'[i] \in {"completed", "failed"}
       => child[pid[i]] \in Ended]_lifeVars

\* "Waits for one of the signals to occur": nor is a signal handled that nobody
\* sent to the program.
SignalsWereSent == caught \union active \subseteq Signals
=============================================================================
