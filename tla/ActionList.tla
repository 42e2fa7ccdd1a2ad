----------------------------- MODULE ActionList -----------------------------
(***************************************************************************)
(* The global list of actions, src/action_list.cpp, with the processes it  *)
(* runs: hooks append commands and functions, and callbacks of the event   *)
(* loop execute them one after the other.                                  *)
(*                                                                         *)
(* The list is driven by three libevent events.  An event that is active   *)
(* or pending is TRUE; the loop may run its callback at any time when the  *)
(* thread is idle, since timers run as fast as the clock likes and libevent *)
(* promises no order between events that are active together.              *)
(***************************************************************************)
EXTENDS ChildProcess, Sequences, Naturals

CONSTANTS
  Functions,  \* the actions that are functions, not processes
  NoItem      \* no action at all

Items == Procs \union Functions

ASSUME ActionAssumption ==
  /\ Functions \intersect Procs = {}
  /\ NoItem \notin Items

VARIABLES
  actions,    \* impl::actions, the list; its front is the current action
  execEv,     \* is the event of executeNextAction active?
  timeoutEv,  \* is the timer of terminateCurrentAction pending?
  killEv,     \* is the timer of killCurrentAction pending?
  executed,   \* actionsExecuted
  failed,     \* actionsFailed
  outcome     \* history: what became of each action; an action is a fresh
              \* object, so it is appended once at most

events == <<execEv, timeoutEv, killEv>>
counters == <<executed, failed>>
listVars == <<actions, events, counters, outcome>>
vars == <<procVars, listVars>>

Over == {"completed", "failed", "killed"}

ListTypeOK ==
  /\ ProcTypeOK
  /\ actions \in Seq(Items)
  /\ execEv \in BOOLEAN
  /\ timeoutEv \in BOOLEAN
  /\ killEv \in BOOLEAN
  /\ executed \in Nat
  /\ failed \in Nat
  /\ outcome \in [Items -> {"new", "listed"} \union Over]

ListInit ==
  /\ ProcInit
  /\ actions = <<>>
  /\ execEv = FALSE
  /\ timeoutEv = FALSE
  /\ killEv = FALSE
  /\ executed = 0
  /\ failed = 0
  /\ outcome = [i \in Items |-> "new"]

\* The current action is a command whose child has been started.
InFlight ==
  /\ actions # <<>>
  /\ Head(actions) \in Procs
  /\ pid[Head(actions)] # NoPid

-----------------------------------------------------------------------------
(* action_list::append(), called by a hook from the HTTP server's callback *)

AppendAction_AlwaysActivate(i) ==
  /\ loop = "idle"
  /\ outcome[i] = "new"
  /\ outcome' = [outcome EXCEPT ![i] = "listed"]
  /\ actions' = Append(actions, i)
  /\ execEv' = TRUE
  /\ UNCHANGED <<procVars, timeoutEv, killEv, counters>>

AppendAction_AtFront(i) ==
  /\ loop = "idle"
  /\ outcome[i] = "new"
  /\ outcome' = [outcome EXCEPT ![i] = "listed"]
  /\ actions' = IF InFlight THEN <<Head(actions), i>> \o Tail(actions)
                            ELSE <<i>> \o actions
  /\ execEv' = (execEv \/ Len(actions') = 1)
  /\ UNCHANGED <<procVars, timeoutEv, killEv, counters>>

AppendAction(i) ==
  /\ loop = "idle"
  /\ outcome[i] = "new"
  /\ outcome' = [outcome EXCEPT ![i] = "listed"]
  /\ actions' = Append(actions, i)
  /\ execEv' = (execEv \/ Len(actions') = 1)
  /\ UNCHANGED <<procVars, timeoutEv, killEv, counters>>

-----------------------------------------------------------------------------
(* executeNextAction(), the callback of execEv *)

\* The current action ends with `how': it leaves the list and the next one, if
\* there is one, is scheduled.
Finish(how) ==
  /\ outcome' = [outcome EXCEPT ![Head(actions)] = how]
  /\ actions' = Tail(actions)
  /\ execEv' = (actions' # <<>>)

\* executeProcess() up to the return of fork() ...
StartCommand(p) ==
  /\ execEv
  /\ Head(actions) \in Procs
  /\ Fork(Head(actions), p)
  /\ execEv' = FALSE
  /\ UNCHANGED <<actions, timeoutEv, killEv, counters, outcome>>

\* ... or its throwing out of the noexcept callback ...
StartFails ==
  /\ execEv
  /\ Head(actions) \in Procs
  /\ ForkFails(Head(actions))
  /\ execEv' = FALSE
  /\ UNCHANGED <<actions, timeoutEv, killEv, counters, outcome>>

\* ... and the rest of the callback: the list of processes, the timer, the count.
CommandStarted ==
  /\ Register(Head(actions))
  /\ timeoutEv' = TRUE
  /\ executed' = executed + 1
  /\ UNCHANGED <<actions, execEv, killEv, failed, outcome>>

\* executeFunction(): the function returns or throws.
CallFunction_NotCounted(how) ==
  /\ loop = "idle"
  /\ execEv
  /\ Head(actions) \in Functions
  /\ Finish(how)
  /\ executed' = executed + 1
  /\ UNCHANGED <<procVars, timeoutEv, killEv, failed>>

CallFunction(how) ==
  /\ loop = "idle"
  /\ execEv
  /\ Head(actions) \in Functions
  /\ Finish(how)
  /\ executed' = executed + 1
  /\ failed' = IF how = "failed" THEN failed + 1 ELSE failed
  /\ UNCHANGED <<procVars, timeoutEv, killEv>>

-----------------------------------------------------------------------------
(* The two timers *)

TerminateCurrentAction_Hope ==
  /\ timeoutEv
  /\ Terminate(Head(actions))
  /\ timeoutEv' = FALSE
  /\ UNCHANGED <<actions, execEv, killEv, counters, outcome>>

TerminateCurrentAction ==
  /\ timeoutEv
  /\ Terminate(Head(actions))
  /\ timeoutEv' = FALSE
  /\ killEv' = TRUE
  /\ UNCHANGED <<actions, execEv, counters, outcome>>

\* The next action does not wait for the child to die, and nothing is counted.
KillCurrentAction ==
  /\ killEv
  /\ Kill(Head(actions))
  /\ killEv' = FALSE
  /\ Finish("killed")
  /\ UNCHANGED <<timeoutEv, counters>>

-----------------------------------------------------------------------------
(* process::list::onSigchld() and the handler given to start() *)

HandlerCalled_KeepKillTimer(p) ==
  /\ Owners(p) # {}
  /\ Reap(p)
  /\ timeoutEv' = FALSE
  /\ failed' = IF child[p] = "failure" THEN failed + 1 ELSE failed
  /\ Finish(IF child[p] = "failure" THEN "failed" ELSE "completed")
  /\ UNCHANGED <<killEv, executed>>

HandlerCalled(p) ==
  /\ Owners(p) # {}
  /\ Reap(p)
  /\ timeoutEv' = FALSE
  /\ killEv' = FALSE
  /\ failed' = IF child[p] = "failure" THEN failed + 1 ELSE failed
  /\ Finish(IF child[p] = "failure" THEN "failed" ELSE "completed")
  /\ UNCHANGED executed

\* The child of a process that was killed: there is no handler any more.
ReapKilled(p) == Owners(p) = {} /\ Reap(p) /\ UNCHANGED listVars

-----------------------------------------------------------------------------
\* Steps that the list takes no part in.
ProcessStep ==
  /\ \/ \E p \in Pids, how \in Ended : ChildEnds(p, how)
     \/ OnSigchld
     \/ ReapNone
     \/ Aborted
  /\ UNCHANGED listVars

\* The event loop sleeps: every action is over, and nothing will happen any more.
AllDone ==
  /\ loop = "idle"
  /\ ~sigchld
  /\ \A i \in Items : outcome[i] \in Over
  /\ \A p \in Pids : child[p] # "running"
  /\ UNCHANGED vars

ListNext ==
  \/ \E i \in Items : AppendAction(i)
  \/ \E p \in Pids : StartCommand(p)
  \/ StartFails
  \/ CommandStarted
  \/ \E how \in {"completed", "failed"} : CallFunction(how)
  \/ TerminateCurrentAction
  \/ KillCurrentAction
  \/ \E p \in Pids : HandlerCalled(p)
  \/ \E p \in Pids : ReapKilled(p)
  \/ ProcessStep
  \/ AllDone

\* The event loop runs every callback that is due, a callback goes on to its
\* end, time passes, and the kernel carries out SIGKILL.  Hooks need not append
\* and children need not end.
ListFairness ==
  /\ WF_vars((\E p \in Pids : StartCommand(p))
            \/ (\E how \in {"completed", "failed"} : CallFunction(how)))
  /\ WF_vars(CommandStarted)
  /\ WF_vars(TerminateCurrentAction)
  /\ WF_vars(KillCurrentAction)
  /\ WF_vars(OnSigchld /\ UNCHANGED listVars)
  /\ WF_vars(\E p \in Pids : HandlerCalled(p) \/ ReapKilled(p))
  /\ WF_vars(ReapNone /\ UNCHANGED listVars)
  /\ \A p \in Pids : WF_vars(DoomedChildEnds(p) /\ UNCHANGED listVars)

ListSafety == ListInit /\ [][ListNext]_vars
ListSpec   == ListSafety /\ ListFairness

-----------------------------------------------------------------------------
(* Properties *)

ItemsOver   == {i \in Items : outcome[i] \in Over}
ItemsFailed == {i \in Items : outcome[i] = "failed"}
ItemsKilled == {i \in Items : outcome[i] = "killed"}

\* No wake-up is lost and none comes at the wrong time: executeNextAction is due
\* exactly when there is an action to start, and never while one is running.
\* (Its front() on an empty list would be undefined behaviour.)
WakeUp ==
  loop # "aborted" =>
    /\ execEv => actions # <<>> /\ ~InFlight
    /\ ~execEv => actions = <<>> \/ InFlight

\* The timers belong to the command in flight: exactly one of them is pending
\* while it runs, and none that could hit the next action survives its end.
TimersFollowCommand ==
  /\ timeoutEv \/ killEv <=> InFlight /\ loop # "forked"
  /\ ~(timeoutEv /\ killEv)

\* The only children that may still run beside the current command are killed
\* ones: no command is started while an unkilled one runs.
OneLiveCommand ==
  \A p \in Pids :
    child[p] = "running" /\ p \notin doomed => InFlight /\ pid[Head(actions)] = p

\* The counters of the status page agree with what happened to the actions: one
\* is executed when it has been started, and every one that ended badly by itself has
\* failed.  Whether one that was killed has failed is left open: the code does not
\* count it, but "the number of failed hooks" (action_list.h, failedCount()) may be
\* read either way.
CountersAgree ==
  /\ executed = Cardinality(ItemsOver)
                + (IF InFlight /\ loop # "forked" THEN 1 ELSE 0)
  /\ Cardinality(ItemsFailed) <= failed
  /\ failed <= Cardinality(ItemsFailed \union ItemsKilled)

\* An action that is appended leaves the list, whatever its command does, and
\* even if the end of the first command goes unnoticed: its timers remain.
EveryActionEnds ==
  \A i \in Items : outcome[i] = "listed" ~> (outcome[i] \in Over \/ loop = "aborted")

\* The list as a serial executor, for which a killed command is over at once.
Waiting == IF InFlight THEN Tail(actions) ELSE actions
Running == IF InFlight THEN Head(actions) ELSE NoItem
Serial  == INSTANCE SerialExecutor
             WITH waiting <- Waiting, running <- Running, over <- ItemsOver

\* Every action is executed to its end, one at a time and in order, unless a
\* failing fork() ends the program.
ImplementsSerial ==
  /\ Serial!SerialSafety
  /\ [](loop # "aborted") => Serial!SerialFairness
=============================================================================
