---------------------------- MODULE ChildProcess ----------------------------
(***************************************************************************)
(* Child processes: class process of src/process.cpp together with the     *)
(* part of the kernel and of libevent it relies on.                        *)
(*                                                                         *)
(* A process object forks a child, is entered in the global process::list, *)
(* and leaves it when SIGCHLD makes onSigchld reap the child or when its   *)
(* owner kills it.  The program has one thread, which runs one callback at *)
(* a time; children run beside it and may end between any two steps of a   *)
(* callback that makes several system calls.  Therefore start() and        *)
(* onSigchld() take several steps here, and `loop' says where the thread   *)
(* is.                                                                     *)
(*                                                                         *)
(* This module is the class on its own, used by the most general owner:    *)
(* any object may be started, terminated or killed whenever the thread is  *)
(* between callbacks and the asserted preconditions hold.  ActionList is   *)
(* the one owner the program has.                                          *)
(***************************************************************************)
EXTENDS FiniteSets

CONSTANTS
  Procs,            \* the process objects
  Pids,             \* process identifiers of the kernel, reused after reaping
  NoPid,            \* the -1 a process object holds while it has no child
  ForkMayFail       \* may fork() return -1?

ASSUME ProcessAssumption ==
  /\ NoPid \notin Pids
  /\ ForkMayFail \in BOOLEAN

VARIABLES
  pid,        \* process::impl::pid, per process object
  processes,  \* the objects linked from process::list::mProcesses
  listening,  \* has process::list added its SIGCHLD event?
  sigchld,    \* a caught SIGCHLD whose callback has not run yet; signals merge
  child,      \* the kernel's table of our children: "none" for a free pid
  doomed,     \* unreaped children that process::kill() sent SIGKILL
  unheard,    \* history: unreaped children whose SIGCHLD was not caught
  loop        \* the thread: "idle", "forked", "reaping" or "aborted"

procVars == <<pid, processes, listening, sigchld, child, doomed, unheard, loop>>

\* What the handler is told of a child that ended: exit code 0, or a nonzero
\* exit code or death by a signal.
Ended == {"success", "failure"}

ProcTypeOK ==
  /\ pid \in [Procs -> Pids \union {NoPid}]
  /\ processes \in SUBSET Procs
  /\ listening \in BOOLEAN
  /\ sigchld \in BOOLEAN
  /\ child \in [Pids -> {"none", "running"} \union Ended]
  /\ doomed \in SUBSET Pids
  /\ unheard \in SUBSET Pids
  /\ loop \in {"idle", "forked", "reaping", "aborted"}

ProcInit ==
  /\ pid = [i \in Procs |-> NoPid]
  /\ processes = {}
  /\ listening = FALSE
  /\ sigchld = FALSE
  /\ child = [p \in Pids |-> "none"]
  /\ doomed = {}
  /\ unheard = {}
  /\ loop = "idle"

-----------------------------------------------------------------------------
(* The kernel. *)

\* A child ends, for whatever reason: it exits, SIGTERM or SIGKILL reaches it,
\* or somebody else kills it.  SIGCHLD is caught only once process::list has
\* installed its handler; before, the default disposition discards it.
ChildEnds(p, how) ==
  /\ child[p] = "running"
  /\ child' = [child EXCEPT ![p] = how]
  /\ sigchld' = (sigchld \/ listening)
  /\ unheard' = IF listening THEN unheard ELSE unheard \union {p}
  /\ UNCHANGED <<pid, processes, listening, doomed, loop>>

\* A child that was sent SIGKILL cannot avoid its end, only take some time.
DoomedChildEnds(p) == p \in doomed /\ \E how \in Ended : ChildEnds(p, how)

-----------------------------------------------------------------------------
(* process::start() *)

\* fork() succeeds; the parent notes handler and pid.
Fork(i, p) ==
  /\ loop = "idle"
  /\ pid[i] = NoPid
  /\ child[p] = "none"
  /\ pid' = [pid EXCEPT ![i] = p]
  /\ child' = [child EXCEPT ![p] = "running"]
  /\ loop' = "forked"
  /\ UNCHANGED <<processes, listening, sigchld, doomed, unheard>>

\* fork() fails and start() throws: the exception meets the noexcept of
\* executeNextAction, the one caller, and ends the program.
ForkFails(i) ==
  /\ ForkMayFail
  /\ loop = "idle"
  /\ pid[i] = NoPid
  /\ loop' = "aborted"
  /\ UNCHANGED <<pid, processes, listening, sigchld, child, doomed, unheard>>

\* list::singleton(io).add(): the first call creates the list, whose
\* constructor adds the SIGCHLD event.
Register(i) ==
  /\ loop = "forked"
  /\ pid[i] # NoPid
  /\ i \notin processes
  /\ processes' = processes \union {i}
  /\ listening' = TRUE
  /\ loop' = "idle"
  /\ UNCHANGED <<pid, sigchld, child, doomed, unheard>>

-----------------------------------------------------------------------------
(* process::terminate() and process::kill() *)

\* SIGTERM gives the child a reason to end that it may ignore: nothing that
\* ChildEnds does not already allow.
Terminate(i) ==
  /\ loop = "idle"
  /\ pid[i] # NoPid
  /\ UNCHANGED procVars

\* SIGKILL is sent, and the object forgets its child at once.
Kill_ForgetFirst(i) ==
  /\ loop = "idle"
  /\ pid[i] # NoPid
  /\ i \in processes
  /\ pid' = [pid EXCEPT ![i] = NoPid]
  /\ doomed' = doomed \union {pid'[i]}
  /\ processes' = processes \ {i}
  /\ UNCHANGED <<listening, sigchld, child, unheard, loop>>

Kill_KeepPid(i) ==
  /\ loop = "idle"
  /\ pid[i] # NoPid
  /\ i \in processes
  /\ doomed' = doomed \union {pid[i]}
  /\ processes' = processes \ {i}
  /\ UNCHANGED <<pid, listening, sigchld, child, unheard, loop>>

Kill_SendTerm(i) ==
  /\ loop = "idle"
  /\ pid[i] # NoPid
  /\ i \in processes
  /\ pid' = [pid EXCEPT ![i] = NoPid]
  /\ processes' = processes \ {i}
  /\ UNCHANGED <<listening, sigchld, child, doomed, unheard, loop>>

Kill(i) ==
  /\ loop = "idle"
  /\ pid[i] # NoPid
  /\ i \in processes
  /\ doomed' = doomed \union {pid[i]}
  /\ pid' = [pid EXCEPT ![i] = NoPid]
  /\ processes' = processes \ {i}
  /\ UNCHANGED <<listening, sigchld, child, unheard, loop>>

-----------------------------------------------------------------------------
(* process::list::onSigchld() *)

\* The callback starts: signals caught so far are all served by this one call.
OnSigchld ==
  /\ loop = "idle"
  /\ sigchld
  /\ sigchld' = FALSE
  /\ loop' = "reaping"
  /\ UNCHANGED <<pid, processes, listening, child, doomed, unheard>>

\* The object whose child is p, searched for in the list.
Owners(p) == {i \in processes : pid[i] = p}

\* waitid() reaps some ended child.  Its object, if it still has one, leaves
\* the list and its handler is called; a killed child has none.
Reap_KeepPid(p) ==
  /\ loop = "reaping"
  /\ child[p] \in Ended
  /\ child' = [child EXCEPT ![p] = "none"]
  /\ doomed' = doomed \ {p}
  /\ unheard' = unheard \ {p}
  /\ processes' = processes \ Owners(p)
  /\ UNCHANGED <<pid, listening, sigchld, loop>>

Reap_Once(p) ==
  /\ loop = "reaping"
  /\ child[p] \in Ended
  /\ child' = [child EXCEPT ![p] = "none"]
  /\ doomed' = doomed \ {p}
  /\ unheard' = unheard \ {p}
  /\ pid' = [i \in Procs |-> IF i \in Owners(p) THEN NoPid ELSE pid[i]]
  /\ processes' = processes \ Owners(p)
  /\ loop' = "idle"
  /\ UNCHANGED <<listening, sigchld>>

Reap(p) ==
  /\ loop = "reaping"
  /\ child[p] \in Ended
  /\ child' = [child EXCEPT ![p] = "none"]
  /\ doomed' = doomed \ {p}
  /\ unheard' = unheard \ {p}
  /\ pid' = [i \in Procs |-> IF i \in Owners(p) THEN NoPid ELSE pid[i]]
  /\ processes' = processes \ Owners(p)
  /\ UNCHANGED <<listening, sigchld, loop>>

\* waitid() finds no ended child and the callback returns.
ReapNone ==
  /\ loop = "reaping"
  /\ \A p \in Pids : child[p] \notin Ended
  /\ loop' = "idle"
  /\ UNCHANGED <<pid, processes, listening, sigchld, child, doomed, unheard>>

-----------------------------------------------------------------------------
\* The program has ended; its children have been left to the system.
Aborted == loop = "aborted" /\ UNCHANGED procVars

ProcNext ==
  \/ \E p \in Pids, how \in Ended : ChildEnds(p, how)
  \/ \E i \in Procs, p \in Pids : Fork(i, p)
  \/ \E i \in Procs : ForkFails(i)
  \/ \E i \in Procs : Register(i)
  \/ \E i \in Procs : Terminate(i)
  \/ \E i \in Procs : Kill(i)
  \/ OnSigchld
  \/ \E p \in Pids : Reap(p)
  \/ ReapNone
  \/ Aborted

\* The thread goes on with a callback it is in, the event loop serves caught
\* signals, and the kernel carries out SIGKILL.  Neither a child nor the owner
\* owes any step.
ProcFairness ==
  /\ WF_procVars(\E i \in Procs : Register(i))
  /\ WF_procVars(OnSigchld)
  /\ WF_procVars(\E p \in Pids : Reap(p))
  /\ WF_procVars(ReapNone)
  /\ \A p \in Pids : WF_procVars(DoomedChildEnds(p))

ProcSafety == ProcInit /\ [][ProcNext]_procVars
ProcSpec   == ProcSafety /\ ProcFairness

-----------------------------------------------------------------------------
(* Properties *)

\* A process object holds the pid of a child the kernel still keeps for us, so
\* terminate(), kill() and the destructor never signal a recycled pid.
NoStalePid == \A i \in Procs : pid[i] # NoPid => child[pid[i]] # "none"

\* Every unreaped child either belongs to exactly one object or has been killed with
\* kill(), which lets go of it before its end: no child is lost, none has two owners,
\* and no handler is called for one that was killed in this way.
ChildHasOneOwner ==
  \A p \in Pids : child[p] # "none" =>
    IF p \in doomed THEN \A i \in Procs : pid[i] # p
                    ELSE \E i \in Procs : \A j \in Procs : pid[j] = p <=> j = i

\* An ended child is always about to be reaped: onSigchld is running or will run.
\* SIGCHLDs merge, so this needs its loop.  It does not hold of a first child that
\* ends before the SIGCHLD event exists.
NoForgottenZombie ==
  (\E p \in Pids \ unheard : child[p] \in Ended) => sigchld \/ loop = "reaping"

\* "The handler will be executed when the process finishes" (process.h, start):
\* when a started child has ended, onSigchld is running or going to run.  The
\* first start() of the program does not keep this, see the README.
EndedChildIsNoticed ==
  (\E i \in processes : child[pid[i]] \in Ended) => sigchld \/ loop = "reaping"

\* onSigchld reaps every ended child eventually, whether its object still waits
\* for it or has killed and forgotten it; only one whose SIGCHLD was not caught
\* may have to wait for another child to end.
EveryZombieReaped ==
  \A p \in Pids :
    child[p] \in Ended /\ p \notin unheard ~> child[p] = "none" \/ loop = "aborted"
=============================================================================
