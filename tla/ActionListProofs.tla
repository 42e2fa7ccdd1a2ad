-------------------------- MODULE ActionListProofs --------------------------
(***************************************************************************)
(* Proofs about ActionList, for any numbers of commands, functions and     *)
(* pids.  Every step of the list is a step of ChildProcess, whose          *)
(* invariant therefore holds here too; QueueInv adds how the three events  *)
(* and the children relate to the front of the list.                       *)
(***************************************************************************)
EXTENDS ActionList, ChildProcessProofs, SequenceTheorems, FiniteSetTheorems

\* Only the current action can have a child of its own.
OnlyHeadStarted ==
  \A i \in Procs : pid[i] # NoPid => actions # <<>> /\ Head(actions) = i

\* start() is in progress for the current action.
ForkedInFlight == loop = "forked" => InFlight

QueueInv ==
  /\ ListTypeOK
  /\ OnlyHeadStarted
  /\ ForkedInFlight
  /\ WakeUp
  /\ TimersFollowCommand

ListInv == ProcInv /\ QueueInv

\* The part of ListInv that makes every step of the list one of class process; it
\* remains true when a list is destroyed, and even when the program has crashed.
ListCore == Ownership /\ QueueInv

-----------------------------------------------------------------------------
(* Every step of the list is a step of ChildProcess *)

\* The preconditions that the list's callbacks rely on hold: the step a callback
\* makes on the process of the current action is one that class process allows.
LEMMA ListStepIsProcStep ==
  ASSUME ListCore, [ListNext]_vars
  PROVE  [ProcNext]_procVars
<1> USE DEF ListCore, QueueInv
<1>1. CASE \E i \in Items : AppendAction(i)
      BY <1>1 DEF AppendAction
<1>2. CASE \E p \in Pids : StartCommand(p)
      BY <1>2 DEF StartCommand, ProcNext
<1>3. CASE StartFails
      BY <1>3 DEF StartFails, ProcNext
<1>4. CASE CommandStarted
  <2>1. loop = "forked"
        BY <1>4 DEF CommandStarted, Register
  <2>2. QED  BY <1>4, <2>1 DEF CommandStarted, ForkedInFlight, InFlight, ProcNext
<1>5. CASE \E how \in {"completed", "failed"} : CallFunction(how)
      BY <1>5 DEF CallFunction
<1>6. CASE TerminateCurrentAction
      BY <1>6 DEF TerminateCurrentAction, Terminate
<1>7. CASE KillCurrentAction
  <2>1. Head(actions) \in Procs
        BY <1>7 DEF KillCurrentAction, Kill, Ownership, ProcTypeOK
  <2>2. QED  BY <1>7, <2>1 DEF KillCurrentAction, ProcNext
<1>8. CASE \E p \in Pids : HandlerCalled(p)
      BY <1>8 DEF HandlerCalled, ProcNext
<1>9. CASE \E p \in Pids : ReapKilled(p)
      BY <1>9 DEF ReapKilled, ProcNext
<1>10. CASE ProcessStep
      BY <1>10 DEF ProcessStep, ProcNext
<1>11. CASE AllDone
      BY <1>11 DEF AllDone, vars
<1>12. CASE UNCHANGED vars
      BY <1>12 DEF vars
<1>13. QED
      BY <1>1, <1>2, <1>3, <1>4, <1>5, <1>6, <1>7, <1>8, <1>9, <1>10, <1>11, <1>12
      DEF ListNext

-----------------------------------------------------------------------------
(* The list's own invariant *)

LEMMA ListInitInv == ListInit => ListInv
<1> SUFFICES ASSUME ListInit PROVE ListInv
    OBVIOUS
<1>1. ProcInv
      BY ProcInitInv DEF ListInit
<1>2. ListTypeOK
  <2>1. actions \in Seq(Items)
        BY EmptySeq DEF ListInit
  <2>2. QED  BY <1>1, <2>1 DEF ListInit, ListTypeOK, ProcInv, Ownership
<1>3. ~InFlight /\ loop = "idle"
      BY DEF ListInit, ProcInit, InFlight
<1>4. OnlyHeadStarted /\ ForkedInFlight
      BY <1>3 DEF ListInit, ProcInit, OnlyHeadStarted, ForkedInFlight
<1>5. WakeUp /\ TimersFollowCommand
      BY <1>3 DEF ListInit, WakeUp, TimersFollowCommand
<1>6. QED  BY <1>1, <1>2, <1>4, <1>5 DEF ListInv, QueueInv

\* The end of the current action: pop_front() and, if there is another action,
\* its activation.  No process in the shortened list has been started, provided
\* that the object at the front has let go of its child.
LEMMA FinishKeepsQueue ==
  ASSUME QueueInv, actions # <<>>, loop' # "forked",
         NEW how \in Over, Finish(how),
         pid' \in [Procs -> Pids \union {NoPid}],
         \A i \in Procs : pid'[i] = NoPid
  PROVE  /\ actions' \in Seq(Items)
         /\ execEv' \in BOOLEAN
         /\ outcome' \in [Items -> {"new", "listed"} \union Over]
         /\ OnlyHeadStarted'
         /\ ForkedInFlight'
         /\ WakeUp'
         /\ ~InFlight'
<1>1. /\ actions' \in Seq(Items)
      /\ Head(actions) \in Items
      BY HeadTailProperties DEF Finish, QueueInv, ListTypeOK
<1>2. execEv' = (actions' # <<>>)
      BY DEF Finish
<1>3. outcome' \in [Items -> {"new", "listed"} \union Over]
      BY <1>1 DEF Finish, QueueInv, ListTypeOK
<1>4. ~InFlight'
      BY DEF InFlight
<1>5. OnlyHeadStarted' /\ ForkedInFlight' /\ WakeUp'
      BY <1>2, <1>4 DEF OnlyHeadStarted, ForkedInFlight, WakeUp
<1>6. QED  BY <1>1, <1>2, <1>3, <1>4, <1>5

\* The list grows at its end, which activates it if it was empty.
LEMMA AppendKeepsQueue ==
  ASSUME QueueInv, NEW i \in Items, UNCHANGED procVars,
         actions' = Append(actions, i),
         outcome' = [outcome EXCEPT ![i] = "listed"],
         execEv' = (execEv \/ Len(actions') = 1),
         UNCHANGED <<timeoutEv, killEv, counters>>
  PROVE  QueueInv'
<1> USE DEF QueueInv
<1>1. /\ actions' \in Seq(Items)
      /\ actions' # <<>>
      /\ Len(actions') = Len(actions) + 1
      /\ actions # <<>> => Head(actions') = Head(actions)
  <2>1. actions \in Seq(Items)
        BY DEF ListTypeOK
  <2>2. QED  BY <2>1, AppendProperties
<1>2. execEv' = (execEv \/ actions = <<>>)
  <2>1. Len(actions) \in Nat /\ (Len(actions) = 0 <=> actions = <<>>)
        BY EmptySeq, LenProperties DEF ListTypeOK
  <2>2. QED  BY <1>1, <2>1
<1>3. /\ pid' = pid /\ loop' = loop
      /\ timeoutEv' = timeoutEv /\ killEv' = killEv
      /\ executed' = executed /\ failed' = failed
      BY DEF procVars, counters
<1>4. ListTypeOK'
      BY <1>1, <1>2, <1>3 DEF ListTypeOK, ProcTypeOK, procVars
<1>5. OnlyHeadStarted'
      BY <1>1, <1>3 DEF OnlyHeadStarted
<1>6. InFlight' <=> InFlight
      BY <1>1, <1>3, <1>5 DEF InFlight, OnlyHeadStarted
<1>7. ForkedInFlight' /\ TimersFollowCommand'
      BY <1>3, <1>6 DEF ForkedInFlight, TimersFollowCommand
<1>8. WakeUp'
      BY <1>1, <1>2, <1>3, <1>6 DEF WakeUp, InFlight
<1>9. QED  BY <1>4, <1>5, <1>7, <1>8

\* In the steps of a callback that starts, or of a thread that goes to sleep, the
\* list itself does not move.
LEMMA ListCoreStep ==
  ASSUME ListCore, [ListNext]_vars
  PROVE  ListCore'
<1> USE DEF ListCore, QueueInv
<1>0. Ownership'
      BY ListStepIsProcStep, OwnershipStep
<1>t. /\ pid' \in [Procs -> Pids \union {NoPid}]
      /\ ProcTypeOK'
      BY <1>0 DEF Ownership, ProcTypeOK
<1>u. NoPid \notin Pids
      BY ProcessAssumption
<1>1. ASSUME NEW i \in Items, AppendAction(i) PROVE QueueInv'
      BY <1>1, AppendKeepsQueue DEF AppendAction
<1>2. ASSUME NEW p \in Pids, StartCommand(p) PROVE QueueInv'
  <2>1. /\ loop = "idle" /\ loop' = "forked"
        /\ execEv /\ execEv' = FALSE
        /\ Head(actions) \in Procs
        /\ pid' = [pid EXCEPT ![Head(actions)] = p]
        /\ actions' = actions
        BY <1>2 DEF StartCommand, Fork
  <2>2. /\ timeoutEv' = timeoutEv /\ killEv' = killEv /\ outcome' = outcome
        /\ executed' = executed /\ failed' = failed
        BY <1>2 DEF StartCommand, counters
  <2>3. actions # <<>> /\ ~InFlight
        BY <2>1 DEF WakeUp
  <2>4. InFlight'
        BY <1>t, <1>u, <2>1, <2>3 DEF InFlight, ListTypeOK, ProcTypeOK
  <2>5. ListTypeOK'
        BY <1>t, <2>1, <2>2 DEF ListTypeOK
  <2>6. OnlyHeadStarted'
        BY <2>1, <2>3 DEF OnlyHeadStarted, InFlight, ListTypeOK, ProcTypeOK
  <2>7. ~timeoutEv /\ ~killEv
        BY <2>3 DEF TimersFollowCommand
  <2>8. ForkedInFlight' /\ WakeUp' /\ TimersFollowCommand'
        BY <2>1, <2>2, <2>4, <2>7 DEF ForkedInFlight, WakeUp, TimersFollowCommand
  <2>9. QED  BY <2>5, <2>6, <2>8
<1>3. ASSUME StartFails PROVE QueueInv'
  <2>1. /\ loop' = "aborted" /\ execEv /\ execEv' = FALSE /\ loop = "idle"
        /\ pid' = pid /\ actions' = actions
        BY <1>3 DEF StartFails, ForkFails
  <2>2. /\ timeoutEv' = timeoutEv /\ killEv' = killEv /\ outcome' = outcome
        /\ executed' = executed /\ failed' = failed
        BY <1>3 DEF StartFails, counters
  <2>3. ~InFlight /\ ~InFlight'
        BY <2>1 DEF WakeUp, InFlight
  <2>4. ListTypeOK' /\ OnlyHeadStarted'
        BY <1>t, <2>1, <2>2 DEF ListTypeOK, OnlyHeadStarted
  <2>5. ForkedInFlight' /\ WakeUp' /\ TimersFollowCommand'
        BY <2>1, <2>2, <2>3 DEF ForkedInFlight, WakeUp, TimersFollowCommand
  <2>6. QED  BY <2>4, <2>5
<1>4. ASSUME CommandStarted PROVE QueueInv'
  <2>1. /\ loop = "forked" /\ loop' = "idle" /\ pid' = pid
        BY <1>4 DEF CommandStarted, Register
  <2>2. /\ timeoutEv' = TRUE /\ killEv' = killEv
        /\ execEv' = execEv /\ actions' = actions /\ outcome' = outcome
        /\ executed' = executed + 1 /\ failed' = failed
        BY <1>4 DEF CommandStarted
  <2>3. InFlight /\ InFlight'
        BY <2>1, <2>2 DEF ForkedInFlight, InFlight
  <2>4. ListTypeOK' /\ OnlyHeadStarted'
        BY <1>t, <2>1, <2>2 DEF ListTypeOK, OnlyHeadStarted
  <2>5. ForkedInFlight' /\ WakeUp' /\ TimersFollowCommand'
        BY <2>1, <2>2, <2>3 DEF ForkedInFlight, WakeUp, TimersFollowCommand
  <2>6. QED  BY <2>4, <2>5
<1>5. ASSUME NEW how \in {"completed", "failed"}, CallFunction(how) PROVE QueueInv'
  <2>1. /\ loop = "idle" /\ loop' = "idle" /\ execEv
        /\ Head(actions) \in Functions /\ Finish(how) /\ pid' = pid
        /\ timeoutEv' = timeoutEv /\ killEv' = killEv
        BY <1>5 DEF CallFunction, procVars
  <2>2. actions # <<>> /\ ~InFlight
        BY <2>1 DEF WakeUp
  <2>3. \A i \in Procs : pid'[i] = NoPid
        BY <2>1, <2>2, ActionAssumption DEF OnlyHeadStarted
  <2>4. executed' \in Nat /\ failed' \in Nat
        BY <1>5 DEF CallFunction, ListTypeOK
  <2>5. how \in Over
        BY DEF Over
  <2>6. /\ actions' \in Seq(Items) /\ execEv' \in BOOLEAN
        /\ outcome' \in [Items -> {"new", "listed"} \union Over]
        /\ OnlyHeadStarted' /\ ForkedInFlight' /\ WakeUp' /\ ~InFlight'
        BY <1>t, <2>1, <2>2, <2>3, <2>5, FinishKeepsQueue
  <2>7. TimersFollowCommand'
        BY <2>1, <2>2, <2>6 DEF TimersFollowCommand
  <2>8. ListTypeOK'
        BY <1>t, <2>1, <2>4, <2>6 DEF ListTypeOK
  <2>9. QED  BY <2>6, <2>7, <2>8
<1>6. ASSUME TerminateCurrentAction PROVE QueueInv'
  <2>1. /\ timeoutEv /\ timeoutEv' = FALSE /\ killEv' = TRUE
        /\ actions' = actions /\ execEv' = execEv /\ outcome' = outcome
        /\ executed' = executed /\ failed' = failed
        /\ pid' = pid /\ loop' = loop
        BY <1>6 DEF TerminateCurrentAction, Terminate, procVars, counters
  <2>2. InFlight' <=> InFlight
        BY <2>1 DEF InFlight
  <2>3. ListTypeOK' /\ OnlyHeadStarted'
        BY <1>t, <2>1 DEF ListTypeOK, OnlyHeadStarted
  <2>4. ForkedInFlight' /\ WakeUp' /\ TimersFollowCommand'
        BY <2>1, <2>2 DEF ForkedInFlight, WakeUp, TimersFollowCommand
  <2>5. QED  BY <2>3, <2>4

<1>7. ASSUME KillCurrentAction PROVE QueueInv'
  <2>1. /\ killEv /\ killEv' = FALSE /\ timeoutEv' = timeoutEv
        /\ executed' = executed /\ failed' = failed
        /\ Finish("killed") /\ loop = "idle" /\ loop' = loop
        /\ pid' = [pid EXCEPT ![Head(actions)] = NoPid]
        BY <1>7 DEF KillCurrentAction, Kill, counters
  <2>2. actions # <<>> /\ InFlight /\ ~timeoutEv
        BY <2>1 DEF TimersFollowCommand, InFlight
  <2>3. \A i \in Procs : pid'[i] = NoPid
        BY <2>1 DEF OnlyHeadStarted, ListTypeOK, ProcTypeOK
  <2>4. "killed" \in Over
        BY DEF Over
  <2>5. /\ actions' \in Seq(Items) /\ execEv' \in BOOLEAN
        /\ outcome' \in [Items -> {"new", "listed"} \union Over]
        /\ OnlyHeadStarted' /\ ForkedInFlight' /\ WakeUp' /\ ~InFlight'
        BY <1>t, <2>1, <2>2, <2>3, <2>4, FinishKeepsQueue
  <2>6. TimersFollowCommand'
        BY <2>1, <2>2, <2>5 DEF TimersFollowCommand
  <2>7. ListTypeOK'
        BY <1>t, <2>1, <2>5 DEF ListTypeOK
  <2>8. QED  BY <2>5, <2>6, <2>7
<1>8. ASSUME NEW p \in Pids, HandlerCalled(p) PROVE QueueInv'
  <2>1. /\ timeoutEv' = FALSE /\ killEv' = FALSE
        /\ executed' = executed
        /\ failed' = IF child[p] = "failure" THEN failed + 1 ELSE failed
        /\ Finish(IF child[p] = "failure" THEN "failed" ELSE "completed")
        /\ loop = "reaping" /\ loop' = loop
        /\ pid' = [i \in Procs |-> IF i \in Owners(p) THEN NoPid ELSE pid[i]]
        BY <1>8 DEF HandlerCalled, Reap
  <2>2. PICK i \in processes : pid[i] = p
        BY <1>8 DEF HandlerCalled, Owners
  <2>3. i \in Procs /\ pid[i] # NoPid
        BY <1>u, <2>2 DEF ListTypeOK, ProcTypeOK
  <2>4. actions # <<>> /\ Head(actions) = i
        BY <2>3 DEF OnlyHeadStarted
  <2>5. \A j \in Procs : pid'[j] = NoPid
    <3>1. i \in Owners(p)
          BY <2>2 DEF Owners
    <3>2. QED  BY <2>1, <2>4, <3>1 DEF OnlyHeadStarted
  <2>6. (IF child[p] = "failure" THEN "failed" ELSE "completed") \in Over
        BY DEF Over
  <2>7. /\ actions' \in Seq(Items) /\ execEv' \in BOOLEAN
        /\ outcome' \in [Items -> {"new", "listed"} \union Over]
        /\ OnlyHeadStarted' /\ ForkedInFlight' /\ WakeUp' /\ ~InFlight'
        BY <1>t, <2>1, <2>4, <2>5, <2>6, FinishKeepsQueue
  <2>8. TimersFollowCommand'
        BY <2>1, <2>7 DEF TimersFollowCommand
  <2>9. executed' \in Nat /\ failed' \in Nat
        BY <2>1 DEF ListTypeOK
  <2>10. ListTypeOK'
        BY <1>t, <2>1, <2>7, <2>9 DEF ListTypeOK
  <2>11. QED  BY <2>7, <2>8, <2>10
<1>9. ASSUME UNCHANGED listVars, pid' = pid,
             loop = "forked" <=> loop' = "forked", loop' = "aborted" <=> loop = "aborted"
      PROVE  QueueInv'
  <2>1. /\ actions' = actions /\ outcome' = outcome
        /\ execEv' = execEv /\ timeoutEv' = timeoutEv /\ killEv' = killEv
        /\ executed' = executed /\ failed' = failed
        BY <1>9 DEF listVars, events, counters
  <2>2. InFlight' <=> InFlight
        BY <1>9, <2>1 DEF InFlight
  <2>3. ListTypeOK' /\ OnlyHeadStarted'
        BY <1>t, <1>9, <2>1 DEF ListTypeOK, OnlyHeadStarted
  <2>4. ForkedInFlight' /\ WakeUp' /\ TimersFollowCommand'
        BY <1>9, <2>1, <2>2 DEF ForkedInFlight, WakeUp, TimersFollowCommand
  <2>5. QED  BY <2>3, <2>4
<1>10. ASSUME NEW p \in Pids, ReapKilled(p) PROVE QueueInv'
  <2>1. pid' = pid
        BY <1>10 DEF ReapKilled, Reap, ListTypeOK, ProcTypeOK
  <2>2. QED  BY <1>9, <1>10, <2>1 DEF ReapKilled, Reap
<1>11. ASSUME ProcessStep PROVE QueueInv'
       BY <1>9, <1>11
       DEF ProcessStep, ChildEnds, OnSigchld, ReapNone, Aborted, procVars
<1>12. ASSUME UNCHANGED vars PROVE QueueInv'
       BY <1>9, <1>12 DEF vars, procVars
<1>13. QED
       BY <1>0, <1>1, <1>2, <1>3, <1>4, <1>5, <1>6, <1>7, <1>8, <1>10, <1>11, <1>12
       DEF ListNext, AllDone

LEMMA ListStepInv ==
  ASSUME ListInv, [ListNext]_vars
  PROVE  ListInv'
<1>1. ListCore
      BY DEF ListInv, ListCore, ProcInv
<1>2. ListCore'
      BY <1>1, ListCoreStep
<1>3. ProcInv'
      BY <1>1, ListStepIsProcStep, ProcStepInv DEF ListInv
<1>4. QED  BY <1>2, <1>3 DEF ListInv, ListCore

LEMMA ListInvariant == ListSafety => []ListInv
BY ListInitInv, ListStepInv, PTL DEF ListSafety

-----------------------------------------------------------------------------
(* What follows from the invariant *)

\* Type correctness.
THEOREM ListTypeCorrect == ListSafety => []ListTypeOK
<1>1. ListInv => ListTypeOK
      BY DEF ListInv, QueueInv
<1>2. QED  BY <1>1, ListInvariant, PTL

\* executeNextAction is due exactly when there is something to execute.
THEOREM ListWakeUp == ListSafety => []WakeUp
<1>1. ListInv => WakeUp
      BY DEF ListInv, QueueInv
<1>2. QED  BY <1>1, ListInvariant, PTL

\* A timer never hits anything but the running command of the current action.
THEOREM ListTimers == ListSafety => []TimersFollowCommand
<1>1. ListInv => TimersFollowCommand
      BY DEF ListInv, QueueInv
<1>2. QED  BY <1>1, ListInvariant, PTL

\* The list is a correct user of class process.
THEOREM ListImplementsProcess == ListSafety => ProcSafety
<1>1. ListInit => ProcInit
      BY DEF ListInit
<1>2. ListInv /\ [ListNext]_vars => [ProcNext]_procVars
      BY ListStepIsProcStep DEF ListInv, ListCore, ProcInv
<1>3. QED  BY <1>1, <1>2, ListInvariant, PTL DEF ListSafety, ProcSafety

\* So what was proved of the class holds for its use in the list.
COROLLARY ListNoStalePid == ListSafety => []NoStalePid
BY ListImplementsProcess, ProcNoStalePid, PTL

LEMMA OneLive == ListCore => OneLiveCommand
<1> SUFFICES ASSUME ListCore, NEW p \in Pids, child[p] = "running", p \notin doomed
             PROVE  InFlight /\ pid[Head(actions)] = p
    BY DEF OneLiveCommand
<1>1. PICK i \in Procs : pid[i] = p
      BY DEF ListCore, Ownership, NoChildLost
<1>2. pid[i] # NoPid
      BY <1>1, ProcessAssumption
<1>3. QED  BY <1>1, <1>2 DEF ListCore, QueueInv, OnlyHeadStarted, InFlight

\* No two unkilled commands run at the same time.
THEOREM ListOneLiveCommand == ListSafety => []OneLiveCommand
<1>1. ListInv => OneLiveCommand
      BY OneLive DEF ListInv, ListCore, ProcInv
<1>2. QED  BY <1>1, ListInvariant, PTL

-----------------------------------------------------------------------------
(* The counters *)

\* The list holds every unfinished action once.
ListedOnce ==
  /\ \A n \in DOMAIN actions : outcome[actions[n]] = "listed"
  /\ \A m, n \in DOMAIN actions : actions[m] = actions[n] => m = n

\* What the code counts: killed commands have not failed.
CountedByCode ==
  /\ executed = Cardinality(ItemsOver)
                + (IF InFlight /\ loop # "forked" THEN 1 ELSE 0)
  /\ failed = Cardinality(ItemsFailed)

CountInv ==
  /\ ListedOnce
  /\ IsFiniteSet(ItemsOver)
  /\ IsFiniteSet(ItemsFailed)
  /\ CountedByCode

\* The end of an action moves it, and no other, from the list to those over.
LEMMA FinishCounts ==
  ASSUME ListTypeOK, ListedOnce, actions # <<>>, NEW how \in Over, Finish(how)
  PROVE  /\ ListedOnce'
         /\ ItemsOver' = ItemsOver \union {Head(actions)}
         /\ Head(actions) \notin ItemsOver
         /\ ItemsFailed' = IF how = "failed" THEN ItemsFailed \union {Head(actions)}
                                             ELSE ItemsFailed
         /\ Head(actions) \notin ItemsFailed
<1> DEFINE h == Head(actions)
<1>1. /\ h \in Items
      /\ h = actions[1] /\ 1 \in DOMAIN actions
      /\ actions' = Tail(actions)
      /\ DOMAIN actions = 1 .. Len(actions) /\ Len(actions) \in Nat
      /\ DOMAIN actions' = 1 .. Len(actions) - 1
      /\ \A n \in 1 .. Len(actions) - 1 : actions'[n] = actions[n + 1]
  <2>1. /\ actions \in Seq(Items) /\ actions' = Tail(actions)
        BY DEF ListTypeOK, Finish
  <2>2. h \in Items
        BY <2>1, HeadTailProperties
  <2>3. Len(actions) \in Nat /\ Len(actions) > 0 /\ DOMAIN actions = 1 .. Len(actions)
        BY <2>1, LenProperties, EmptySeq
  <2>4. QED  BY <2>1, <2>2, <2>3, HeadTailProperties, LenProperties
<1>2. outcome[h] = "listed"
      BY <1>1 DEF ListedOnce
<1>3. outcome' = [outcome EXCEPT ![h] = how]
      BY DEF Finish
<1>4. \A n \in DOMAIN actions' : n + 1 \in DOMAIN actions /\ actions'[n] # h
      BY <1>1 DEF ListedOnce
<1>5. \A n \in DOMAIN actions' : actions'[n] = actions[n + 1]
      BY <1>1
<1>6. \A n \in DOMAIN actions' : outcome'[actions'[n]] = "listed"
      BY <1>3, <1>4, <1>5 DEF ListedOnce, ListTypeOK
<1>7. \A m, n \in DOMAIN actions' : actions'[m] = actions'[n] => m = n
      BY <1>1, <1>4, <1>5 DEF ListedOnce
<1>8. /\ ItemsOver' = ItemsOver \union {h}
      /\ h \notin ItemsOver
      BY <1>1, <1>2, <1>3 DEF ItemsOver, Over, ListTypeOK
<1>9. /\ ItemsFailed' = IF how = "failed" THEN ItemsFailed \union {h} ELSE ItemsFailed
      /\ h \notin ItemsFailed
      BY <1>1, <1>2, <1>3 DEF ItemsFailed, Over, ListTypeOK
<1>10. QED  BY <1>6, <1>7, <1>8, <1>9 DEF ListedOnce

\* An action that is appended is not in the list already.
LEMMA AppendOnce ==
  ASSUME ListTypeOK, ListedOnce, NEW i \in Items,
         \A n \in DOMAIN actions : actions[n] # i,
         actions' = Append(actions, i),
         outcome' = [outcome EXCEPT ![i] = "listed"]
  PROVE  ListedOnce'
<1>1. actions \in Seq(Items)
      BY DEF ListTypeOK
<1>2. /\ DOMAIN actions = 1 .. Len(actions) /\ Len(actions) \in Nat
      /\ DOMAIN actions' = 1 .. Len(actions) + 1
      /\ \A n \in 1 .. Len(actions) : actions'[n] = actions[n] /\ actions[n] \in Items
      /\ actions'[Len(actions) + 1] = i
      BY <1>1, AppendProperties, LenProperties, ElementOfSeq
<1>3. \A n \in DOMAIN actions' : outcome'[actions'[n]] = "listed"
      BY <1>1, <1>2 DEF ListedOnce, ListTypeOK
<1>4. \A m, n \in DOMAIN actions' : actions'[m] = actions'[n] => m = n
      BY <1>2 DEF ListedOnce
<1>5. QED  BY <1>3, <1>4 DEF ListedOnce

\* An action that is executed, and so about to end, is the first of the list.
LEMMA OnceStepInv ==
  ASSUME ListCore, ListedOnce, [ListNext]_vars
  PROVE  ListedOnce'
<1> USE DEF ListCore, QueueInv
<1>1. ASSUME NEW i \in Items, AppendAction(i) PROVE ListedOnce'
  <2>1. \A n \in DOMAIN actions : actions[n] # i
        BY <1>1 DEF AppendAction, ListedOnce
  <2>2. QED  BY <1>1, <2>1, AppendOnce DEF AppendAction
<1>2. ASSUME NEW how \in Over, Finish(how), actions # <<>>
      PROVE  ListedOnce'
      BY <1>2, FinishCounts
<1>3. ASSUME UNCHANGED <<actions, outcome>>
      PROVE  ListedOnce'
      BY <1>3 DEF ListedOnce
<1>4. ASSUME NEW how \in {"completed", "failed"}, CallFunction(how) PROVE ListedOnce'
  <2>1. Finish(how) /\ execEv /\ loop = "idle" /\ how \in Over
        BY <1>4 DEF CallFunction, Over
  <2>2. QED  BY <1>2, <2>1 DEF WakeUp
<1>5. CASE KillCurrentAction
  <2>1. Finish("killed") /\ killEv /\ "killed" \in Over
        BY <1>5 DEF KillCurrentAction, Over
  <2>2. QED  BY <1>2, <2>1 DEF TimersFollowCommand, InFlight
<1>6. ASSUME NEW p \in Pids, HandlerCalled(p) PROVE ListedOnce'
  <2>1. /\ Finish(IF child[p] = "failure" THEN "failed" ELSE "completed")
        /\ (IF child[p] = "failure" THEN "failed" ELSE "completed") \in Over
        BY <1>6 DEF HandlerCalled, Over
  <2>2. PICK i \in processes : pid[i] = p
        BY <1>6 DEF HandlerCalled, Owners
  <2>3. actions # <<>>
        BY <2>2, ProcessAssumption DEF OnlyHeadStarted, ListTypeOK, ProcTypeOK
  <2>4. QED  BY <1>2, <2>1, <2>3
<1>7. QED
      BY <1>1, <1>3, <1>4, <1>5, <1>6
      DEF ListNext, StartCommand, StartFails, CommandStarted, TerminateCurrentAction,
          ReapKilled, ProcessStep, AllDone, listVars, vars

LEMMA CountInitInv == ListInit => CountInv
<1> SUFFICES ASSUME ListInit PROVE CountInv
    OBVIOUS
<1>1. ItemsOver = {} /\ ItemsFailed = {}
      BY DEF ListInit, ItemsOver, ItemsFailed, Over
<1>2. ListedOnce
      BY DEF ListInit, ListedOnce
<1>3. ~InFlight
      BY DEF ListInit, InFlight
<1>4. CountedByCode
      BY <1>1, <1>3, FS_EmptySet DEF ListInit, CountedByCode
<1>5. QED  BY <1>1, <1>2, <1>4, FS_EmptySet DEF CountInv

\* executed moves when start() returns or a function is called, failed when an
\* action ends badly; both counts follow.
LEMMA CountStepInv ==
  ASSUME ListInv, ListInv', CountInv, [ListNext]_vars
  PROVE  CountInv'
<1> USE DEF ListInv, QueueInv, CountInv
<1>0. /\ Cardinality(ItemsOver) \in Nat
      /\ Cardinality(ItemsFailed) \in Nat
      BY FS_CardinalityType
<1>1. ASSUME NEW i \in Items, AppendAction(i) PROVE CountInv'
  <2>1. /\ actions \in Seq(Items) /\ actions' = Append(actions, i)
        /\ outcome[i] = "new"
        /\ outcome' = [outcome EXCEPT ![i] = "listed"]
        /\ pid' = pid /\ loop' = loop /\ executed' = executed /\ failed' = failed
        BY <1>1 DEF AppendAction, ListTypeOK, procVars, counters
  <2>2. \A n \in DOMAIN actions : actions[n] # i
        BY <2>1 DEF ListedOnce
  <2>3. ListedOnce'
        BY <2>1, <2>2, AppendOnce
  <2>4. ItemsOver' = ItemsOver /\ ItemsFailed' = ItemsFailed
        BY <2>1 DEF ItemsOver, ItemsFailed, Over, ListTypeOK
  <2>5. InFlight' <=> InFlight
    <3>1. actions # <<>> => Head(actions') = Head(actions)
          BY <2>1, AppendProperties
    <3>2. actions' # <<>>
          BY <2>1, AppendProperties
    <3>3. QED  BY <2>1, <3>1, <3>2 DEF InFlight, OnlyHeadStarted
  <2>6. QED  BY <2>1, <2>3, <2>4, <2>5 DEF CountedByCode
<1>2. ASSUME UNCHANGED <<actions, outcome, counters>>, ~(InFlight /\ loop # "forked"),
             ~(InFlight' /\ loop' # "forked")
      PROVE  CountInv'
      BY <1>2 DEF ListedOnce, CountedByCode, ItemsOver, ItemsFailed, counters
<1>3. ASSUME UNCHANGED <<actions, outcome, counters>>, pid' = pid,
             loop' = "forked" <=> loop = "forked"
      PROVE  CountInv'
      BY <1>3 DEF ListedOnce, CountedByCode, ItemsOver, ItemsFailed, counters, InFlight
<1>4. CASE \E p \in Pids : StartCommand(p)
  <2>1. /\ execEv /\ loop = "idle" /\ loop' = "forked"
        /\ UNCHANGED <<actions, outcome, counters>>
        BY <1>4 DEF StartCommand, Fork
  <2>2. ~InFlight
        BY <2>1 DEF WakeUp
  <2>3. QED  BY <1>2, <2>1, <2>2
<1>5. CASE StartFails
      BY <1>3, <1>5 DEF StartFails, ForkFails
<1>6. CASE CommandStarted
  <2>1. /\ loop = "forked" /\ loop' = "idle" /\ pid' = pid
        /\ actions' = actions /\ outcome' = outcome
        /\ executed' = executed + 1 /\ failed' = failed
        BY <1>6 DEF CommandStarted, Register
  <2>2. InFlight /\ InFlight'
        BY <2>1 DEF ForkedInFlight, InFlight
  <2>3. QED
        BY <1>0, <2>1, <2>2 DEF ListedOnce, CountedByCode, ItemsOver, ItemsFailed
<1>7. ASSUME NEW how \in Over, Finish(how), actions # <<>>, loop # "forked", ~InFlight',
             executed' = IF InFlight THEN executed ELSE executed + 1,
             failed' = IF how = "failed" THEN failed + 1 ELSE failed
      PROVE  CountInv'
  <2> DEFINE h == Head(actions)
  <2>1. /\ ListedOnce'
        /\ ItemsOver' = ItemsOver \union {h} /\ h \notin ItemsOver
        /\ ItemsFailed' = IF how = "failed" THEN ItemsFailed \union {h} ELSE ItemsFailed
        /\ h \notin ItemsFailed
        BY <1>7, FinishCounts
  <2>2. /\ IsFiniteSet(ItemsOver \union {h})
        /\ Cardinality(ItemsOver \union {h}) = Cardinality(ItemsOver) + 1
        BY <2>1, FS_AddElement
  <2>3. /\ IsFiniteSet(ItemsFailed \union {h})
        /\ Cardinality(ItemsFailed \union {h}) = Cardinality(ItemsFailed) + 1
        BY <2>1, FS_AddElement
  <2>4. executed' = Cardinality(ItemsOver')
        BY <1>0, <1>7, <2>1, <2>2 DEF CountedByCode
  <2>5. failed' = Cardinality(ItemsFailed')
        BY <1>7, <2>1, <2>3 DEF CountedByCode
  <2>6. CountedByCode'
        BY <1>0, <1>7, <2>1, <2>2, <2>4, <2>5 DEF CountedByCode
  <2>7. QED  BY <2>1, <2>2, <2>3, <2>6
<1>8. ASSUME NEW how \in {"completed", "failed"}, CallFunction(how) PROVE CountInv'
  <2>1. /\ execEv /\ Finish(how) /\ loop = "idle" /\ loop' = loop /\ pid' = pid
        /\ executed' = executed + 1
        /\ failed' = IF how = "failed" THEN failed + 1 ELSE failed
        BY <1>8 DEF CallFunction, procVars
  <2>2. actions # <<>> /\ ~InFlight
        BY <2>1 DEF WakeUp
  <2>3. ~InFlight'
        BY <2>1, <2>2, ActionAssumption, <1>8 DEF CallFunction, InFlight, OnlyHeadStarted
  <2>4. QED  BY <1>7, <2>1, <2>2, <2>3 DEF Over
<1>9. CASE TerminateCurrentAction
      BY <1>3, <1>9 DEF TerminateCurrentAction, Terminate, procVars
<1>10. CASE KillCurrentAction
  <2>1. /\ killEv /\ Finish("killed") /\ loop = "idle" /\ loop' = loop
        /\ timeoutEv' = timeoutEv /\ killEv' = FALSE
        /\ executed' = executed /\ failed' = failed
        BY <1>10 DEF KillCurrentAction, Kill, counters
  <2>2. actions # <<>> /\ InFlight /\ ~timeoutEv
        BY <2>1 DEF TimersFollowCommand, InFlight
  <2>3. ~InFlight'
        BY <2>1, <2>2 DEF TimersFollowCommand
  <2>4. QED  BY <1>7, <2>1, <2>2, <2>3 DEF Over
<1>11. ASSUME NEW p \in Pids, HandlerCalled(p) PROVE CountInv'
  <2>1. /\ Finish(IF child[p] = "failure" THEN "failed" ELSE "completed")
        /\ loop = "reaping" /\ loop' = loop
        /\ timeoutEv' = FALSE /\ killEv' = FALSE
        /\ executed' = executed
        /\ failed' = IF child[p] = "failure" THEN failed + 1 ELSE failed
        BY <1>11 DEF HandlerCalled, Reap
  <2>2. PICK i \in processes : pid[i] = p
        BY <1>11 DEF HandlerCalled, Owners
  <2>3. i \in Procs /\ pid[i] # NoPid
        BY <2>2, ProcessAssumption DEF ListTypeOK, ProcTypeOK
  <2>4. actions # <<>> /\ InFlight
        BY <2>3 DEF OnlyHeadStarted, InFlight
  <2>5. ~InFlight'
        BY <2>1 DEF TimersFollowCommand
  <2>6. QED  BY <1>7, <2>1, <2>4, <2>5 DEF Over
<1>12. ASSUME NEW p \in Pids, ReapKilled(p) PROVE CountInv'
  <2>1. pid' = pid
        BY <1>12 DEF ReapKilled, Reap, ListTypeOK, ProcTypeOK
  <2>2. QED  BY <1>3, <1>12, <2>1 DEF ReapKilled, Reap, listVars
<1>13. CASE ProcessStep
       BY <1>3, <1>13
       DEF ProcessStep, ChildEnds, OnSigchld, ReapNone, Aborted, procVars, listVars
<1>14. CASE UNCHANGED vars
       BY <1>3, <1>14 DEF vars, procVars, listVars
<1>15. QED
       BY <1>1, <1>4, <1>5, <1>6, <1>8, <1>9, <1>10, <1>11, <1>12, <1>13, <1>14
       DEF ListNext, AllDone

LEMMA CountInvariant == ListSafety => []CountInv
BY CountInitInv, CountStepInv, ListInvariant, PTL DEF ListSafety

\* executed counts exactly the actions that have been started, failed at least those
\* that ended badly by themselves, and at most the killed ones besides.
THEOREM ListCountersAgree == ListSafety => []CountersAgree
<1>1. CountInv => CountersAgree
  <2>  SUFFICES ASSUME CountInv PROVE CountersAgree
       OBVIOUS
  <2>1. /\ IsFiniteSet(ItemsOver)
        /\ ItemsFailed \subseteq ItemsFailed \union ItemsKilled
        /\ ItemsFailed \union ItemsKilled \subseteq ItemsOver
        BY DEF CountInv, ItemsFailed, ItemsKilled, ItemsOver, Over
  <2>2. IsFiniteSet(ItemsFailed \union ItemsKilled)
        BY <2>1, FS_Subset
  <2>3. /\ Cardinality(ItemsFailed) \in Nat
        /\ Cardinality(ItemsFailed) <= Cardinality(ItemsFailed \union ItemsKilled)
        BY <2>1, <2>2, FS_Subset, FS_CardinalityType DEF CountInv
  <2>4. QED  BY <2>3 DEF CountInv, CountedByCode, CountersAgree
<1>2. QED  BY <1>1, CountInvariant, PTL

-----------------------------------------------------------------------------
(* The list implements the serial executor *)

serialBar == <<Waiting, Running, ItemsOver>>

\* Steps that neither start nor end an action are invisible.
LEMMA SerialStutter ==
  ASSUME actions' = actions, outcome' = outcome, InFlight' <=> InFlight
  PROVE  serialBar' = serialBar
BY DEF serialBar, Waiting, Running, ItemsOver

\* An action that ends was either running or passes through in this one step.
LEMMA SerialFinish ==
  ASSUME ListInv, CountInv, actions # <<>>, NEW how \in Over, Finish(how), ~InFlight'
  PROVE  IF InFlight THEN Serial!End ELSE Serial!Pass
<1>1. /\ actions' = Tail(actions)
      /\ ItemsOver' = ItemsOver \union {Head(actions)}
      BY FinishCounts DEF Finish, ListInv, QueueInv, CountInv
<1>2. Running' = NoItem /\ Waiting' = Tail(actions)
      BY <1>1 DEF Running, Waiting
<1>3. Head(actions) # NoItem
      BY HeadTailProperties, ActionAssumption DEF ListInv, QueueInv, ListTypeOK
<1>4. CASE InFlight
      BY <1>1, <1>2, <1>3, <1>4 DEF Serial!End, Running, Waiting
<1>5. CASE ~InFlight
      BY <1>1, <1>2, <1>5 DEF Serial!Pass, Running, Waiting
<1>6. QED  BY <1>4, <1>5

LEMMA SerialStep ==
  ASSUME ListInv, ListInv', CountInv, [ListNext]_vars
  PROVE  [Serial!SerialNext]_serialBar
<1> USE DEF ListInv, QueueInv, CountInv
<1>1. ASSUME NEW i \in Items, AppendAction(i) PROVE Serial!Submit(i)
  <2>1. /\ actions \in Seq(Items) /\ actions' = Append(actions, i)
        /\ outcome[i] = "new" /\ outcome' = [outcome EXCEPT ![i] = "listed"]
        /\ pid' = pid
        BY <1>1 DEF AppendAction, ListTypeOK, procVars
  <2>2. /\ DOMAIN actions = 1 .. Len(actions) /\ Len(actions) \in Nat
        /\ actions' # <<>>
        BY <2>1, AppendProperties, LenProperties
  <2>3. \A n \in DOMAIN actions : actions[n] # i
        BY <2>1 DEF ListedOnce
  <2>4. i \notin ItemsOver /\ ItemsOver' = ItemsOver
        BY <2>1 DEF ItemsOver, Over, ListTypeOK
  <2>5. CASE InFlight
    <3>1. actions # <<>> /\ Len(actions) > 0
          BY <2>1, <2>5, EmptySeq, LenProperties DEF InFlight
    <3>2. /\ Head(actions') = Head(actions)
          /\ Tail(actions') = Append(Tail(actions), i)
          BY <2>1, <3>1, HeadTailAppend
    <3>3. InFlight'
          BY <2>1, <2>2, <2>5, <3>2 DEF InFlight
    <3>4. Head(actions) # i
          BY <2>1, <2>2, <2>3, <3>1, HeadTailProperties
    <3>5. \A n \in DOMAIN Tail(actions) : Tail(actions)[n] # i
      <4>1. /\ DOMAIN Tail(actions) = 1 .. Len(actions) - 1
            /\ \A n \in 1 .. Len(actions) - 1 : Tail(actions)[n] = actions[n + 1]
            BY <2>1, <2>2, <3>1, HeadTailProperties, LenProperties
      <4>2. QED  BY <2>2, <2>3, <4>1
    <3>6. QED
          BY <2>4, <2>5, <3>2, <3>3, <3>4, <3>5 DEF Serial!Submit, Waiting, Running
  <2>6. CASE ~InFlight
    <3>1. ~InFlight'
      <4>1. actions # <<>> => Head(actions') = Head(actions)
            BY <2>1, AppendProperties
      <4>2. QED  BY <2>1, <2>6, <4>1 DEF InFlight, OnlyHeadStarted
    <3>2. i # NoItem
          BY ActionAssumption
    <3>3. QED
          BY <2>1, <2>3, <2>4, <2>6, <3>1, <3>2 DEF Serial!Submit, Waiting, Running
  <2>7. QED  BY <2>5, <2>6
<1>2. ASSUME NEW p \in Pids, StartCommand(p) PROVE Serial!Begin
  <2>1. /\ execEv /\ loop = "idle" /\ loop' = "forked"
        /\ actions' = actions /\ outcome' = outcome
        BY <1>2 DEF StartCommand, Fork
  <2>2. ~InFlight /\ actions # <<>> /\ InFlight'
        BY <2>1 DEF WakeUp, ForkedInFlight
  <2>3. QED
        BY <2>1, <2>2 DEF Serial!Begin, Waiting, Running, ItemsOver
<1>3. ASSUME actions' = actions, outcome' = outcome, pid' = pid
      PROVE  serialBar' = serialBar
      BY <1>3, SerialStutter DEF InFlight
<1>4. CASE StartFails
      BY <1>3, <1>4 DEF StartFails, ForkFails
<1>5. CASE CommandStarted
      BY <1>3, <1>5 DEF CommandStarted, Register
<1>6. ASSUME NEW how \in {"completed", "failed"}, CallFunction(how) PROVE Serial!Pass
  <2>1. /\ execEv /\ Finish(how) /\ loop = "idle" /\ pid' = pid
        BY <1>6 DEF CallFunction, procVars
  <2>2. actions # <<>> /\ ~InFlight
        BY <2>1 DEF WakeUp
  <2>3. ~InFlight'
        BY <1>6, <2>1, <2>2, ActionAssumption DEF CallFunction, InFlight, OnlyHeadStarted
  <2>4. QED  BY <2>1, <2>2, <2>3, SerialFinish DEF Over
<1>7. CASE TerminateCurrentAction
      BY <1>3, <1>7 DEF TerminateCurrentAction, Terminate, procVars
<1>8. CASE KillCurrentAction
  <2>1. /\ killEv /\ Finish("killed") /\ loop = "idle" /\ loop' = loop
        /\ timeoutEv' = timeoutEv /\ killEv' = FALSE
        BY <1>8 DEF KillCurrentAction, Kill
  <2>2. actions # <<>> /\ InFlight /\ ~timeoutEv
        BY <2>1 DEF TimersFollowCommand, InFlight
  <2>3. ~InFlight'
        BY <2>1, <2>2 DEF TimersFollowCommand
  <2>4. Serial!End
        BY <2>1, <2>2, <2>3, SerialFinish DEF Over
  <2>5. QED  BY <2>4 DEF Serial!SerialNext
<1>9. ASSUME NEW p \in Pids, HandlerCalled(p) PROVE Serial!End
  <2>1. /\ Finish(IF child[p] = "failure" THEN "failed" ELSE "completed")
        /\ loop = "reaping" /\ loop' = loop
        /\ timeoutEv' = FALSE /\ killEv' = FALSE
        BY <1>9 DEF HandlerCalled, Reap
  <2>2. PICK i \in processes : pid[i] = p
        BY <1>9 DEF HandlerCalled, Owners
  <2>3. i \in Procs /\ pid[i] # NoPid
        BY <2>2, ProcessAssumption DEF ListTypeOK, ProcTypeOK
  <2>4. actions # <<>> /\ InFlight
        BY <2>3 DEF OnlyHeadStarted, InFlight
  <2>5. ~InFlight'
        BY <2>1 DEF TimersFollowCommand
  <2>6. QED  BY <2>1, <2>4, <2>5, SerialFinish DEF Over
<1>10. ASSUME NEW p \in Pids, ReapKilled(p) PROVE serialBar' = serialBar
  <2>1. pid' = pid
        BY <1>10 DEF ReapKilled, Reap, ListTypeOK, ProcTypeOK
  <2>2. QED  BY <1>3, <1>10, <2>1 DEF ReapKilled, listVars
<1>11. CASE ProcessStep
       BY <1>3, <1>11
       DEF ProcessStep, ChildEnds, OnSigchld, ReapNone, Aborted, procVars, listVars
<1>12. CASE UNCHANGED vars
       BY <1>3, <1>12 DEF vars, procVars, listVars
<1>13. QED
       BY <1>1, <1>2, <1>4, <1>5, <1>6, <1>7, <1>8, <1>9, <1>10, <1>11, <1>12
       DEF ListNext, AllDone, Serial!SerialNext

\* Every action is executed once at most, one at a time, in the order of append().
THEOREM ListImplementsSerial == ListSafety => Serial!SerialSafety
<1>1. ListInit => Serial!SerialInit
  <2>1. ListInit => ~InFlight
        BY DEF ListInit, InFlight
  <2>2. QED
        BY <2>1 DEF ListInit, Serial!SerialInit, Waiting, Running, ItemsOver, Over
<1>2. ListInv /\ ListInv' /\ CountInv /\ [ListNext]_vars
        => [Serial!SerialNext]_(Serial!serialVars)
      BY SerialStep DEF Serial!serialVars, serialBar
<1>3. QED
      BY <1>1, <1>2, ListInvariant, CountInvariant, PTL
      DEF ListSafety, Serial!SerialSafety
=============================================================================
