-------------------------- MODULE LifecycleProofs --------------------------
(***************************************************************************)
(* Proofs about Lifecycle, for any commands, functions, pids and signals,  *)
(* and any number of generations.  A reload destroys the list of actions   *)
(* with its objects but leaves process::list, which goes on pointing to    *)
(* some of them.  What is proved here holds whatever it points to, of the  *)
(* objects that exist, and as long as the program has not crashed.         *)
(***************************************************************************)
EXTENDS Lifecycle, ActionListProofs

-----------------------------------------------------------------------------
(* What holds of every generation *)

\* A freed action is not in the list, and no longer a new one.
GoneForGood ==
  /\ \A n \in DOMAIN actions : actions[n] \notin gone
  /\ \A i \in gone : outcome[i] # "new"

\* Destructors run while no callback does, and leave no action; the handler of a
\* freed object is called from within onSigchld.
AtRest ==
  /\ main # "running" => loop = "idle" /\ stale = "none"
  /\ main \in {"cleared", "exited"} => actions = <<>>
  /\ stale # "none" => loop = "reaping"

LifeInv ==
  /\ ListCore
  /\ LifeTypeOK
  /\ ListedOnce
  /\ ListedIsStarted
  /\ GoneForGood
  /\ AtRest
  /\ CurrentFoundFirst

LEMMA LifeInitInv == LifeInit => LifeInv
<1> SUFFICES ASSUME LifeInit PROVE LifeInv
    OBVIOUS
<1>1. ListCore /\ ListTypeOK /\ ListedIsStarted
      BY ListInitInv DEF LifeInit, ListInv, ListCore, ProcInv, QueueInv
<1>2. actions = <<>> /\ loop = "idle" /\ ~InFlight /\ gone = {} /\ stale = "none"
      BY DEF LifeInit, ListInit, ProcInit, InFlight
<1>3. LifeTypeOK
  <2>1. sent \in 0 .. MaxSignals /\ reused \in 0 .. MaxReused
        BY LifeAssumption DEF LifeInit
  <2>2. QED  BY <1>1, <2>1 DEF LifeInit, LifeTypeOK
<1>4. ListedOnce /\ GoneForGood
      BY <1>2, EmptySeq DEF ListedOnce, GoneForGood
<1>5. AtRest /\ CurrentFoundFirst
      BY <1>2 DEF AtRest, CurrentFoundFirst
<1>6. QED  BY <1>1, <1>3, <1>4, <1>5 DEF LifeInv

\* The current action has not been freed.
LEMMA CurrentIsThere ==
  ASSUME ListTypeOK, ListedOnce, GoneForGood, actions # <<>>
  PROVE  Head(actions) \in Items /\ Head(actions) \notin Freed
<1>1. 1 \in DOMAIN actions /\ Head(actions) = actions[1] /\ Head(actions) \in Items
      BY EmptySeq, LenProperties, HeadTailProperties DEF ListTypeOK
<1>2. outcome[Head(actions)] = "listed" /\ Head(actions) \notin gone
      BY <1>1 DEF ListedOnce, GoneForGood
<1>3. QED  BY <1>1, <1>2 DEF Freed, Over

-----------------------------------------------------------------------------
(* The steps of the list of actions *)

\* What is appended comes behind a command in flight.
LEMMA AppendIsBehind ==
  ASSUME ListTypeOK, OnlyHeadStarted, NEW i \in Items, actions' = Append(actions, i),
         pid' = pid, InFlight'
  PROVE  InFlight /\ Head(actions') = Head(actions)
<1>1. pid[Head(actions')] # NoPid /\ Head(actions') \in Procs
      BY DEF InFlight
<1>2. actions # <<>> /\ Head(actions) = Head(actions')
      BY <1>1 DEF OnlyHeadStarted
<1>3. QED  BY <1>1, <1>2 DEF InFlight

\* The steps of the list that touch process::list or where the thread is leave
\* the actions alone, the end of the current one excepted, which leaves no
\* command in flight.
LEMMA CurrentStep ==
  ASSUME ListCore, ListCore', [ListNext]_vars
  PROVE  \/ ~InFlight'
         \/ /\ InFlight /\ Head(actions') = Head(actions) /\ processes' = processes
            /\ loop' = "forked" <=> loop = "forked"
         \/ loop' = "forked"
         \/ /\ loop = "forked" /\ loop' # "forked" /\ actions' = actions
            /\ Head(actions) \notin processes
            /\ processes' = processes \union {Head(actions)}
<1> USE DEF ListCore, QueueInv
<1>1. ASSUME NEW i \in Items, AppendAction(i), InFlight'
      PROVE  InFlight /\ Head(actions') = Head(actions) /\ UNCHANGED <<processes, loop>>
      BY <1>1, AppendIsBehind DEF AppendAction, procVars
<1>2. ASSUME UNCHANGED <<actions, pid, processes>>, loop' = "forked" <=> loop = "forked",
             InFlight'
      PROVE  InFlight /\ Head(actions') = Head(actions)
      BY <1>2 DEF InFlight
<1>3. ASSUME NEW how \in {"completed", "failed"}, CallFunction(how) PROVE ~InFlight'
  <2>1. ~InFlight /\ pid' = pid
    <3>1. execEv /\ loop = "idle" /\ pid' = pid
          BY <1>3 DEF CallFunction, procVars
    <3>2. QED  BY <3>1 DEF WakeUp
  <2>2. \A i \in Procs : pid[i] = NoPid
        BY <2>1 DEF OnlyHeadStarted, InFlight
  <2>3. QED  BY <2>1, <2>2 DEF InFlight
<1>4. CASE KillCurrentAction
  <2>1. /\ loop = "idle" /\ loop' = loop
        /\ timeoutEv' = timeoutEv /\ killEv' = FALSE /\ killEv
        BY <1>4 DEF KillCurrentAction, Kill
  <2>2. ~InFlight'
        BY <2>1 DEF TimersFollowCommand
  <2>3. QED  BY <2>2
<1>5. ASSUME NEW p \in Pids, HandlerCalled(p) PROVE ~InFlight'
  <2>1. loop' # "forked" /\ timeoutEv' = FALSE /\ killEv' = FALSE
        BY <1>5 DEF HandlerCalled, Reap
  <2>2. QED  BY <2>1 DEF TimersFollowCommand
<1>6. ASSUME NEW p \in Pids, ReapKilled(p)
      PROVE  UNCHANGED <<actions, pid, processes, loop>>
      BY <1>6 DEF ReapKilled, Reap, listVars, ListTypeOK, ProcTypeOK
<1>7. CASE CommandStarted
      BY <1>7 DEF CommandStarted, Register
<1>8. CASE \E p \in Pids : StartCommand(p)
      BY <1>8 DEF StartCommand, Fork
<1>9. CASE StartFails
      BY <1>2, <1>9 DEF StartFails, ForkFails
<1>10. CASE TerminateCurrentAction \/ ProcessStep \/ AllDone \/ UNCHANGED vars
       BY <1>2, <1>10
       DEF TerminateCurrentAction, Terminate, ProcessStep, ChildEnds, OnSigchld, ReapNone,
           Aborted, AllDone, procVars, listVars, vars
<1>11. QED
       BY <1>1, <1>2, <1>3, <1>4, <1>5, <1>6, <1>7, <1>8, <1>9, <1>10 DEF ListNext

\* The end of the current action brings nothing into the list.
LEMMA FinishItems ==
  ASSUME ListTypeOK, actions # <<>>, NEW how \in Over, Finish(how)
  PROVE  /\ \A n \in DOMAIN actions' : \E m \in DOMAIN actions : actions'[n] = actions[m]
         /\ \A j \in Items : outcome[j] # "new" => outcome'[j] # "new"
<1>1. /\ actions \in Seq(Items) /\ actions' = Tail(actions)
      /\ outcome' = [outcome EXCEPT ![Head(actions)] = how] /\ how # "new"
      BY DEF Finish, ListTypeOK, Over
<1>2. PICK k \in Nat : k = Len(actions) /\ DOMAIN actions = 1 .. k
      BY <1>1, LenProperties
<1>3. /\ DOMAIN actions' = 1 .. k - 1
      /\ \A n \in 1 .. k - 1 : actions'[n] = actions[n + 1]
      BY <1>1, <1>2, HeadTailProperties, LenProperties
<1>4. \A n \in DOMAIN actions' : n + 1 \in DOMAIN actions
      BY <1>2, <1>3
<1>5. QED  BY <1>1, <1>3, <1>4 DEF ListTypeOK

\* An action that comes into the list is new, and none becomes new again.
LEMMA ItemsStep ==
  ASSUME ListCore, [ListNext]_vars
  PROVE  /\ \A n \in DOMAIN actions' :
              \/ outcome[actions'[n]] = "new"
              \/ \E m \in DOMAIN actions : actions'[n] = actions[m]
         /\ \A i \in Items : outcome[i] # "new" => outcome'[i] # "new"
<1> USE DEF ListCore, QueueInv
<1>1. ASSUME NEW i \in Items, AppendAction(i)
      PROVE  /\ \A n \in DOMAIN actions' :
                  \/ outcome[actions'[n]] = "new"
                  \/ \E m \in DOMAIN actions : actions'[n] = actions[m]
             /\ \A j \in Items : outcome[j] # "new" => outcome'[j] # "new"
  <2>1. /\ actions \in Seq(Items) /\ actions' = Append(actions, i)
        /\ outcome[i] = "new" /\ outcome' = [outcome EXCEPT ![i] = "listed"]
        BY <1>1 DEF AppendAction, ListTypeOK
  <2>2. /\ DOMAIN actions = 1 .. Len(actions) /\ Len(actions) \in Nat
        /\ DOMAIN actions' = 1 .. Len(actions) + 1
        /\ \A n \in 1 .. Len(actions) : actions'[n] = actions[n]
        /\ actions'[Len(actions) + 1] = i
        BY <2>1, AppendProperties, LenProperties
  <2>3. \A n \in DOMAIN actions' : n \in DOMAIN actions \/ n = Len(actions) + 1
        BY <2>2
  <2>4. QED  BY <2>1, <2>2, <2>3 DEF ListTypeOK
<1>2. ASSUME NEW how \in Over, Finish(how), actions # <<>>
      PROVE  /\ \A n \in DOMAIN actions' :
                  \E m \in DOMAIN actions : actions'[n] = actions[m]
             /\ \A j \in Items : outcome[j] # "new" => outcome'[j] # "new"
      BY <1>2, FinishItems
<1>3. ASSUME UNCHANGED <<actions, outcome>>
      PROVE  /\ \A n \in DOMAIN actions' :
                  \E m \in DOMAIN actions : actions'[n] = actions[m]
             /\ \A j \in Items : outcome[j] # "new" => outcome'[j] # "new"
      BY <1>3
<1>4. \/ \E i \in Items : AppendAction(i)
      \/ actions # <<>> /\ \E how \in Over : Finish(how)
      \/ UNCHANGED <<actions, outcome>>
  <2>1. CASE \E how \in {"completed", "failed"} : CallFunction(how)
        BY <2>1 DEF CallFunction, Over, WakeUp
  <2>2. CASE KillCurrentAction
        BY <2>2 DEF KillCurrentAction, Over, TimersFollowCommand, InFlight
  <2>3. ASSUME NEW p \in Pids, HandlerCalled(p)
        PROVE  actions # <<>> /\ \E how \in Over : Finish(how)
    <3>1. PICK i \in Procs : pid[i] = p
          BY <2>3 DEF HandlerCalled, Owners, Ownership, ProcTypeOK
    <3>2. actions # <<>>
          BY <3>1, ProcessAssumption DEF OnlyHeadStarted
    <3>3. QED  BY <2>3, <3>2 DEF HandlerCalled, Over
  <2>4. QED
        BY <2>1, <2>2, <2>3
        DEF ListNext, StartCommand, StartFails, CommandStarted, TerminateCurrentAction,
            ReapKilled, ProcessStep, AllDone, listVars, vars
<1>5. QED  BY <1>1, <1>2, <1>3, <1>4

\* The objects that exist, after a step of the list, whatever else is linked.
LEMMA ListMoves ==
  ASSUME LifeInv, [ListNext]_vars, gone' = gone
  PROVE  ListCore' /\ ListedOnce' /\ ListedIsStarted' /\ GoneForGood'
<1> USE DEF LifeInv
<1>1. ListCore' /\ ListedOnce'
      BY ListCoreStep, OnceStepInv
<1>2. ListedIsStarted'
      BY ListStepIsProcStep, ListedIsStartedStep DEF ListCore
<1>3. GoneForGood'
  <2>1. gone \subseteq Items
        BY DEF LifeTypeOK
  <2>2. QED  BY <2>1, ItemsStep DEF GoneForGood
<1>4. QED  BY <1>1, <1>2, <1>3

-----------------------------------------------------------------------------
(* The linked list *)

PointersOK ==
  /\ first \in Procs \union {NoItem}
  /\ next \in [Procs -> Procs \union {NoItem}]

LEMMA UnlinkKeepsPointers ==
  ASSUME PointersOK, NEW i \in Procs, Unlink(i)
  PROVE  PointersOK' /\ (first # i => first' = first)
<1>1. CASE first = i
      BY <1>1 DEF Unlink, PointersOK
<1>2. CASE first # i
  <2>1. PICK n \in DOMAIN Walk \ {0} :
          next' = [next EXCEPT ![Walk[n - 1]] = next[i]] /\ first' = first
        BY <1>2, Zenon DEF Unlink
  <2>2. QED  BY <1>2, <2>1 DEF PointersOK
<1>3. QED  BY <1>1, <1>2

\* The current command comes to the front of the list, and stays there.
LEMMA LinkKeepsFirst ==
  ASSUME LifeInv, [ListNext]_vars, Link, ListCore'
  PROVE  PointersOK' /\ CurrentFoundFirst'
<1> USE DEF LifeInv
<1>1. PointersOK /\ processes \subseteq Procs /\ processes' \subseteq Procs
      BY DEF LifeTypeOK, PointersOK, ListCore, Ownership, ProcTypeOK
<1>2. PointersOK'
  <2>1. ASSUME NEW i \in processes' \ processes, first' = i,
               next' = [next EXCEPT ![i] = first]
        PROVE  PointersOK'
        BY <1>1, <2>1 DEF PointersOK
  <2>2. ASSUME NEW i \in processes \ processes', Unlink(i) PROVE PointersOK'
        BY <1>1, <2>2, UnlinkKeepsPointers
  <2>3. CASE UNCHANGED <<first, next>>
        BY <1>1, <2>3 DEF PointersOK
  <2>4. QED  BY <2>1, <2>2, <2>3 DEF Link
<1>3. CASE ~InFlight' \/ loop' = "forked"
      BY <1>2, <1>3 DEF CurrentFoundFirst
<1>4. CASE /\ InFlight /\ Head(actions') = Head(actions) /\ processes' = processes
           /\ loop' = "forked" <=> loop = "forked"
  <2>1. first' = first
        BY <1>4 DEF Link
  <2>2. QED  BY <1>2, <1>4, <2>1 DEF CurrentFoundFirst
<1>5. CASE /\ loop = "forked" /\ loop' # "forked" /\ actions' = actions
           /\ Head(actions) \notin processes
           /\ processes' = processes \union {Head(actions)}
  <2>1. first' = Head(actions)
        BY <1>5 DEF Link
  <2>2. QED  BY <1>2, <1>5, <2>1 DEF CurrentFoundFirst
<1>6. QED  BY <1>3, <1>4, <1>5, CurrentStep

-----------------------------------------------------------------------------
(* The destruction of a process and of a list *)

Destructor == DestructorReaps \/ DestructorEnds \/ DestructorGivesUp

\* Whatever the destructor finds, afterwards no object that exists has a child, and
\* an unreaped child has been sent SIGKILL.
LEMMA DestructorForgets ==
  ASSUME ListCore, LifeTypeOK, ListedIsStarted, Destructor, loop' = loop
  PROVE  /\ Ownership' /\ ListedIsStarted'
         /\ \A i \in Procs : pid'[i] = NoPid
         /\ remains' \in [Procs -> Pids \union {NoPid}]
         /\ caught' \in SUBSET (Signals \union {SIGTERM})
         /\ UNCHANGED <<first, next, reused>>
<1> USE DEF ListCore, QueueInv
<1>1. PICK h \in Procs : h = Head(actions) /\ pid[h] # NoPid
      BY DEF Destructor, DestructorReaps, DestructorEnds, DestructorGivesUp, DestroyCommand,
             InFlight
<1>2. PICK p \in Pids : p = pid[h] /\ p = ChildInFlight
      BY <1>1 DEF ListTypeOK, ProcTypeOK, ChildInFlight
<1>3. /\ pid' = [pid EXCEPT ![h] = NoPid]
      /\ remains' = [remains EXCEPT ![h] = p]
      /\ processes' = processes \ {h}
      /\ caught' \in {caught, caught \union Echo}
      /\ UNCHANGED <<listening, first, next, reused, loop>>
      BY <1>1, <1>2
      DEF Destructor, DestructorReaps, DestructorEnds, DestructorGivesUp, DestroyCommand
<1>4. \/ child' = [child EXCEPT ![p] = "none"] /\ doomed' = doomed \ {p}
         /\ unheard' = unheard \ {p}
      \/ /\ child[p] = "running" /\ doomed' = doomed \union {p}
         /\ UNCHANGED <<child, unheard>>
      BY <1>2
      DEF Destructor, DestructorReaps, DestructorEnds, DestructorGivesUp, ChildIsReaped
<1>5. sigchld' \in BOOLEAN
      BY Zenon
      DEF Destructor, DestructorReaps, DestructorEnds, DestructorGivesUp, ListTypeOK, ProcTypeOK
<1>6. \A i \in Procs : i # h => pid[i] = NoPid
      BY <1>1 DEF OnlyHeadStarted
<1>7. \A i \in Procs : pid'[i] = NoPid
      BY <1>3, <1>6 DEF ListTypeOK, ProcTypeOK
<1>8. processes' = {}
      BY <1>3, <1>6 DEF ListedIsStarted, ListTypeOK, ProcTypeOK
<1>9. Ownership'
  <2> USE ProcessAssumption DEF Ownership, ProcTypeOK
  <2>1. ProcTypeOK'
        BY <1>3, <1>4, <1>5, <1>8
  <2>2. NoStalePid' /\ PidsDistinct' /\ StartedIsListed'
        BY <1>7 DEF NoStalePid, PidsDistinct, StartedIsListed
  <2>3. DoomedForgotten'
        BY <1>4, <1>7 DEF DoomedForgotten
  <2>4. NoChildLost'
        BY <1>1, <1>2, <1>4, <1>6 DEF NoChildLost
  <2>5. QED  BY <2>1, <2>2, <2>3, <2>4
<1>10. remains' \in [Procs -> Pids \union {NoPid}]
       BY <1>2, <1>3 DEF LifeTypeOK
<1>11. caught' \in SUBSET (Signals \union {SIGTERM})
       BY <1>3 DEF Echo, LifeTypeOK
<1>12. QED  BY <1>3, <1>7, <1>8, <1>9, <1>10, <1>11 DEF ListedIsStarted

\* No event of a destroyed list is left to start or end anything.
LEMMA DropKeepsInv ==
  ASSUME LifeInv, DropActions, loop' = loop, stale' = stale,
         Ownership', ListedIsStarted', \A i \in Procs : pid'[i] = NoPid,
         PointersOK',
         remains' \in [Procs -> Pids \union {NoPid}],
         caught' \in SUBSET (Signals \union {SIGTERM}),
         reused' = reused,
         young' \in SUBSET Pids
  PROVE  LifeInv'
<1> USE DEF LifeInv
<1>1. /\ main = "deaf" /\ main' = "cleared" /\ loop = "idle" /\ stale = "none"
      /\ gone' = gone \union {actions[n] : n \in DOMAIN actions}
      /\ actions' = <<>> /\ execEv' = FALSE /\ timeoutEv' = FALSE /\ killEv' = FALSE
      /\ executed' = executed /\ failed' = failed /\ outcome' = outcome
      /\ UNCHANGED <<restart, active, lost, sent>>
      BY DEF DropActions, counters, AtRest
<1>2. ListTypeOK'
  <2>1. actions' \in Seq(Items)
        BY <1>1, EmptySeq
  <2>2. QED  BY <1>1, <2>1 DEF ListTypeOK, Ownership, LifeTypeOK
<1>3. ~InFlight'
      BY <1>1 DEF InFlight
<1>4. OnlyHeadStarted' /\ ForkedInFlight' /\ WakeUp' /\ TimersFollowCommand'
      BY <1>1, <1>3 DEF OnlyHeadStarted, ForkedInFlight, WakeUp, TimersFollowCommand
<1>5. ListedOnce' /\ CurrentFoundFirst' /\ AtRest'
      BY <1>1, <1>3, EmptySeq DEF ListedOnce, CurrentFoundFirst, AtRest
<1>6. GoneForGood'
      BY <1>1, EmptySeq DEF GoneForGood, ListedOnce
<1>7. LifeTypeOK'
  <2>1. \A n \in DOMAIN actions : actions[n] \in Items
        BY DEF LifeTypeOK, ListTypeOK
  <2>2. QED  BY <1>1, <1>2, <2>1 DEF LifeTypeOK, PointersOK
<1>8. QED  BY <1>2, <1>4, <1>5, <1>6, <1>7 DEF ListCore, QueueInv

LEMMA DestroyKeepsInv ==
  ASSUME LifeInv, DestroyIdleList \/ DestroyBusyList
  PROVE  LifeInv'
<1> USE DEF LifeInv
<1>1. CASE DestroyIdleList
  <2>1. ~InFlight /\ UNCHANGED <<procVars, kinVars, caught>> /\ DropActions
        BY <1>1 DEF DestroyIdleList
  <2>2. \A i \in Procs : pid'[i] = NoPid
        BY <2>1 DEF ListCore, QueueInv, OnlyHeadStarted, InFlight, procVars
  <2>3. Ownership' /\ ListedIsStarted'
        BY <2>1, OwnershipStep DEF ListCore, ListedIsStarted, procVars
  <2>4. QED
        BY <2>1, <2>2, <2>3, DropKeepsInv DEF LifeTypeOK, PointersOK, procVars, kinVars, memVars
<1>2. CASE DestroyBusyList
  <2>1. Destructor /\ DropActions /\ loop' = loop /\ stale' = stale /\ Grow
        BY <1>2 DEF DestroyBusyList, Destructor
  <2>2. QED
        BY <2>1, DestructorForgets, DropKeepsInv DEF LifeTypeOK, PointersOK, Grow
<1>3. QED  BY <1>1, <1>2

-----------------------------------------------------------------------------
(* What freed objects do *)

\* The program crashes: nothing moves any more.
LEMMA CrashKeepsInv ==
  ASSUME LifeInv, main = "running", main' = main, loop' = "aborted", stale' = "none",
         UNCHANGED <<pid, processes, listening, sigchld, child, doomed, unheard, listVars,
                     first, next, remains, reused, young, caught,
                     restart, active, lost, gone, sent>>,
         loop # "forked"
  PROVE  LifeInv'
<1> USE DEF LifeInv
<1>1. UNCHANGED <<actions, execEv, timeoutEv, killEv, executed, failed, outcome>>
      BY DEF listVars, events, counters
<1>2. Ownership' /\ ListedIsStarted'
      BY DEF ListCore, Ownership, ProcTypeOK, NoStalePid, PidsDistinct, DoomedForgotten,
             NoChildLost, StartedIsListed, ListedIsStarted
<1>3. ListTypeOK'
      BY <1>1, <1>2 DEF ListCore, QueueInv, ListTypeOK, Ownership
<1>4. InFlight' <=> InFlight
      BY <1>1 DEF InFlight
<1>5. QueueInv'
      BY <1>1, <1>3, <1>4
      DEF ListCore, QueueInv, OnlyHeadStarted, ForkedInFlight, WakeUp, TimersFollowCommand
<1>6. ListedOnce' /\ GoneForGood' /\ AtRest' /\ CurrentFoundFirst'
      BY <1>1, <1>4 DEF ListedOnce, GoneForGood, AtRest, CurrentFoundFirst
<1>7. LifeTypeOK'
      BY <1>3 DEF LifeTypeOK
<1>8. QED  BY <1>2, <1>5, <1>6, <1>7 DEF ListCore

\* The freed object that is found is not the one of the current command.
LEMMA FindsFreedKeepsInv ==
  ASSUME LifeInv, stale = "none", main = "running", NEW p \in Pids, FindsFreed(p),
         UNCHANGED <<main, restart, active, lost, gone, sent>>
  PROVE  LifeInv'
<1> USE DEF LifeInv
<1>1. /\ ReapKilled(p) /\ UNCHANGED listVars /\ loop = "reaping" /\ loop' = loop
      /\ child[p] \in Ended /\ stale' = child[p]
      /\ reused' = reused /\ caught' = caught /\ Grow
      BY DEF FindsFreed, ReapKilled, Reap
<1>2. pid' = pid
      BY <1>1 DEF ReapKilled, Reap, ListCore, Ownership, ProcTypeOK
<1>3. ListCore' /\ ListedOnce' /\ ListedIsStarted' /\ GoneForGood'
  <2>1. ListNext
        BY <1>1 DEF ListNext
  <2>2. QED  BY <2>1, ListMoves
<1>4. PICK i \in Freed : Unlink(i) /\ remains' = [remains EXCEPT ![i] = NoPid]
      BY DEF FindsFreed
<1>5. i \in Procs
      BY <1>4 DEF Freed
<1>6. PointersOK' /\ (first # i => first' = first)
      BY <1>4, <1>5, UnlinkKeepsPointers DEF LifeTypeOK, PointersOK
<1>7. CurrentFoundFirst'
  <2>1. InFlight' => InFlight /\ Head(actions') = Head(actions)
        BY <1>1, <1>2 DEF InFlight, listVars
  <2>2. InFlight => Head(actions) # i
        BY <1>4, CurrentIsThere DEF InFlight, LifeTypeOK
  <2>3. QED  BY <1>1, <1>6, <2>1, <2>2 DEF CurrentFoundFirst
<1>8. LifeTypeOK'
  <2>1. ListTypeOK' /\ young' \subseteq Pids
        BY <1>1, <1>3 DEF ListCore, QueueInv, Grow
  <2>2. stale' \in {"none"} \union Ended /\ remains' \in [Procs -> Pids \union {NoPid}]
        BY <1>1, <1>4 DEF LifeTypeOK
  <2>3. QED  BY <1>1, <1>6, <2>1, <2>2 DEF LifeTypeOK, PointersOK
<1>9. AtRest'
      BY <1>1 DEF AtRest
<1>10. QED  BY <1>3, <1>7, <1>8, <1>9

\* The stale handler ends an action as its own handler would, and the object of a
\* command that runs is destroyed.
LEMMA StaleHandlerKeepsInv ==
  ASSUME LifeInv, main = "running", StaleHandler,
         UNCHANGED <<main, restart, active, lost, gone, sent>>
  PROVE  LifeInv'
<1> USE DEF LifeInv
<1>1. PICK how \in {"completed", "failed"} :
        /\ Finish(how)
        /\ failed' = IF how = "failed" THEN failed + 1 ELSE failed
      BY DEF StaleHandler
<1>2. /\ actions # <<>> /\ loop = "reaping" /\ loop' = loop /\ stale' = "none"
      /\ timeoutEv' = FALSE /\ killEv' = FALSE /\ executed' = executed
      BY DEF StaleHandler, AtRest
<1>3. young' \subseteq Pids
      BY DEF StaleHandler, Grow
<1>4. /\ Ownership' /\ ListedIsStarted'
      /\ \A i \in Procs : pid'[i] = NoPid
      /\ remains' \in [Procs -> Pids \union {NoPid}]
      /\ caught' \in SUBSET (Signals \union {SIGTERM})
      /\ UNCHANGED <<first, next, reused>>
  <2>1. CASE Destructor
        BY <1>2, <2>1, DestructorForgets
  <2>2. CASE /\ ~InFlight
             /\ UNCHANGED <<pid, processes, listening, child, sigchld, doomed, unheard,
                            first, next, remains, reused, caught>>
    <3>1. UNCHANGED procVars
          BY <1>2, <2>2 DEF procVars
    <3>2. Ownership' /\ ListedIsStarted'
          BY <3>1, OwnershipStep DEF ListCore, ListedIsStarted, procVars
    <3>3. \A i \in Procs : pid'[i] = NoPid
          BY <2>2 DEF ListCore, QueueInv, OnlyHeadStarted, InFlight
    <3>4. QED  BY <2>2, <3>2, <3>3 DEF LifeTypeOK
  <2>3. QED  BY <2>1, <2>2 DEF StaleHandler, Destructor
<1>5. how \in Over
      BY DEF Over
<1>6. /\ actions' \in Seq(Items) /\ execEv' \in BOOLEAN
      /\ outcome' \in [Items -> {"new", "listed"} \union Over]
      /\ OnlyHeadStarted' /\ ForkedInFlight' /\ WakeUp' /\ ~InFlight'
  <2>1. pid' \in [Procs -> Pids \union {NoPid}] /\ loop' # "forked"
        BY <1>2, <1>4 DEF Ownership, ProcTypeOK
  <2>2. QED  BY <1>1, <1>2, <1>4, <1>5, <2>1, FinishKeepsQueue DEF ListCore
<1>7. ListTypeOK'
  <2>1. executed' \in Nat /\ failed' \in Nat
        BY <1>1, <1>2 DEF LifeTypeOK, ListTypeOK
  <2>2. QED  BY <1>2, <1>4, <1>6, <2>1 DEF ListTypeOK, Ownership
<1>8. QueueInv'
      BY <1>2, <1>6, <1>7 DEF QueueInv, TimersFollowCommand
<1>9. ListedOnce'
      BY <1>1, <1>2, <1>5, FinishCounts DEF LifeTypeOK
<1>10. GoneForGood'
  <2>1. gone \subseteq Items /\ ListTypeOK
        BY DEF LifeTypeOK
  <2>2. QED  BY <1>1, <1>2, <1>5, <2>1, FinishItems DEF GoneForGood
<1>11. AtRest' /\ CurrentFoundFirst'
       BY <1>2, <1>6 DEF AtRest, CurrentFoundFirst
<1>12. LifeTypeOK'
       BY <1>2, <1>3, <1>4, <1>7 DEF LifeTypeOK
<1>13. QED  BY <1>4, <1>8, <1>9, <1>10, <1>11, <1>12 DEF ListCore

LEMMA AstrayKeepsInv ==
  ASSUME LifeInv, AstrayStep PROVE LifeInv'
<1>1. main = "running" /\ UNCHANGED <<main, restart, active, lost, gone, sent>>
      BY DEF AstrayStep
<1>2. ASSUME stale = "none", NEW p \in Pids, SearchCrashes(p) PROVE LifeInv'
  <2>1. /\ UNCHANGED <<pid, processes, listening, sigchld, child, doomed, unheard, listVars,
                       first, next, remains, reused, young, caught>>
        /\ loop = "reaping" /\ loop' = "aborted" /\ stale' = "none"
        BY <1>2 DEF SearchCrashes, kinVars, memVars
  <2>2. QED  BY <1>1, <2>1, CrashKeepsInv
<1>3. CASE StaleHandlerCrashes
  <2>1. /\ UNCHANGED <<pid, processes, listening, sigchld, child, doomed, unheard, listVars,
                       first, next, remains, reused, young, caught>>
        /\ loop' = "aborted" /\ stale' = "none" /\ stale # "none"
        BY <1>3 DEF StaleHandlerCrashes
  <2>2. loop # "forked"
        BY <2>1 DEF LifeInv, AtRest
  <2>3. QED  BY <1>1, <2>1, <2>2, CrashKeepsInv
<1>4. QED
      BY <1>1, <1>2, <1>3, FindsFreedKeepsInv, StaleHandlerKeepsInv DEF AstrayStep

\* Memory that is given out again belongs to no action of the list.
LEMMA ReuseKeepsInv ==
  ASSUME LifeInv, NEW i \in Procs, AppendReused(i)
  PROVE  LifeInv'
<1> USE DEF LifeInv
<1>1. /\ main = "running" /\ loop = "idle" /\ i \in Freed /\ reused < MaxReused
      /\ reused' = reused + 1
      /\ next' = [next EXCEPT ![i] = NoItem]
      /\ remains' = [remains EXCEPT ![i] = NoPid]
      /\ gone' = gone \ {i}
      /\ outcome' = [outcome EXCEPT ![i] = "listed"]
      /\ actions' = Append(actions, i)
      /\ execEv' = (execEv \/ Len(actions') = 1)
      /\ UNCHANGED <<procVars, timeoutEv, killEv, counters, first, stale, young,
                     main, restart, caught, active, lost, sent>>
      BY DEF AppendReused, Dangling
<1>2. i \in Items
      BY DEF Items
<1>3. \A n \in DOMAIN actions : actions[n] # i
      BY <1>1 DEF Freed, Over, ListedOnce, GoneForGood
<1>4. Ownership' /\ ListedIsStarted'
      BY <1>1, OwnershipStep DEF ListCore, ListedIsStarted, procVars
<1>5. QueueInv'
      BY <1>1, <1>2, AppendKeepsQueue DEF ListCore
<1>6. ListedOnce'
      BY <1>1, <1>2, <1>3, AppendOnce DEF LifeTypeOK
<1>7. GoneForGood'
  <2>1. /\ actions \in Seq(Items) /\ gone \subseteq Items
        /\ outcome \in [Items -> {"new", "listed"} \union Over]
        BY DEF LifeTypeOK, ListTypeOK
  <2>2. /\ DOMAIN actions = 1 .. Len(actions) /\ Len(actions) \in Nat
        /\ DOMAIN actions' = 1 .. Len(actions) + 1
        /\ \A n \in 1 .. Len(actions) : actions'[n] = actions[n]
        /\ actions'[Len(actions) + 1] = i
        BY <1>1, <1>2, <2>1, AppendProperties, LenProperties
  <2>3. \A n \in DOMAIN actions' : actions'[n] \notin gone'
        BY <1>1, <2>2 DEF GoneForGood
  <2>4. \A j \in gone' : outcome'[j] # "new"
        BY <1>1, <2>1 DEF GoneForGood
  <2>5. QED  BY <2>3, <2>4 DEF GoneForGood
<1>8. CurrentFoundFirst'
  <2>1. pid' = pid /\ loop' = loop
        BY <1>1 DEF procVars
  <2>2. InFlight' => InFlight /\ Head(actions') = Head(actions)
        BY <1>1, <1>2, <2>1, AppendIsBehind DEF ListCore, QueueInv
  <2>3. QED  BY <1>1, <2>1, <2>2 DEF CurrentFoundFirst
<1>9. LifeTypeOK'
  <2>1. reused' \in 0 .. MaxReused
    <3>1. reused \in 0 .. MaxReused
          BY DEF LifeTypeOK
    <3>2. QED  BY <1>1, <3>1, LifeAssumption
  <2>2. ListTypeOK'
        BY <1>5 DEF QueueInv
  <2>3. /\ next' \in [Procs -> Procs \union {NoItem}]
        /\ remains' \in [Procs -> Pids \union {NoPid}]
        /\ gone' \subseteq Items
        BY <1>1 DEF LifeTypeOK
  <2>4. QED  BY <1>1, <2>1, <2>2, <2>3 DEF LifeTypeOK
<1>10. AtRest'
       BY <1>1 DEF AtRest, procVars
<1>11. QED  BY <1>4, <1>5, <1>6, <1>7, <1>8, <1>9, <1>10 DEF ListCore

-----------------------------------------------------------------------------
(* Every step of the program *)

\* What main() and the signals do by themselves does not touch the list.
LEMMA QuietKeepsInv ==
  ASSUME LifeInv, UNCHANGED <<vars, memVars, gone>>,
         main' \in {"running", "stopped", "deaf", "cleared", "exited", "killed"},
         main' # "running" => loop = "idle",
         main' \in {"cleared", "exited"} => main = "cleared" \/ main' = main,
         restart' \in BOOLEAN,
         caught' \in SUBSET (Signals \union {SIGTERM}),
         active' \in SUBSET (Signals \union {SIGTERM}),
         lost' \in SUBSET (Signals \union {SIGTERM}),
         sent' \in 0 .. MaxSignals,
         young' \in SUBSET Pids
  PROVE  LifeInv'
<1> USE DEF LifeInv
<1>1. UNCHANGED vars /\ Link
      BY DEF Link, vars, procVars, memVars
<1>2. /\ ListCore' /\ ListedOnce' /\ ListedIsStarted' /\ GoneForGood'
      /\ PointersOK' /\ CurrentFoundFirst'
      BY <1>1, ListMoves, LinkKeepsFirst
<1>3. LifeTypeOK'
  <2>1. /\ remains' \in [Procs -> Pids \union {NoPid}]
        /\ stale' \in {"none"} \union Ended
        /\ reused' \in 0 .. MaxReused
        /\ gone' \in SUBSET Items
        BY DEF LifeTypeOK, memVars
  <2>2. QED  BY <1>2, <2>1 DEF LifeTypeOK, ListCore, QueueInv, PointersOK
<1>4. AtRest'
      BY <1>1 DEF AtRest, vars, procVars, listVars, memVars
<1>5. QED  BY <1>2, <1>3, <1>4

LEMMA LifeStepInv == LifeInv /\ [LifeNext]_lifeVars => LifeInv'
<1> SUFFICES ASSUME LifeInv, [LifeNext]_lifeVars PROVE LifeInv'
    OBVIOUS
<1>1. LifeTypeOK /\ AtRest
      BY DEF LifeInv
<1>2. ASSUME NEW sig \in Signals, SendSignal(sig) PROVE LifeInv'
  <2>1. sent' = sent + 1 /\ sent < MaxSignals /\ sent \in 0 .. MaxSignals
        BY <1>1, <1>2 DEF SendSignal, LifeTypeOK
  <2>2. sent' \in 0 .. MaxSignals
        BY <2>1, LifeAssumption
  <2>3. /\ UNCHANGED <<vars, memVars, gone, restart, active, lost, young>>
        /\ \/ main' = main
           \/ main' = "killed" /\ main # "running"
        /\ caught' \in SUBSET (Signals \union {SIGTERM})
        BY <1>1, <1>2 DEF SendSignal, LifeTypeOK, kinVars
  <2>4. QED  BY <1>1, <2>2, <2>3, QuietKeepsInv DEF LifeTypeOK, AtRest
<1>3. ASSUME NEW sig \in active, SignalRaised(sig) PROVE LifeInv'
  <2>1. /\ UNCHANGED <<vars, memVars, gone, caught, lost, sent, young>>
        /\ main' = "stopped" /\ loop = "idle"
        /\ active' = active \ {sig}
        BY <1>3 DEF SignalRaised, kinVars
  <2>2. restart' \in BOOLEAN
        BY <1>3, Zenon DEF SignalRaised
  <2>3. QED  BY <1>1, <2>1, <2>2, QuietKeepsInv DEF LifeTypeOK
<1>4. CASE Poll
      BY <1>1, <1>4, QuietKeepsInv DEF Poll, LifeTypeOK, AtRest, kinVars
<1>5. CASE DestroyListeners
      BY <1>1, <1>5, QuietKeepsInv DEF DestroyListeners, LifeTypeOK, AtRest, kinVars
<1>6. CASE DestroyIdleList \/ DestroyBusyList
      BY <1>6, DestroyKeepsInv
<1>7. CASE Reload
      BY <1>1, <1>7, QuietKeepsInv DEF Reload, LifeTypeOK, kinVars
<1>8. CASE Exit
      BY <1>1, <1>8, QuietKeepsInv DEF Exit, LifeTypeOK, AtRest, kinVars
<1>9. ASSUME ListNext \/ UNCHANGED vars, Link, Grow,
             UNCHANGED <<main, restart, active, lost, gone, sent, remains, stale, reused>>,
             caught' \in SUBSET (Signals \union {SIGTERM}),
             \/ main = "running" /\ stale = "none"
             \/ UNCHANGED <<loop, actions>>
      PROVE  LifeInv'
  <2>1. /\ ListCore' /\ ListedOnce' /\ ListedIsStarted' /\ GoneForGood'
        /\ PointersOK' /\ CurrentFoundFirst'
        BY <1>9, ListMoves, LinkKeepsFirst
  <2>2. LifeTypeOK'
    <3>1. young' \in SUBSET Pids /\ ListTypeOK'
          BY <1>9, <2>1 DEF Grow, ListCore, QueueInv
    <3>2. QED  BY <1>1, <1>9, <2>1, <3>1 DEF LifeTypeOK, PointersOK
  <2>3. AtRest'
        BY <1>1, <1>9 DEF AtRest
  <2>4. QED  BY <2>1, <2>2, <2>3 DEF LifeInv
<1>10. CASE ListStep
  <2>1. caught' \in SUBSET (Signals \union {SIGTERM})
        BY <1>1, <1>10 DEF ListStep, Echo, LifeTypeOK
  <2>2. QED  BY <1>9, <1>10, <2>1 DEF ListStep
<1>11. CASE AstrayStep
       BY <1>11, AstrayKeepsInv
<1>12. ASSUME NEW i \in Procs, AppendReused(i) PROVE LifeInv'
       BY <1>12, ReuseKeepsInv
<1>13. CASE ChildStep
  <2>1. /\ UNCHANGED <<listVars, mainVars, memVars>>
        /\ Grow /\ \E p \in Pids, how \in Ended : ChildEnds(p, how)
        BY <1>13 DEF ChildStep
  <2>2. ListNext /\ UNCHANGED <<processes, loop, actions>>
        BY <2>1 DEF ChildEnds, ListNext, ProcessStep, listVars
  <2>3. /\ Link
        /\ UNCHANGED <<main, restart, active, lost, gone, sent, remains, stale, reused, caught>>
        BY <2>1, <2>2 DEF Link, mainVars, memVars
  <2>4. QED  BY <1>1, <1>9, <2>1, <2>2, <2>3 DEF LifeTypeOK
<1>14. ASSUME NEW p \in Pids, ChildExecutes(p) PROVE LifeInv'
       BY <1>1, <1>14, QuietKeepsInv DEF ChildExecutes, LifeTypeOK, AtRest, mainVars
<1>15. CASE Rest \/ UNCHANGED lifeVars
       BY <1>1, <1>15, QuietKeepsInv DEF Rest, LifeTypeOK, AtRest, lifeVars, mainVars, kinVars
<1>16. QED
       BY <1>2, <1>3, <1>4, <1>5, <1>6, <1>7, <1>8, <1>10, <1>11, <1>12, <1>13, <1>14, <1>15
       DEF LifeNext

THEOREM LifeInvariant == LifeSafety => []LifeInv
BY LifeInitInv, LifeStepInv, PTL DEF LifeSafety

\* Type correctness of every behaviour of the program.
THEOREM LifeTypeCorrect == LifeSafety => []LifeTypeOK
<1>1. LifeInv => LifeTypeOK
      BY DEF LifeInv
<1>2. QED  BY <1>1, LifeInvariant, PTL

\* No object that exists signals a pid whose child has been reaped, in any generation.
THEOREM LifeNoStalePid == LifeSafety => []NoStalePid
<1>1. LifeInv => NoStalePid
      BY DEF LifeInv, ListCore, Ownership
<1>2. QED  BY <1>1, LifeInvariant, PTL

\* A new generation starts no command beside one of the generations before,
\* unless that has been sent SIGKILL.
THEOREM LifeOneLiveCommand == LifeSafety => []OneLiveCommand
<1>1. LifeInv => OneLiveCommand
      BY OneLive DEF LifeInv
<1>2. QED  BY <1>1, LifeInvariant, PTL

\* A reload loses no wake-up of the list and leaves none behind.
THEOREM LifeWakeUp == LifeSafety => []WakeUp
<1>1. LifeInv => WakeUp
      BY DEF LifeInv, ListCore, QueueInv
<1>2. QED  BY <1>1, LifeInvariant, PTL

\* No timer of a destroyed list survives to hit a command of the next one.
THEOREM LifeTimers == LifeSafety => []TimersFollowCommand
<1>1. LifeInv => TimersFollowCommand
      BY DEF LifeInv, ListCore, QueueInv
<1>2. QED  BY <1>1, LifeInvariant, PTL

\* A program that quits by itself leaves no command behind that it has not killed.
THEOREM LifeNoOrphan == LifeSafety => []NoOrphan
<1>1. LifeInv => NoOrphan
      BY OneLive DEF LifeInv, AtRest, NoOrphan, OneLiveCommand, InFlight
<1>2. QED  BY <1>1, LifeInvariant, PTL

\* The search for the current command in process::list ends at its first object,
\* in front of all that reloads may have left there freed.
THEOREM LifeCurrentFoundFirst == LifeSafety => []CurrentFoundFirst
<1>1. LifeInv => CurrentFoundFirst
      BY DEF LifeInv
<1>2. QED  BY <1>1, LifeInvariant, PTL

\* A step of the list keeps what is known of children that have ended, as every step of
\* class process does; once the program has crashed there is nothing to keep.
LEMMA ListReaps ==
  ASSUME LifeInv, ReapedAcrossReloads, [ListNext]_vars PROVE ReapedAcrossReloads'
<1>1. Ownership /\ [ProcNext]_procVars
      BY ListStepIsProcStep DEF LifeInv, ListCore
<1>2. loop = "aborted" => loop' = "aborted"
      BY DEF ListNext, AppendAction, StartCommand, Fork, StartFails, ForkFails, CommandStarted,
             Register, CallFunction, TerminateCurrentAction, Terminate, KillCurrentAction, Kill,
             HandlerCalled, ReapKilled, Reap, ProcessStep, ChildEnds, OnSigchld, ReapNone,
             Aborted, AllDone, procVars, listVars, vars
<1>3. QED  BY <1>1, <1>2, ZombieStep DEF ReapedAcrossReloads

\* process::list, ~impl(): no reload loses a SIGCHLD, so that children whose objects
\* are destroyed do not stay zombies while the program runs.
THEOREM LifeReapsAcrossReloads == LifeSafety => []ReapedAcrossReloads
<1>1. LifeInit => ReapedAcrossReloads
      BY ListInitInv DEF LifeInit, ListInv, ProcInv, ReapedAcrossReloads
<1>2. LifeInv /\ ReapedAcrossReloads /\ [LifeNext]_lifeVars => ReapedAcrossReloads'
  <2>  SUFFICES ASSUME LifeInv, ReapedAcrossReloads, [LifeNext]_lifeVars
                PROVE  ReapedAcrossReloads'
       OBVIOUS
  <2>1. CASE UNCHANGED vars
        BY <2>1, ListReaps
  <2>2. CASE ListNext
        BY <2>2, ListReaps
  <2>3. CASE ChildStep
    <3>1. ListNext
          BY <2>3 DEF ChildStep, ListNext, ProcessStep
    <3>2. QED  BY <3>1, ListReaps
  <2>4. ASSUME Destructor, loop' = loop PROVE ReapedAcrossReloads'
    <3>1. CASE DestructorReaps \/ DestructorEnds
      <4>1. PICK p \in Pids : child' = [child EXCEPT ![p] = "none"] /\ unheard' = unheard \ {p}
        <5>1. ChildInFlight \in Pids
              BY <3>1
              DEF DestructorReaps, DestructorEnds, DestroyCommand, InFlight, ChildInFlight,
                  LifeInv, LifeTypeOK, ListTypeOK, ProcTypeOK
        <5>2. QED  BY <3>1, <5>1 DEF DestructorReaps, DestructorEnds, ChildIsReaped
      <4>2. child \in [Pids -> {"none", "running"} \union Ended]
            BY DEF LifeInv, LifeTypeOK, ListTypeOK, ProcTypeOK, Ended
      <4>3. \A q \in Pids : child'[q] \in Ended => q # p /\ child'[q] = child[q]
            BY <4>1, <4>2 DEF Ended
      <4>4. sigchld => sigchld'
            BY <3>1 DEF DestructorReaps, DestructorEnds
      <4>5. QED  BY <2>4, <4>1, <4>3, <4>4 DEF ReapedAcrossReloads, NoForgottenZombie
    <3>2. CASE DestructorGivesUp
          BY <2>4, <3>2 DEF DestructorGivesUp, ReapedAcrossReloads, NoForgottenZombie
    <3>3. QED  BY <2>4, <3>1, <3>2 DEF Destructor
  <2>5. CASE AstrayStep
    <3>1. ASSUME NEW p \in Pids, FindsFreed(p) PROVE ReapedAcrossReloads'
          BY <2>2, <3>1 DEF FindsFreed, ListNext
    <3>2. CASE StaleHandler
          BY <3>2
          DEF StaleHandler, LifeInv, AtRest, ReapedAcrossReloads, NoForgottenZombie
    <3>3. CASE StaleHandlerCrashes \/ \E p \in Pids : SearchCrashes(p)
          BY <3>3 DEF StaleHandlerCrashes, SearchCrashes, ReapedAcrossReloads
    <3>4. QED  BY <2>5, <3>1, <3>2, <3>3 DEF AstrayStep
  <2>6. CASE UNCHANGED procVars
        BY <2>6 DEF procVars, ReapedAcrossReloads, NoForgottenZombie
  <2>7. QED
        BY <2>1, <2>2, <2>3, <2>4, <2>5, <2>6
        DEF LifeNext, SendSignal, SignalRaised, Poll, DestroyListeners, DestroyIdleList,
            DestroyBusyList, Destructor, Reload, Exit, ListStep, AppendReused, ChildExecutes,
            Rest, lifeVars
<1>3. QED  BY <1>1, <1>2, LifeInvariant, PTL DEF LifeSafety
=============================================================================
