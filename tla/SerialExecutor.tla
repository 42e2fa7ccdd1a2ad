--------------------------- MODULE SerialExecutor ---------------------------
(***************************************************************************)
(* What the list of actions promises the hooks that append to it: every    *)
(* item is run to its end, one at a time, in the order of their            *)
(* submission, and exactly once.  ActionList is shown to implement this.   *)
(***************************************************************************)
EXTENDS Sequences

CONSTANTS
  Items,   \* what can be submitted
  NoItem   \* none of them

VARIABLES
  waiting,  \* the submitted items that have not begun, oldest first
  running,  \* the item that has begun and not ended, or NoItem
  over      \* the items that have ended

serialVars == <<waiting, running, over>>

SerialTypeOK ==
  /\ waiting \in Seq(Items)
  /\ running \in Items \union {NoItem}
  /\ over \in SUBSET Items

SerialInit == waiting = <<>> /\ running = NoItem /\ over = {}

\* An item is submitted once in its life.
Submit(i) ==
  /\ i \notin over
  /\ i # running
  /\ \A n \in DOMAIN waiting : waiting[n] # i
  /\ waiting' = Append(waiting, i)
  /\ UNCHANGED <<running, over>>

Begin ==
  /\ running = NoItem
  /\ waiting # <<>>
  /\ running' = Head(waiting)
  /\ waiting' = Tail(waiting)
  /\ UNCHANGED over

End ==
  /\ running # NoItem
  /\ over' = over \union {running}
  /\ running' = NoItem
  /\ UNCHANGED waiting

\* An item that begins and ends in one step: a function instead of a command.
Pass ==
  /\ running = NoItem
  /\ waiting # <<>>
  /\ over' = over \union {Head(waiting)}
  /\ waiting' = Tail(waiting)
  /\ UNCHANGED running

SerialNext == (\E i \in Items : Submit(i)) \/ Begin \/ End \/ Pass

SerialSafety == SerialInit /\ [][SerialNext]_serialVars

\* Nobody has to submit, but what is submitted is worked off.
SerialFairness ==
  /\ WF_serialVars(Begin \/ Pass)
  /\ WF_serialVars(End)

SerialSpec == SerialSafety /\ SerialFairness
=============================================================================
