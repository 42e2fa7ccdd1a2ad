------------------------- MODULE ChildProcessProofs -------------------------
(***************************************************************************)
(* Proofs about ChildProcess, for any number of objects and pids.          *)
(*                                                                         *)
(* NoStalePid is not inductive: that a reaped pid is held by no object     *)
(* needs to know that the search in process::list finds its object, that   *)
(* it finds the only one, and that killed children have none.  ProcInv     *)
(* says so.                                                                *)
(***************************************************************************)
EXTENDS ChildProcess, TLAPS

PidsDistinct ==
  \A i, j \in Procs : pid[i] # NoPid /\ pid[i] = pid[j] => i = j

DoomedForgotten ==
  \A p \in doomed : child[p] # "none" /\ \A i \in Procs : pid[i] # p

NoChildLost ==
  \A p \in Pids : child[p] # "none" => p \in doomed \/ \E i \in Procs : pid[i] = p

\* start() has entered every object that has a child in process::list, except
\* the one it is busy with between fork() and its return.
StartedIsListed ==
  /\ loop # "forked" => \A i \in Procs : pid[i] # NoPid => i \in processes
  /\ \A i, j \in Procs \ processes : pid[i] # NoPid /\ pid[j] # NoPid => i = j

\* Who owns which child.
Ownership ==
  /\ ProcTypeOK
  /\ NoStalePid
  /\ PidsDistinct
  /\ DoomedForgotten
  /\ NoChildLost
  /\ StartedIsListed

\* process::list holds no object without a child.
ListedIsStarted == \A i \in processes : pid[i] # NoPid

ProcInv ==
  /\ Ownership
  /\ ListedIsStarted
  /\ NoForgottenZombie

\* Nothing is started, listed or killed at first.
LEMMA ProcInitInv == ProcInit => ProcInv
<1> SUFFICES ASSUME ProcInit PROVE ProcInv
    OBVIOUS
<1>1. ProcTypeOK
      BY ProcessAssumption DEF ProcInit, ProcTypeOK
<1>2. NoStalePid /\ PidsDistinct /\ DoomedForgotten /\ NoChildLost
      BY DEF ProcInit, NoStalePid, PidsDistinct, DoomedForgotten, NoChildLost
<1>3. StartedIsListed /\ ListedIsStarted
      BY DEF ProcInit, StartedIsListed, ListedIsStarted
<1>4. NoForgottenZombie
  <2>1. \A p \in Pids : child[p] \notin Ended
        BY DEF ProcInit, Ended
  <2>2. QED  BY <2>1 DEF NoForgottenZombie
<1>5. QED  BY <1>1, <1>2, <1>3, <1>4 DEF ProcInv, Ownership

\* Each step of the kernel or of the class keeps the owners right.
LEMMA OwnershipStep == Ownership /\ [ProcNext]_procVars => Ownership'
<1> SUFFICES ASSUME Ownership, [ProcNext]_procVars PROVE Ownership'
    OBVIOUS
<1> USE ProcessAssumption
    DEF Ownership, ProcTypeOK, NoStalePid, PidsDistinct, DoomedForgotten, NoChildLost,
        StartedIsListed, Ended
<1>1. ASSUME NEW p \in Pids, NEW how \in Ended, ChildEnds(p, how) PROVE Ownership'
      BY <1>1 DEF ChildEnds
<1>2. ASSUME NEW i \in Procs, NEW p \in Pids, Fork(i, p) PROVE Ownership'
      BY <1>2 DEF Fork
<1>3. ASSUME NEW i \in Procs, ForkFails(i) PROVE Ownership'
      BY <1>3 DEF ForkFails
<1>4. ASSUME NEW i \in Procs, Register(i) PROVE Ownership'
      BY <1>4 DEF Register
<1>5. ASSUME NEW i \in Procs, Terminate(i) PROVE Ownership'
      BY <1>5 DEF Terminate, procVars
<1>6. ASSUME NEW i \in Procs, Kill(i) PROVE Ownership'
      BY <1>6 DEF Kill
<1>7. ASSUME OnSigchld PROVE Ownership'
      BY <1>7 DEF OnSigchld
<1>8. ASSUME NEW p \in Pids, Reap(p) PROVE Ownership'
      BY <1>8 DEF Reap, Owners
<1>9. ASSUME ReapNone PROVE Ownership'
      BY <1>9 DEF ReapNone
<1>10. ASSUME UNCHANGED procVars PROVE Ownership'
      BY <1>10 DEF procVars
<1>11. QED
      BY <1>1, <1>2, <1>3, <1>4, <1>5, <1>6, <1>7, <1>8, <1>9, <1>10
      DEF ProcNext, Aborted

\* An object leaves process::list with its child.
LEMMA ListedIsStartedStep ==
  ASSUME Ownership, ListedIsStarted, [ProcNext]_procVars
  PROVE  ListedIsStarted'
<1> USE ProcessAssumption
    DEF Ownership, ProcTypeOK, PidsDistinct, StartedIsListed, ListedIsStarted
<1>1. ASSUME NEW i \in Procs, Register(i) PROVE ListedIsStarted'
      BY <1>1 DEF Register
<1>2. ASSUME NEW i \in Procs, Kill(i) PROVE ListedIsStarted'
      BY <1>2 DEF Kill
<1>3. ASSUME NEW i \in Procs, NEW p \in Pids, Fork(i, p) PROVE ListedIsStarted'
      BY <1>3 DEF Fork
<1>4. ASSUME NEW p \in Pids, Reap(p) PROVE ListedIsStarted'
      BY <1>4 DEF Reap, Owners
<1>5. ASSUME UNCHANGED <<pid, processes>> PROVE ListedIsStarted'
      BY <1>5
<1>6. QED
      BY <1>1, <1>2, <1>3, <1>4, <1>5
      DEF ProcNext, ChildEnds, ForkFails, Terminate, OnSigchld, ReapNone, Aborted, procVars

\* onSigchld() does not stop before all children that have ended are reaped.
LEMMA ZombieStep ==
  Ownership /\ NoForgottenZombie /\ [ProcNext]_procVars => NoForgottenZombie'
<1> SUFFICES ASSUME Ownership, NoForgottenZombie, [ProcNext]_procVars
             PROVE  NoForgottenZombie'
    OBVIOUS
<1> USE DEF Ownership, ProcTypeOK, NoForgottenZombie, Ended
<1>1. ASSUME NEW p \in Pids, NEW how \in Ended, ChildEnds(p, how) PROVE NoForgottenZombie'
      BY <1>1 DEF ChildEnds
<1>2. ASSUME NEW p \in Pids, Reap(p) PROVE NoForgottenZombie'
      BY <1>2 DEF Reap
<1>3. ASSUME NEW i \in Procs, NEW p \in Pids, Fork(i, p) PROVE NoForgottenZombie'
      BY <1>3 DEF Fork
<1>4. CASE OnSigchld \/ ReapNone
      BY <1>4 DEF OnSigchld, ReapNone
<1>5. ASSUME UNCHANGED <<child, unheard, sigchld>>, loop # "reaping"
      PROVE  NoForgottenZombie'
      BY <1>5
<1>6. CASE UNCHANGED procVars
      BY <1>6 DEF procVars
<1>7. QED
      BY <1>1, <1>2, <1>3, <1>4, <1>5, <1>6
      DEF ProcNext, ForkFails, Register, Terminate, Kill, Aborted

LEMMA ProcStepInv == ProcInv /\ [ProcNext]_procVars => ProcInv'
<1> SUFFICES ASSUME ProcInv, [ProcNext]_procVars PROVE ProcInv'
    OBVIOUS
<1>1. Ownership'
      BY OwnershipStep DEF ProcInv
<1>2. ListedIsStarted'
      BY ListedIsStartedStep DEF ProcInv
<1>3. NoForgottenZombie'
      BY ZombieStep DEF ProcInv
<1>4. QED  BY <1>1, <1>2, <1>3 DEF ProcInv

THEOREM ProcInvariant == ProcSafety => []ProcInv
BY ProcInitInv, ProcStepInv, PTL DEF ProcSafety

\* Type correctness of every behaviour of the class.
THEOREM ProcTypeCorrect == ProcSafety => []ProcTypeOK
<1>1. ProcInv => ProcTypeOK
      BY DEF ProcInv, Ownership
<1>2. QED  BY <1>1, ProcInvariant, PTL

\* No object ever holds, and so no signal ever goes to, a pid whose child has been
\* reaped and that the kernel may have given to somebody else.
THEOREM ProcNoStalePid == ProcSafety => []NoStalePid
<1>1. ProcInv => NoStalePid
      BY DEF ProcInv, Ownership
<1>2. QED  BY <1>1, ProcInvariant, PTL

LEMMA OneOwner == Ownership => ChildHasOneOwner
<1> SUFFICES ASSUME Ownership, NEW p \in Pids, child[p] # "none", p \notin doomed
             PROVE  \E i \in Procs : \A j \in Procs : pid[j] = p <=> j = i
    BY DEF Ownership, DoomedForgotten, ChildHasOneOwner
<1>1. PICK i \in Procs : pid[i] = p
      BY DEF Ownership, NoChildLost
<1>2. p # NoPid
      BY ProcessAssumption
<1>3. QED  BY <1>1, <1>2 DEF Ownership, PidsDistinct

\* Every unreaped child has exactly one owner, or was killed and has none.
THEOREM ProcOneOwner == ProcSafety => []ChildHasOneOwner
<1>1. ProcInv => ChildHasOneOwner
      BY OneOwner DEF ProcInv
<1>2. QED  BY <1>1, ProcInvariant, PTL

\* The end of a child whose SIGCHLD is caught never goes unnoticed, although signals
\* merge and onSigchld forgets none.
THEOREM ProcNoForgottenZombie == ProcSafety => []NoForgottenZombie
<1>1. ProcInv => NoForgottenZombie
      BY DEF ProcInv
<1>2. QED  BY <1>1, ProcInvariant, PTL
=============================================================================
