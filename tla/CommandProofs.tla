---------------------------- MODULE CommandProofs ----------------------------
(***************************************************************************)
(* Proofs about Command, for any users and groups, jobs and commands: for  *)
(* which events a command is executed, with which arguments and as whom.   *)
(*                                                                         *)
(* That the identity is right at execve() is a fact about one state.  It   *)
(* follows from what each step of impersonate() has left behind, which     *)
(* IdentityInv says of every state in between; and that a command is there *)
(* at all, and root's has a user, from what the constructor saw long       *)
(* before.                                                                 *)
(***************************************************************************)
EXTENDS Command, DataLemmas

\* What the child is after fork(), and what it is to become.
Own       == [uid |-> self, gid |-> self, groups |-> "program"]
IsUser(c) == c.uid = user.uid /\ c.gid = user.gid /\ c.groups # "program"

InChild == {"child", "groups", "gid", "execve", "executed"}

IdentityType ==
  /\ self \in Ids
  /\ command \in BOOLEAN
  /\ user \in Users \union {NoUser}
  /\ cred \in [uid : Ids, gid : Ids, groups : {"program", "user", "changed"}]

\* How far impersonate() has come.
Progressing ==
  /\ where \notin {"groups", "gid", "execve", "executed", "exited"} => cred = Own
  /\ where \in {"child", "groups", "gid"} => user # NoUser
  /\ where \in {"groups", "gid"} => cred.groups # "program"
  /\ where = "gid" => cred.gid = user.gid
  /\ where \in {"execve", "executed"} => IF user = NoUser THEN cred = Own ELSE IsUser(cred)

\* What the hook's constructor and hook::execute() have made sure of.
Checked ==
  /\ where \notin {"new", "thrown"} /\ NeedUser => user # NoUser
  /\ where \in InChild \union {"scheduled"} => command

IdentityInv == IdentityType /\ Progressing /\ Checked

\* Nothing has been looked up, and no child forked.
LEMMA CommandInitIdentity == CommandInit => IdentityInv
BY CommandAssumption DEF CommandInit, IdentityInv, IdentityType, Progressing, Checked, Own,
   InChild, NoUser, NeedUser

\* Every step of the program and of the child.
LEMMA CommandStepIdentity == IdentityInv /\ [CommandNext]_vars => IdentityInv'
<1> SUFFICES ASSUME IdentityInv, [CommandNext]_vars PROVE IdentityInv'
    OBVIOUS
<1> USE DEF IdentityInv, IdentityType, Progressing, Checked, Own, IsUser, InChild, NeedUser,
            configVars, eventVars, lineVars, Goes
<1>1. CASE UNCHANGED vars
      BY <1>1 DEF vars
<1>2. ASSUME NEW u \in Users \union {NoUser}, Configure(u) PROVE IdentityInv'
      BY <1>2 DEF Configure
<1>3. CASE ConfigureThrows
      BY <1>3 DEF ConfigureThrows
<1>4. CASE DebugHookThrows
      BY <1>4 DEF DebugHookThrows, ConfigureThrows
<1>5. ASSUME NEW pipeline \in BOOLEAN, NEW status \in Statuses \union {Missing},
             ReadEvent(pipeline, status)
      PROVE  IdentityInv'
      BY <1>5 DEF ReadEvent
<1>6. CASE FieldThrows
      BY <1>6 DEF FieldThrows
<1>7. ASSUME NEW job \in Jobs, Build(job) PROVE IdentityInv'
  <2>1. UNCHANGED configVars /\ UNCHANGED cred /\ where = "builds" /\ where' \in {"builds", "thrown"}
        BY <1>7 DEF Build
  <2>   QED BY <2>1
<1>8. CASE EndOfBuilds
      BY <1>8 DEF EndOfBuilds
<1>9. CASE NoCommand
      BY <1>9 DEF NoCommand
<1>10. ASSUME NEW text \in Lines, Execute(text)
       PROVE  IdentityInv'
  <2>1. UNCHANGED configVars /\ UNCHANGED cred /\ where = "matched" /\ where' = "scheduled" /\ command
        BY <1>10 DEF Execute
  <2>   QED BY <2>1
<1>11. CASE Fork
       BY <1>11 DEF Fork
<1>12. CASE InitGroups
  <2>1. user \in Users
        BY <1>12 DEF InitGroups
  <2>2. cred' \in [uid : Ids, gid : Ids, groups : {"program", "user", "changed"}]
        /\ cred'.groups # "program"
        BY <1>12, <2>1 DEF InitGroups, Users
  <2>   QED BY <1>12, <2>2 DEF InitGroups
<1>13. CASE SetGid
  <2>1. user \in Users
        BY <1>13 DEF SetGid
  <2>2. /\ cred' \in [uid : Ids, gid : Ids, groups : {"program", "user", "changed"}]
        /\ cred'.groups # "program" /\ cred'.gid = user.gid
        BY <1>13, <2>1 DEF SetGid, Users
  <2>   QED BY <1>13, <2>2 DEF SetGid
<1>14. CASE SetUid
  <2>1. user \in Users
        BY <1>14 DEF SetUid
  <2>2. IsUser(cred') /\ cred' \in [uid : Ids, gid : Ids, groups : {"program", "user", "changed"}]
        BY <1>14, <2>1 DEF SetUid, Users
  <2>   QED BY <1>14, <2>2 DEF SetUid
<1>15. CASE ChildFails
       BY <1>15 DEF ChildFails
<1>16. CASE Execve
       BY <1>16 DEF Execve
<1>17. CASE Over
       BY <1>17 DEF Over, vars
<1>18. QED
       BY <1>1, <1>2, <1>3, <1>4, <1>5, <1>6, <1>7, <1>8, <1>9, <1>10, <1>11, <1>12, <1>13, <1>14,
          <1>15, <1>16, <1>17 DEF CommandNext

\* The identity is tracked from configuration to execve().
THEOREM CommandIdentity == CommandSpec => []IdentityInv
BY CommandInitIdentity, CommandStepIdentity, PTL DEF CommandSpec

\* user_group::impersonate(): a command with a configured user executes with his uid
\* and gid, and without the program's additional groups, whichever step may fail.
THEOREM CommandRunsAsConfigured == CommandSpec => []RunsAsConfigured
<1>1. IdentityInv => RunsAsConfigured
      BY DEF IdentityInv, Progressing, RunsAsConfigured, IsUser
<1>   QED BY <1>1, CommandIdentity, PTL

\* hook::hook(): root's commands are executed as root only if root is configured.
THEOREM CommandRootOnlyExplicitly == CommandSpec => []RootOnlyExplicitly
<1>1. IdentityInv => RootOnlyExplicitly
      BY DEF IdentityInv, Progressing, Checked, NeedUser, InChild, Own, IsUser, RootOnlyExplicitly
<1>   QED BY <1>1, CommandIdentity, PTL
-----------------------------------------------------------------------------
(* pipeline_hook::process() *)

\* What the loop has found in the jobs that it has been through.
AsMatched ==
  /\ ToSet(jobIds) = Matching
  /\ \A k, n \in DOMAIN jobIds : k < n => jobIds[k] < jobIds[n]
  /\ \A n \in DOMAIN jobIds : jobNames[n] = builds[jobIds[n]].name

JobLists ==
  /\ builds \in Seq(Jobs) /\ Len(builds) <= MaxBuilds
  /\ jobIds \in Seq(1 .. Len(builds))
  /\ jobNames \in Seq(wanted) /\ Len(jobNames) = Len(jobIds)

JobsInv ==
  /\ JobLists
  /\ where \in {"new", "ready"} => builds = <<>> /\ jobIds = <<>> /\ jobNames = <<>>
  /\ where \in {"builds", "matched"} => Fits /\ AsMatched
  /\ where = "matched" => jobIds # <<>>
  /\ where = "ignored" => ~Fits \/ Matching = {} \/ ~command

LEMMA NoJobs ==
  ASSUME builds = <<>>, jobIds = <<>>, jobNames = <<>>
  PROVE  JobLists /\ AsMatched /\ Matching = {}
<1>1. DOMAIN <<>> = {} /\ Len(<<>>) = 0 /\ \A S : <<>> \in Seq(S)
      BY EmptySeq
<1>2. Matching = {} /\ ToSet(jobIds) = {}
      BY <1>1 DEF Matching, ToSet
<1>3. AsMatched
      BY <1>1, <1>2 DEF AsMatched
<1>4. JobLists
      BY <1>1, CommandAssumption DEF JobLists
<1>5. QED  BY <1>2, <1>3, <1>4

\* A job that does not match leaves the lists alone; one that does is appended to both.
LEMMA BuildStep ==
  ASSUME JobsInv, NEW job \in Jobs, Build(job)
  PROVE  JobsInv'
<1>1. PICK k \in Nat : k = Len(builds) /\ DOMAIN builds = 1 .. k
      BY LenProperties DEF JobsInv, JobLists
<1>2. /\ where = "builds" /\ where' \in {"builds", "thrown"}
      /\ UNCHANGED <<wanted, event, statuses>> /\ Fits /\ AsMatched
      BY DEF Build, JobsInv
<1>3. /\ builds' \in Seq(Jobs) /\ Len(builds') = k + 1 /\ DOMAIN builds' = 1 .. k + 1
      /\ \A n \in 1 .. k : builds'[n] = builds[n]
      /\ builds'[k + 1] = job
  <2>1. builds \in Seq(Jobs) /\ builds' = Append(builds, job)
        BY DEF JobsInv, JobLists, Build
  <2>2. /\ Append(builds, job) \in Seq(Jobs) /\ Len(Append(builds, job)) = k + 1
        /\ \A n \in 1 .. k : Append(builds, job)[n] = builds[n]
        /\ Append(builds, job)[k + 1] = job
        BY <1>1, <2>1, AppendProperties
  <2>3. QED  BY <2>1, <2>2, LenProperties
<1>4. k + 1 <= MaxBuilds
      BY <1>1, CommandAssumption DEF Build
<1>5. /\ \A n \in 1 .. k : n \in 1 .. k + 1 /\ n # k + 1
      /\ \A n \in 1 .. k + 1 : n = k + 1 \/ n \in 1 .. k
      /\ k + 1 \in 1 .. k + 1
      OBVIOUS
<1>6. PICK j \in Nat : j = Len(jobIds) /\ DOMAIN jobIds = 1 .. j /\ Len(jobNames) = j
      BY LenProperties DEF JobsInv, JobLists
<1>7. jobIds \in Seq(1 .. k) /\ jobNames \in Seq(wanted) /\ \A n \in 1 .. j : jobIds[n] \in 1 .. k
      BY <1>1, <1>6, ElementOfSeq DEF JobsInv, JobLists
<1>8. jobIds \in Seq(1 .. k + 1)
      BY <1>5, <1>7
<1>9. SUFFICES /\ jobIds' \in Seq(1 .. k + 1) /\ jobNames' \in Seq(wanted)
               /\ Len(jobNames') = Len(jobIds')
               /\ where' = "builds" => AsMatched'
  <2>1. Fits'
        BY <1>2 DEF Fits
  <2>2. JobLists'
        BY <1>2, <1>3, <1>4, <1>9 DEF JobLists
  <2>3. QED  BY <1>2, <1>9, <2>1, <2>2 DEF JobsInv
<1>10. \A n : n \in Matching' <=>
          n \in Matching \/ (n = k + 1 /\ job.name \in wanted /\ job.status = Success)
       BY <1>1, <1>2, <1>3, <1>5 DEF Matching
<1>11. CASE UNCHANGED <<jobIds, jobNames>> /\ ~(job.name \in wanted /\ job.status = Success)
  <2>1. Matching' = Matching
        BY <1>10, <1>11
  <2>2. AsMatched'
        BY <1>2, <1>3, <1>6, <1>7, <1>11, <2>1 DEF AsMatched
  <2>3. QED  BY <1>6, <1>7, <1>8, <1>11, <2>2
<1>12. CASE UNCHANGED <<jobIds, jobNames>> /\ where' = "thrown"
       BY <1>6, <1>7, <1>8, <1>12
<1>13. CASE /\ job.name \in wanted /\ job.status = Success
            /\ jobIds' = Append(jobIds, k + 1) /\ jobNames' = Append(jobNames, job.name)
  <2>1. /\ jobIds' \in Seq(1 .. k + 1) /\ Len(jobIds') = j + 1 /\ DOMAIN jobIds' = 1 .. j + 1
        /\ \A n \in 1 .. j : jobIds'[n] = jobIds[n]
        /\ jobIds'[j + 1] = k + 1
    <3>1. /\ Append(jobIds, k + 1) \in Seq(1 .. k + 1) /\ Len(Append(jobIds, k + 1)) = j + 1
          /\ \A n \in 1 .. j : Append(jobIds, k + 1)[n] = jobIds[n]
          /\ Append(jobIds, k + 1)[j + 1] = k + 1
          BY <1>5, <1>6, <1>8, AppendProperties
    <3>2. QED  BY <1>13, <3>1, LenProperties
  <2>2. /\ jobNames' \in Seq(wanted) /\ Len(jobNames') = j + 1
        /\ \A n \in 1 .. j : jobNames'[n] = jobNames[n]
        /\ jobNames'[j + 1] = job.name
    <3>1. /\ Append(jobNames, job.name) \in Seq(wanted) /\ Len(Append(jobNames, job.name)) = j + 1
          /\ \A n \in 1 .. j : Append(jobNames, job.name)[n] = jobNames[n]
          /\ Append(jobNames, job.name)[j + 1] = job.name
          BY <1>6, <1>7, <1>13, AppendProperties
    <3>2. QED  BY <1>13, <3>1
  <2>3. /\ \A n \in 1 .. j : n \in 1 .. j + 1
        /\ \A n \in 1 .. j + 1 : n = j + 1 \/ n \in 1 .. j
        /\ j + 1 \in 1 .. j + 1
        OBVIOUS
  <2>4. ToSet(jobIds') = Matching'
    <3>1. \A n : n \in ToSet(jobIds) <=> \E i \in 1 .. j : n = jobIds[i]
          BY <1>6 DEF ToSet
    <3>2. \A n : n \in ToSet(jobIds') <=> \E i \in 1 .. j + 1 : n = jobIds'[i]
          BY <2>1 DEF ToSet
    <3>3. \A n : n \in ToSet(jobIds') <=> n \in ToSet(jobIds) \/ n = k + 1
      <4>1. ASSUME NEW n \in ToSet(jobIds') PROVE n \in ToSet(jobIds) \/ n = k + 1
        <5>1. PICK i \in 1 .. j + 1 : n = jobIds'[i]
              BY <3>2
        <5>2. CASE i = j + 1
              BY <2>1, <5>1, <5>2
        <5>3. CASE i \in 1 .. j
          <6>1. n = jobIds[i]
                BY <2>1, <5>1, <5>3
          <6>2. QED  BY <3>1, <5>3, <6>1
        <5>4. QED  BY <2>3, <5>2, <5>3
      <4>2. ASSUME NEW n \in ToSet(jobIds) PROVE n \in ToSet(jobIds')
        <5>1. PICK i \in 1 .. j : n = jobIds[i]
              BY <3>1
        <5>2. n = jobIds'[i] /\ i \in 1 .. j + 1
              BY <2>1, <2>3, <5>1
        <5>3. QED  BY <3>2, <5>2
      <4>3. k + 1 \in ToSet(jobIds')
            BY <2>1, <2>3, <3>2
      <4>4. QED  BY <4>1, <4>2, <4>3
    <3>4. ToSet(jobIds) = Matching
          BY <1>2 DEF AsMatched
    <3>5. \A n : n \in ToSet(jobIds') <=> n \in Matching'
          BY <1>10, <1>13, <3>3, <3>4
    <3>6. QED  BY <3>5
  <2>5. \A i, n \in 1 .. j + 1 : i < n => jobIds'[i] < jobIds'[n]
    <3>  TAKE i, n \in 1 .. j + 1
    <3>  HAVE i < n
    <3>1. i \in 1 .. j
          OBVIOUS
    <3>2. CASE n \in 1 .. j
          BY <1>2, <1>6, <2>1, <3>1, <3>2 DEF AsMatched
    <3>3. CASE n = j + 1
      <4>1. jobIds'[n] = k + 1 /\ jobIds'[i] = jobIds[i]
            BY <2>1, <3>1, <3>3
      <4>2. jobIds[i] \in 1 .. k
            BY <1>7, <3>1
      <4>3. QED  BY <1>1, <4>1, <4>2
    <3>4. QED  BY <2>3, <3>2, <3>3
  <2>6. \A n \in 1 .. j + 1 : jobNames'[n] = builds'[jobIds'[n]].name
    <3>1. \A n \in 1 .. j : jobNames[n] = builds[jobIds[n]].name
          BY <1>2, <1>6 DEF AsMatched
    <3>2. QED  BY <1>3, <1>7, <2>1, <2>2, <2>3, <3>1
  <2>7. AsMatched'
        BY <2>1, <2>4, <2>5, <2>6 DEF AsMatched
  <2>8. QED  BY <2>1, <2>2, <2>7
<1>14. QED
  <2>1. Len(builds') = k + 1
        BY <1>3
  <2>2. CASE job.name \in wanted /\ job.status = Success /\ job.id # Missing
        BY <1>13, <2>1, <2>2 DEF Build
  <2>3. CASE job.name \in wanted /\ job.status = Success /\ job.id = Missing
        BY <1>12, <2>3 DEF Build
  <2>4. CASE ~(job.name \in wanted /\ job.status = Success)
        BY <1>11, <2>4 DEF Build
  <2>5. QED  BY <2>2, <2>3, <2>4

LEMMA JobsInvStep == JobsInv /\ [CommandNext]_vars => JobsInv'
<1>  SUFFICES ASSUME JobsInv, [CommandNext]_vars PROVE JobsInv'
     OBVIOUS
<1>1. ASSUME UNCHANGED <<command, eventVars>>,
             \/ where' = where
             \/ where' \notin {"new", "ready", "builds", "matched", "ignored"}
             \/ where = "new" /\ where' = "ready"
             \/ where = "builds" /\ where' = "ignored" /\ jobIds = <<>>
             \/ where = "builds" /\ where' = "matched" /\ jobIds # <<>>
             \/ where = "matched" /\ where' = "ignored" /\ ~command
      PROVE  JobsInv'
  <2>1. UNCHANGED <<statuses, wanted, event, builds, jobIds, jobNames>>
        BY <1>1 DEF eventVars
  <2>2. JobLists' /\ Fits' = Fits /\ Matching' = Matching /\ AsMatched' = AsMatched
        BY <2>1 DEF JobsInv, JobLists, Fits, Matching, AsMatched
  <2>3. where = "builds" /\ jobIds = <<>> => Matching = {}
    <3>1. jobIds = <<>> => ToSet(jobIds) = {}
          BY EmptySeq DEF ToSet
    <3>2. QED  BY <3>1 DEF JobsInv, AsMatched
  <2>4. QED  BY <1>1, <2>1, <2>2, <2>3 DEF JobsInv
<1>50. DOMAIN <<>> = {} /\ Len(<<>>) = 0 /\ \A S : <<>> \in Seq(S)
      BY EmptySeq
<1>2. ASSUME NEW u \in Users \union {NoUser}, Configure(u) PROVE JobsInv'
      BY <1>1, <1>2 DEF Configure, Goes
<1>3. CASE ConfigureThrows \/ DebugHookThrows \/ FieldThrows
      BY <1>1, <1>3 DEF ConfigureThrows, DebugHookThrows, FieldThrows, Goes, configVars
<1>4. ASSUME NEW pipeline \in BOOLEAN, NEW status \in Statuses \union {Missing},
             ReadEvent(pipeline, status)
      PROVE  JobsInv'
  <2>1. builds' = <<>> /\ jobIds' = <<>> /\ jobNames' = <<>>
        BY <1>4 DEF ReadEvent, JobsInv
  <2>2. JobLists' /\ AsMatched' /\ Matching' = {}
    <3>1. DOMAIN builds' = {} /\ DOMAIN jobIds' = {} /\ DOMAIN jobNames' = {} /\ Len(builds') = 0
          BY <1>50, <2>1
    <3>2. Matching' = {}
          BY <3>1 DEF Matching
    <3>3. ToSet(jobIds') = {}
          BY <3>1 DEF ToSet
    <3>4. AsMatched'
          BY <3>1, <3>2, <3>3 DEF AsMatched
    <3>5. JobLists'
          BY <1>50, <2>1, CommandAssumption DEF JobLists
    <3>6. QED  BY <3>2, <3>4, <3>5
  <2>3. where' \in {"builds", "ignored", "thrown"}
        BY <1>4 DEF ReadEvent
  <2>4. where' = "builds" => Fits'
        BY <1>4 DEF ReadEvent, Fits
  <2>5. QED  BY <2>2, <2>3, <2>4 DEF JobsInv
<1>5. ASSUME NEW job \in Jobs, Build(job) PROVE JobsInv'
      BY <1>5, BuildStep
<1>6. CASE EndOfBuilds
      BY <1>1, <1>6 DEF EndOfBuilds, Goes, configVars
<1>7. CASE NoCommand
      BY <1>1, <1>7 DEF NoCommand, Goes, configVars
<1>8. ASSUME NEW text \in Lines, Execute(text)
      PROVE  JobsInv'
  <2>1. builds' = <<>> /\ jobIds' = <<>> /\ jobNames' = <<>> /\ where' = "scheduled"
        BY <1>8 DEF Execute, Goes
  <2>2. JobLists'
        BY <1>50, <2>1, CommandAssumption DEF JobLists
  <2>3. QED  BY <2>1, <2>2 DEF JobsInv
<1>9. CASE Fork \/ InitGroups \/ SetGid \/ SetUid \/ ChildFails \/ Execve
      BY <1>1, <1>9 DEF Fork, InitGroups, SetGid, SetUid, ChildFails, Execve, Goes, configVars
<1>10. CASE Over \/ UNCHANGED vars
       BY <1>1, <1>10 DEF Over, vars, configVars
<1>11. QED  BY <1>2, <1>3, <1>4, <1>5, <1>6, <1>7, <1>8, <1>9, <1>10 DEF CommandNext

\* The loop over the jobs of an event leaves exactly those that match.
THEOREM CommandJobs == CommandSpec => []JobsInv
<1>1. CommandInit => JobsInv
  <2>1. CommandInit => JobLists
        BY NoJobs DEF CommandInit
  <2>2. QED  BY <2>1 DEF CommandInit, JobsInv
<1>2. QED  BY <1>1, JobsInvStep, PTL DEF CommandSpec

\* pipeline_hook::process(): the command is executed for the events that fit, and
\* with exactly the matching jobs, ids and names in step.
THEOREM CommandJobsAreTheMatching == CommandSpec => []JobsAreTheMatching
<1>1. ASSUME JobsInv PROVE JobsAreTheMatching
  <2>1. ASSUME where = "matched"
        PROVE  /\ Matching # {}
               /\ jobNames = [n \in DOMAIN jobIds |-> builds[jobIds[n]].name]
    <3>1. PICK j \in Nat : DOMAIN jobIds = 1 .. j /\ DOMAIN jobNames = 1 .. j /\ Len(jobIds) = j
          BY <1>1, LenProperties DEF JobsInv, JobLists
    <3>2. jobNames = [n \in 1 .. j |-> jobNames[n]]
          BY <1>1, <3>1, LenProperties DEF JobsInv, JobLists
    <3>3. AsMatched /\ jobIds # <<>>
          BY <1>1, <2>1 DEF JobsInv
    <3>4. j # 0
          BY <1>1, <3>1, <3>3, EmptySeq DEF JobsInv, JobLists
    <3>5. jobIds[1] \in ToSet(jobIds)
          BY <3>1, <3>4 DEF ToSet
    <3>6. QED  BY <3>1, <3>2, <3>3, <3>5 DEF AsMatched
  <2>2. QED  BY <1>1, <2>1 DEF JobsInv, AsMatched, JobsAreTheMatching
<1>2. QED  BY <1>1, CommandJobs, PTL

-----------------------------------------------------------------------------
(* split_command() *)

LEMMA ConcatToSet ==
  ASSUME NEW S, NEW s \in Seq(S), NEW t \in Seq(S)
  PROVE  ToSet(s \o t) = ToSet(s) \union ToSet(t)
<1>1. PICK a, b \in Nat : a = Len(s) /\ DOMAIN s = 1 .. a /\ b = Len(t) /\ DOMAIN t = 1 .. b
      BY LenProperties
<1>2. /\ DOMAIN (s \o t) = 1 .. a + b
      /\ \A i \in 1 .. a + b : (s \o t)[i] = IF i <= a THEN s[i] ELSE t[i - a]
      BY <1>1, ConcatProperties, LenProperties
<1>3. ASSUME NEW e \in ToSet(s \o t) PROVE e \in ToSet(s) \union ToSet(t)
  <2>1. PICK i \in 1 .. a + b : e = (s \o t)[i]
        BY <1>2 DEF ToSet
  <2>2. CASE i <= a
        BY <1>1, <1>2, <2>1, <2>2 DEF ToSet
  <2>3. CASE ~(i <= a)
    <3>1. i - a \in 1 .. b
          BY <2>3
    <3>2. QED  BY <1>1, <1>2, <2>1, <2>3, <3>1 DEF ToSet
  <2>4. QED  BY <2>2, <2>3
<1>4. ASSUME NEW e \in ToSet(s) PROVE e \in ToSet(s \o t)
  <2>1. PICK i \in 1 .. a : e = s[i]
        BY <1>1 DEF ToSet
  <2>2. i \in 1 .. a + b /\ i <= a
        OBVIOUS
  <2>3. QED  BY <1>2, <2>1, <2>2 DEF ToSet
<1>5. ASSUME NEW e \in ToSet(t) PROVE e \in ToSet(s \o t)
  <2>1. PICK i \in 1 .. b : e = t[i]
        BY <1>1 DEF ToSet
  <2>2. a + i \in 1 .. a + b /\ ~(a + i <= a) /\ (a + i) - a = i
        OBVIOUS
  <2>3. e = (s \o t)[a + i]
        BY <1>2, <2>1, <2>2
  <2>4. QED  BY <1>2, <2>2, <2>3 DEF ToSet
<1>6. QED  BY <1>3, <1>4, <1>5

\* find_first_not_of() and find_first_of() from some place on: where they stop, and
\* what lies before.
StopsAt(text, n, blank, place) ==
  /\ place \in n .. Len(text) + 1
  /\ place = Len(text) + 1 \/ (text[place] = "blank") = blank
  /\ \A k \in n .. Len(text) : k < place => (text[k] = "blank") # blank

LEMMA NextPlaceIs ==
  ASSUME NEW text, Len(text) \in Nat, NEW n \in 1 .. Len(text) + 1, NEW blank \in BOOLEAN
  PROVE  StopsAt(text, n, blank, NextPlace(text, n, blank))
<1>  DEFINE here  == {k \in n .. Len(text) : (text[k] = "blank") = blank} \union {Len(text) + 1}
            least == CHOOSE k \in here : \A l \in here : k <= l
<1>1. NextPlace(text, n, blank) = least
      BY DEF NextPlace
<1>2. here \in SUBSET (n .. Len(text) + 1) /\ here \in SUBSET Nat /\ Len(text) + 1 \in here
      OBVIOUS
<1>3. \E k \in here : \A l \in here : k <= l
      BY <1>2, LeastElement
<1>4. least \in here /\ \A l \in here : least <= l
      BY <1>3
<1>  HIDE DEF least
<1>5. \A k \in n .. Len(text) : k < least => k \notin here
      BY <1>2, <1>4
<1>6. \A k \in n .. Len(text) : k < least => ~((text[k] = "blank") = blank)
      BY <1>5
<1>7. least = Len(text) + 1 \/ (text[least] = "blank") = blank
      BY <1>4
<1>8. QED  BY <1>1, <1>2, <1>4, <1>6, <1>7 DEF StopsAt

LEMMA NextWord ==
  ASSUME NEW text, NEW m \in Nat, Len(text) = m, NEW n \in 1 .. m + 1
  PROVE  /\ NextPlace(text, n, FALSE) \in n .. m + 1
         /\ NextPlace(text, n, FALSE) # m + 1 => text[NextPlace(text, n, FALSE)] # "blank"
         /\ \A k \in n .. m : k < NextPlace(text, n, FALSE) => text[k] = "blank"
<1>1. StopsAt(text, n, FALSE, NextPlace(text, n, FALSE))
      BY NextPlaceIs, Zenon
<1>2. QED  BY <1>1 DEF StopsAt

LEMMA NextBlank ==
  ASSUME NEW text, NEW m \in Nat, Len(text) = m, NEW n \in 1 .. m + 1
  PROVE  /\ NextPlace(text, n, TRUE) \in n .. m + 1
         /\ NextPlace(text, n, TRUE) # m + 1 => text[NextPlace(text, n, TRUE)] = "blank"
         /\ \A k \in n .. m : k < NextPlace(text, n, TRUE) => text[k] # "blank"
<1>1. StopsAt(text, n, TRUE, NextPlace(text, n, TRUE))
      BY NextPlaceIs, Zenon
<1>2. QED  BY <1>1 DEF StopsAt

Start(text, n) == NextPlace(text, n, FALSE)
Stop(text, n)  == NextPlace(text, Start(text, n), TRUE)

LEMMA StartAndStop ==
  ASSUME NEW text, NEW m \in Nat, Len(text) = m, NEW n \in 1 .. m + 1
  PROVE  /\ Start(text, n) \in n .. m + 1
         /\ Start(text, n) # m + 1 =>
              /\ Start(text, n) \in n .. m
              /\ Stop(text, n) \in Start(text, n) + 1 .. m + 1
<1>1. Start(text, n) \in n .. m + 1 /\ (Start(text, n) # m + 1 => text[Start(text, n)] # "blank")
      BY NextWord DEF Start
<1>2. Start(text, n) \in 1 .. m + 1
      BY <1>1
<1>3. /\ Stop(text, n) \in Start(text, n) .. m + 1
      /\ Stop(text, n) # m + 1 => text[Stop(text, n)] = "blank"
      BY <1>2, NextBlank DEF Stop
<1>4. Start(text, n) # m + 1 => Stop(text, n) # Start(text, n)
      BY <1>1, <1>3
<1>5. QED  BY <1>1, <1>3, <1>4

\* One call of split_command()'s function.
Chop(text, f, n) ==
  IF Start(text, n) > Len(text) THEN <<>>
  ELSE <<<<Start(text, n), Stop(text, n) - 1>>>> \o f[Stop(text, n)]

IsSplit(text, f, low) ==
  f = [n \in low .. Len(text) + 1 |-> Chop(text, f, n)]

\* What follows does not depend on what comes before.
LEMMA ChopAhead ==
  ASSUME NEW text, NEW m \in Nat, Len(text) = m, NEW n \in 1 .. m + 1, NEW f, NEW g,
         \A k \in n + 1 .. m + 1 : f[k] = g[k]
  PROVE  Chop(text, f, n) = Chop(text, g, n)
<1>1. CASE Start(text, n) = m + 1
  <2>1. Start(text, n) > Len(text)
        BY <1>1
  <2>2. QED  BY <2>1 DEF Chop
<1>2. CASE Start(text, n) # m + 1
  <2>1. Stop(text, n) \in n + 1 .. m + 1
        BY <1>2, StartAndStop
  <2>2. f[Stop(text, n)] = g[Stop(text, n)]
        BY <2>1
  <2>3. QED  BY <2>2, Zenon DEF Chop
<1>3. QED  BY <1>1, <1>2

\* The function exists: from the end of the text to its beginning.
LEMMA SplitExists ==
  ASSUME NEW text, NEW m \in Nat, Len(text) = m
  PROVE  \E f : IsSplit(text, f, 1)
<1>  DEFINE Good == {d \in 0 .. m : \E f : IsSplit(text, f, m + 1 - d)}
<1>1. 0 \in Good
  <2>  DEFINE f == [n \in m + 1 .. m + 1 |-> <<>>]
  <2>1. \A n \in m + 1 .. m + 1 : Chop(text, f, n) = <<>>
    <3>  TAKE n \in m + 1 .. m + 1
    <3>1. n \in 1 .. m + 1
          OBVIOUS
    <3>2. Start(text, n) \in n .. m + 1
          BY <3>1, StartAndStop
    <3>3. Start(text, n) > Len(text)
          BY <3>2
    <3>4. QED  BY <3>3 DEF Chop
  <2>  HIDE DEF f
  <2>2. f = [n \in m + 1 .. m + 1 |-> Chop(text, f, n)]
        BY <2>1 DEF f
  <2>3. IsSplit(text, f, m + 1 - 0)
        BY <2>2 DEF IsSplit
  <2>4. QED  BY <2>3
<1>2. ASSUME NEW d \in 0 .. m - 1, d \in Good PROVE d + 1 \in Good
  <2>  DEFINE low == m + 1 - d
  <2>1. PICK f : IsSplit(text, f, low)
        BY <1>2
  <2>2. low \in 2 .. m + 1 /\ low - 1 \in 1 .. m /\ m + 1 - (d + 1) = low - 1 /\ d + 1 \in 0 .. m
        OBVIOUS
  <2>   HIDE DEF low
  <2>   DEFINE g == [n \in low - 1 .. m + 1 |-> IF n < low THEN Chop(text, f, n) ELSE f[n]]
  <2>3. \A n \in low .. m + 1 : f[n] = Chop(text, f, n)
        BY <2>1 DEF IsSplit
  <2>4. \A n \in low - 1 .. m + 1 : g[n] = Chop(text, f, n)
        BY <2>2, <2>3
  <2>5. \A k \in low .. m + 1 : g[k] = f[k]
        BY <2>2
  <2>   HIDE DEF g
  <2>6. ASSUME NEW n \in low - 1 .. m + 1 PROVE Chop(text, f, n) = Chop(text, g, n)
    <3>1. n \in 1 .. m + 1 /\ \A k \in n + 1 .. m + 1 : k \in low .. m + 1
          BY <2>2
    <3>2. \A k \in n + 1 .. m + 1 : f[k] = g[k]
          BY <2>5, <3>1
    <3>3. QED  BY <3>1, <3>2, ChopAhead
  <2>7. g = [n \in low - 1 .. m + 1 |-> Chop(text, g, n)]
    <3>1. g = [n \in low - 1 .. m + 1 |-> g[n]]
          BY DEF g
    <3>2. QED  BY <2>4, <2>6, <3>1
  <2>8. IsSplit(text, g, low - 1)
        BY <2>7 DEF IsSplit
  <2>9. QED  BY <2>2, <2>8
<1>  HIDE DEF Good
<1>3. m \in Good
  <2>1. \A d \in 0 .. m : d \in Good
        BY <1>1, <1>2, Induction
  <2>2. QED  BY <2>1
<1>4. QED
  <2>1. m + 1 - m = 1
        OBVIOUS
  <2>2. QED  BY <1>3, <2>1 DEF Good

\* So split_command() is the function's value at the first place.
LEMMA SplitIs ==
  ASSUME NEW text, NEW m \in Nat, Len(text) = m
  PROVE  \E f : IsSplit(text, f, 1) /\ SplitCommand(text) = f[1]
<1>  DEFINE split == CHOOSE f : IsSplit(text, f, 1)
<1>1. IsSplit(text, split, 1)
      BY SplitExists
<1>2. SplitCommand(text) = split[1]
      BY Zenon DEF SplitCommand, IsSplit, Chop, Start, Stop
<1>3. QED  BY <1>1, <1>2
\* Places at which the function is called: none is within a word.
Clean(text, n) ==
  n = 1 \/ n = Len(text) + 1 \/ text[n - 1] = "blank" \/ text[n] = "blank"

Places(text) == (1 .. Len(text)) \X (1 .. Len(text))

WordsFrom(text, n) == {w \in Words(text) : n <= w[1]}

\* The words that begin at or behind a place, in their order.
AreWordsFrom(words, text, n) ==
  /\ words \in Seq(Places(text))
  /\ ToSet(words) = WordsFrom(text, n)
  /\ \A k, i \in DOMAIN words : k < i => words[k][1] < words[i][1]

LEMMA WordOf ==
  ASSUME NEW text, NEW m \in Nat, Len(text) = m, DOMAIN text = 1 .. m
  PROVE  /\ \A w \in Words(text) :
              /\ w \in Places(text)
              /\ w[1] \in 1 .. m /\ w[2] \in 1 .. m /\ w[1] <= w[2] /\ w = <<w[1], w[2]>>
              /\ \A n \in 1 .. m : w[1] <= n /\ n <= w[2] => text[n] # "blank"
              /\ w[1] > 1 => text[w[1] - 1] = "blank"
              /\ w[2] < m => text[w[2] + 1] = "blank"
         /\ \A a, b \in 1 .. m :
              /\ a <= b /\ \A n \in a .. b : text[n] # "blank"
              /\ a > 1 => text[a - 1] = "blank"
              /\ b < m => text[b + 1] = "blank"
              => <<a, b>> \in Words(text)
<1>1. ASSUME NEW w \in Words(text)
      PROVE  /\ w \in Places(text)
             /\ w[1] \in 1 .. m /\ w[2] \in 1 .. m /\ w[1] <= w[2] /\ w = <<w[1], w[2]>>
             /\ \A n \in 1 .. m : w[1] <= n /\ n <= w[2] => text[n] # "blank"
             /\ w[1] > 1 => text[w[1] - 1] = "blank"
             /\ w[2] < m => text[w[2] + 1] = "blank"
  <2>1. /\ w \in (1 .. m) \X (1 .. m)
        /\ w[1] <= w[2] /\ \A n \in w[1] .. w[2] : text[n] # "blank"
        /\ w[1] > 1 => text[w[1] - 1] = "blank"
        /\ w[2] < m => text[w[2] + 1] = "blank"
        BY DEF Words
  <2>2. w[1] \in 1 .. m /\ w[2] \in 1 .. m /\ w = <<w[1], w[2]>>
        BY <2>1
  <2>3. \A n \in 1 .. m : w[1] <= n /\ n <= w[2] => n \in w[1] .. w[2]
        BY <2>2
  <2>4. QED  BY <2>1, <2>2, <2>3 DEF Places
<1>2. ASSUME NEW a \in 1 .. m, NEW b \in 1 .. m,
             a <= b /\ \A n \in a .. b : text[n] # "blank",
             a > 1 => text[a - 1] = "blank",
             b < m => text[b + 1] = "blank"
      PROVE  <<a, b>> \in Words(text)
      BY <1>2 DEF Words
<1>3. QED  BY <1>1, <1>2

\* Only blanks are left: no word begins there.
LEMMA NoWord ==
  ASSUME NEW text, NEW m \in Nat, Len(text) = m, DOMAIN text = 1 .. m,
         NEW n \in 1 .. m + 1, Start(text, n) = m + 1
  PROVE  WordsFrom(text, n) = {}
<1>1. \A k \in n .. m : text[k] = "blank"
  <2>1. \A k \in n .. m : k < Start(text, n) => text[k] = "blank"
        BY NextWord DEF Start
  <2>2. QED  BY <2>1
<1>2. ASSUME NEW w \in WordsFrom(text, n) PROVE FALSE
  <2>1. w[1] \in 1 .. m /\ w[1] <= w[2] /\ n <= w[1] /\ text[w[1]] # "blank"
    <3>1. w \in Words(text) /\ n <= w[1]
          BY DEF WordsFrom
    <3>2. /\ w[1] \in 1 .. m /\ w[2] \in 1 .. m /\ w[1] <= w[2]
          /\ \A i \in 1 .. m : w[1] <= i /\ i <= w[2] => text[i] # "blank"
          BY <3>1, WordOf
    <3>3. w[1] <= w[1]
          BY <3>2
    <3>4. QED  BY <3>1, <3>2, <3>3
  <2>2. w[1] \in n .. m
        BY <2>1
  <2>3. QED  BY <1>1, <2>1, <2>2
<1>3. QED  BY <1>2

\* Otherwise there is one word up to the next blank, and what begins behind that.
LEMMA OneWord ==
  ASSUME NEW text, NEW m \in Nat, Len(text) = m, DOMAIN text = 1 .. m,
         NEW n \in 1 .. m + 1, Clean(text, n), Start(text, n) # m + 1
  PROVE  /\ <<Start(text, n), Stop(text, n) - 1>> \in Places(text)
         /\ Clean(text, Stop(text, n))
         /\ WordsFrom(text, n) =
              {<<Start(text, n), Stop(text, n) - 1>>} \union WordsFrom(text, Stop(text, n))
<1>1. PICK a \in n .. m, s \in n + 1 .. m + 1 :
             a = Start(text, n) /\ s = Stop(text, n) /\ s \in a + 1 .. m + 1
  <2>1. Start(text, n) \in n .. m /\ Stop(text, n) \in Start(text, n) + 1 .. m + 1
        BY StartAndStop
  <2>2. Stop(text, n) \in n + 1 .. m + 1
        BY <2>1
  <2>3. QED  BY <2>1, <2>2
<1>2. /\ text[a] # "blank"
      /\ \A k \in n .. m : k < a => text[k] = "blank"
      BY <1>1, NextWord DEF Start
<1>3. a \in 1 .. m /\ a \in 1 .. m + 1
      OBVIOUS
<1>4. /\ s # m + 1 => text[s] = "blank"
      /\ \A k \in a .. m : k < s => text[k] # "blank"
  <2>1. s = NextPlace(text, a, TRUE)
        BY <1>1 DEF Stop
  <2>2. QED  BY <1>3, <2>1, NextBlank
<1>5. PICK b \in a .. m : s = b + 1 /\ b = s - 1 /\ b \in 1 .. m
      BY <1>1
<1>6. <<a, b>> \in Words(text)
  <2>1. \A k \in a .. b : k \in a .. m /\ k < s
        BY <1>5
  <2>2. a <= b /\ \A k \in a .. b : text[k] # "blank"
        BY <1>4, <1>5, <2>1
  <2>3. a > 1 => text[a - 1] = "blank"
    <3>1. CASE a = n
          BY <1>2, <3>1 DEF Clean
    <3>2. CASE a # n
      <4>1. a - 1 \in n .. m /\ a - 1 < a
            BY <3>2
      <4>2. QED  BY <1>2, <4>1
    <3>3. QED  BY <3>1, <3>2
  <2>4. b < m => text[b + 1] = "blank"
        BY <1>4, <1>5
  <2>5. QED  BY <1>3, <1>5, <2>2, <2>3, <2>4, WordOf
<1>7. Clean(text, s)
      BY <1>1, <1>4 DEF Clean
<1>8. ASSUME NEW w \in WordsFrom(text, n) PROVE w = <<a, b>> \/ w \in WordsFrom(text, s)
  <2>1. w \in Words(text) /\ n <= w[1]
        BY DEF WordsFrom
  <2>2. PICK c, d \in 1 .. m :
          /\ w[1] = c /\ w[2] = d /\ w = <<c, d>> /\ c <= d
          /\ \A k \in 1 .. m : c <= k /\ k <= d => text[k] # "blank"
          /\ c > 1 => text[c - 1] = "blank"
          /\ d < m => text[d + 1] = "blank"
        BY <2>1, WordOf
  <2>3. CASE s <= c
        BY <2>1, <2>2, <2>3 DEF WordsFrom
  <2>4. CASE c < s
    <3>1. a <= c
      <4>1. c \in n .. m /\ text[c] # "blank"
            BY <2>1, <2>2
      <4>2. QED  BY <1>2, <4>1
    <3>2. ~(a < c)
      <4>1. SUFFICES ASSUME a < c PROVE FALSE
            OBVIOUS
      <4>2. c - 1 \in a .. m /\ c - 1 < s /\ c > 1
            BY <2>4, <4>1
      <4>3. QED  BY <1>4, <2>2, <4>2
    <3>3. c = a
          BY <3>1, <3>2
    <3>4. ~(d < b)
      <4>1. SUFFICES ASSUME d < b PROVE FALSE
            OBVIOUS
      <4>2. d + 1 \in a .. m /\ d + 1 < s /\ d < m
            BY <1>5, <2>2, <3>3, <4>1
      <4>3. QED  BY <1>4, <2>2, <4>2
    <3>5. ~(b < d)
      <4>1. SUFFICES ASSUME b < d PROVE FALSE
            OBVIOUS
      <4>2. s \in 1 .. m /\ c <= s /\ s <= d /\ s # m + 1
            BY <1>5, <2>2, <2>4, <4>1
      <4>3. QED  BY <1>4, <2>2, <4>2
    <3>6. d = b
          BY <3>4, <3>5
    <3>7. QED  BY <2>2, <3>3, <3>6
  <2>5. QED  BY <2>3, <2>4
<1>9. <<a, b>> \in WordsFrom(text, n)
      BY <1>6 DEF WordsFrom
<1>10. ASSUME NEW w \in WordsFrom(text, s) PROVE w \in WordsFrom(text, n)
  <2>1. w \in Words(text) /\ s <= w[1]
        BY DEF WordsFrom
  <2>2. w[1] \in 1 .. m
        BY <2>1, WordOf
  <2>3. n <= w[1]
        BY <2>1, <2>2
  <2>4. QED  BY <2>1, <2>3 DEF WordsFrom
<1>11. WordsFrom(text, n) = {<<a, b>>} \union WordsFrom(text, s)
       BY <1>8, <1>9, <1>10
<1>12. <<a, b>> \in Places(text)
       BY <1>3, <1>5 DEF Places
<1>13. QED  BY <1>1, <1>5, <1>7, <1>11, <1>12

\* Putting the word in front of the others keeps their order.
LEMMA WordInFront ==
  ASSUME NEW text, NEW m \in Nat, Len(text) = m, DOMAIN text = 1 .. m,
         NEW n \in 1 .. m + 1, Clean(text, n), Start(text, n) # m + 1,
         NEW rest, AreWordsFrom(rest, text, Stop(text, n))
  PROVE  AreWordsFrom(<<<<Start(text, n), Stop(text, n) - 1>>>> \o rest, text, n)
<1>  DEFINE word  == <<Start(text, n), Stop(text, n) - 1>>
            P     == Places(text)
            front == <<word>>
<1>1. /\ word \in P
      /\ WordsFrom(text, n) = {word} \union WordsFrom(text, Stop(text, n))
      BY OneWord
<1>2. word[1] = Start(text, n) /\ Start(text, n) \in Nat
      /\ Stop(text, n) \in Nat /\ Start(text, n) < Stop(text, n)
      BY StartAndStop
<1>3. /\ rest \in Seq(P) /\ ToSet(rest) = WordsFrom(text, Stop(text, n))
      /\ \A k, i \in DOMAIN rest : k < i => rest[k][1] < rest[i][1]
      BY DEF AreWordsFrom
<1>  HIDE DEF word, P
<1>4. front \in Seq(P) /\ Len(front) = 1 /\ front[1] = word /\ ToSet(front) = {word}
      BY <1>1 DEF ToSet
<1>5. PICK j \in Nat : j = Len(rest) /\ DOMAIN rest = 1 .. j
      BY <1>3, LenProperties
<1>  HIDE DEF front
<1>6. ToSet(front \o rest) = WordsFrom(text, n)
  <2>1. ToSet(front \o rest) = ToSet(front) \union ToSet(rest)
        BY <1>3, <1>4, ConcatToSet
  <2>2. QED  BY <1>1, <1>3, <1>4, <2>1
<1>7. /\ front \o rest \in Seq(P) /\ DOMAIN (front \o rest) = 1 .. 1 + j
      /\ (front \o rest)[1] = word
      /\ \A i \in 2 .. 1 + j : (front \o rest)[i] = rest[i - 1] /\ i - 1 \in 1 .. j
  <2>1. /\ front \o rest \in Seq(P) /\ Len(front \o rest) = 1 + j
        /\ \A i \in 1 .. 1 + j : (front \o rest)[i] = IF i <= 1 THEN front[i] ELSE rest[i - 1]
    <3>1. /\ front \o rest \in Seq(P) /\ Len(front \o rest) = Len(front) + Len(rest)
          /\ \A i \in 1 .. Len(front) + Len(rest) :
               (front \o rest)[i] = IF i <= Len(front) THEN front[i] ELSE rest[i - Len(front)]
          BY <1>3, <1>4, ConcatProperties, Zenon
    <3>2. Len(front) = 1 /\ Len(rest) = j
          BY <1>4, <1>5
    <3>3. QED  BY <3>1, <3>2, Zenon
  <2>2. DOMAIN (front \o rest) = 1 .. 1 + j
        BY <2>1, LenProperties
  <2>3. 1 \in 1 .. 1 + j /\ \A i \in 2 .. 1 + j : i \in 1 .. 1 + j /\ ~(i <= 1) /\ i - 1 \in 1 .. j
        OBVIOUS
  <2>4. (front \o rest)[1] = word
        BY <1>4, <2>1, <2>3
  <2>5. ASSUME NEW i \in 2 .. 1 + j
        PROVE  (front \o rest)[i] = rest[i - 1] /\ i - 1 \in 1 .. j
        BY <2>1, <2>3
  <2>6. QED  BY <2>1, <2>2, <2>4, <2>5, Zenon
<1>8. \A i \in 1 .. j : Stop(text, n) <= rest[i][1] /\ rest[i][1] \in Nat
  <2>  TAKE i \in 1 .. j
  <2>1. rest[i] \in WordsFrom(text, Stop(text, n))
        BY <1>3, <1>5 DEF ToSet
  <2>2. rest[i] \in Words(text) /\ Stop(text, n) <= rest[i][1]
        BY <2>1 DEF WordsFrom
  <2>3. rest[i][1] \in 1 .. m
        BY <2>2, WordOf
  <2>4. QED  BY <2>2, <2>3
<1>9. ASSUME NEW k \in 1 .. 1 + j, NEW i \in 1 .. 1 + j, k < i
      PROVE  (front \o rest)[k][1] < (front \o rest)[i][1]
  <2>1. i \in 2 .. 1 + j
        BY <1>9
  <2>2. (front \o rest)[i] = rest[i - 1] /\ i - 1 \in 1 .. j
        BY <1>7, <2>1
  <2>3. CASE k = 1
    <3>1. (front \o rest)[k][1] = Start(text, n)
          BY <1>2, <1>7, <2>3
    <3>2. Stop(text, n) <= rest[i - 1][1] /\ rest[i - 1][1] \in Nat
          BY <1>8, <2>2
    <3>3. Start(text, n) < rest[i - 1][1]
          BY <1>2, <3>2
    <3>4. QED  BY <2>2, <3>1, <3>3
  <2>4. CASE k # 1
    <3>1. k \in 2 .. 1 + j /\ k - 1 < i - 1
          BY <1>9, <2>4
    <3>2. (front \o rest)[k] = rest[k - 1] /\ k - 1 \in 1 .. j
          BY <1>7, <3>1
    <3>3. QED  BY <1>3, <1>5, <2>2, <3>1, <3>2
  <2>5. QED  BY <2>3, <2>4
<1>10. AreWordsFrom(front \o rest, text, n)
       BY <1>6, <1>7, <1>9 DEF AreWordsFrom, P
<1>11. QED  BY <1>10 DEF front, word
\* All of a text's words are found: from the end of the text to its beginning.
LEMMA SplitFindsWords ==
  ASSUME NEW text, NEW m \in Nat, Len(text) = m, DOMAIN text = 1 .. m
  PROVE  AreWordsFrom(SplitCommand(text), text, 1)
<1>1. PICK f : IsSplit(text, f, 1) /\ SplitCommand(text) = f[1]
      BY SplitIs
<1>2. \A n \in 1 .. m + 1 : f[n] = Chop(text, f, n)
      BY <1>1 DEF IsSplit
<1>  DEFINE Good == {d \in 0 .. m : \A n \in m + 1 - d .. m + 1 :
                       Clean(text, n) => AreWordsFrom(f[n], text, n)}
<1>3. ASSUME NEW n \in 1 .. m + 1, Start(text, n) = m + 1 PROVE AreWordsFrom(f[n], text, n)
  <2>1. f[n] = <<>>
    <3>1. Start(text, n) > Len(text)
          BY <1>3
    <3>2. QED  BY <1>2, <3>1 DEF Chop
  <2>2. WordsFrom(text, n) = {}
        BY <1>3, NoWord
  <2>3. DOMAIN <<>> = {} /\ <<>> \in Seq(Places(text)) /\ ToSet(<<>>) = {}
        BY EmptySeq DEF ToSet
  <2>4. QED  BY <2>1, <2>2, <2>3 DEF AreWordsFrom
<1>4. ASSUME NEW n \in 1 .. m + 1, Clean(text, n), Start(text, n) # m + 1,
             \A k \in n + 1 .. m + 1 : Clean(text, k) => AreWordsFrom(f[k], text, k)
      PROVE  AreWordsFrom(f[n], text, n)
  <2>1. Stop(text, n) \in n + 1 .. m + 1 /\ ~(Start(text, n) > Len(text))
        BY <1>4, StartAndStop
  <2>2. Clean(text, Stop(text, n))
        BY <1>4, OneWord
  <2>3. AreWordsFrom(f[Stop(text, n)], text, Stop(text, n))
        BY <1>4, <2>1, <2>2
  <2>4. f[n] = <<<<Start(text, n), Stop(text, n) - 1>>>> \o f[Stop(text, n)]
        BY <1>2, <2>1 DEF Chop
  <2>5. QED  BY <1>4, <2>3, <2>4, WordInFront
<1>5. 0 \in Good
  <2>  SUFFICES ASSUME NEW n \in m + 1 - 0 .. m + 1 PROVE AreWordsFrom(f[n], text, n)
       OBVIOUS
  <2>1. n \in 1 .. m + 1 /\ n = m + 1
        OBVIOUS
  <2>2. Start(text, n) \in n .. m + 1
        BY <2>1, StartAndStop
  <2>3. Start(text, n) = m + 1
        BY <2>1, <2>2
  <2>4. QED  BY <1>3, <2>1, <2>3
<1>6. ASSUME NEW d \in 0 .. m - 1, d \in Good PROVE d + 1 \in Good
  <2>  DEFINE low == m + 1 - d
  <2>1. \A n \in low .. m + 1 : Clean(text, n) => AreWordsFrom(f[n], text, n)
        BY <1>6
  <2>2. low \in 2 .. m + 1 /\ low - 1 \in 1 .. m + 1 /\ m + 1 - (d + 1) = low - 1
        /\ d + 1 \in 0 .. m
        OBVIOUS
  <2>   HIDE DEF low, Good
  <2>3. ASSUME NEW n \in low - 1 .. m + 1, Clean(text, n) PROVE AreWordsFrom(f[n], text, n)
    <3>1. CASE n \in low .. m + 1
          BY <2>1, <2>3, <3>1
    <3>2. CASE n = low - 1
      <4>1. n \in 1 .. m + 1 /\ \A k \in n + 1 .. m + 1 : k \in low .. m + 1
            BY <2>2, <3>2
      <4>2. \A k \in n + 1 .. m + 1 : Clean(text, k) => AreWordsFrom(f[k], text, k)
            BY <2>1, <4>1
      <4>3. QED  BY <1>3, <1>4, <2>3, <4>1, <4>2
    <3>3. n \in low .. m + 1 \/ n = low - 1
          BY <2>2
    <3>4. QED  BY <3>1, <3>2, <3>3
  <2>4. QED  BY <2>2, <2>3 DEF Good
<1>  HIDE DEF Good
<1>7. m \in Good
  <2>1. \A d \in 0 .. m : d \in Good
        BY <1>5, <1>6, Induction
  <2>2. QED  BY <2>1
<1>8. \A n \in m + 1 - m .. m + 1 : Clean(text, n) => AreWordsFrom(f[n], text, n)
      BY <1>7 DEF Good
<1>9. 1 \in m + 1 - m .. m + 1 /\ Clean(text, 1)
      BY DEF Clean
<1>10. QED  BY <1>1, <1>8, <1>9

LEMMA GreatestElement ==
  ASSUME NEW b \in Nat, NEW T \in SUBSET (1 .. b), T # {}
  PROVE  \E n \in T : \A k \in T : n >= k
<1>  DEFINE D == {b - n : n \in T}
<1>1. D \in SUBSET Nat /\ D # {}
  <2>1. \A n \in T : b - n \in Nat
        OBVIOUS
  <2>2. PICK n \in T : TRUE
        OBVIOUS
  <2>3. b - n \in D
        OBVIOUS
  <2>4. QED  BY <2>1, <2>3
<1>2. PICK d \in D : \A k \in D : d <= k
      BY <1>1, LeastElement
<1>3. PICK n \in T : d = b - n
      OBVIOUS
<1>4. ASSUME NEW k \in T PROVE n >= k
  <2>1. b - k \in D
        OBVIOUS
  <2>2. b - n <= b - k
        BY <1>2, <1>3, <2>1
  <2>3. QED  BY <2>2
<1>5. QED  BY <1>4

\* trimmed() leaves something, without newlines or blanks around it.
LEMMA TrimmedIs ==
  ASSUME NEW text, NEW m \in Nat, Len(text) = m, DOMAIN text = 1 .. m, "other" \in ToSet(text)
  PROVE  \E k \in Nat :
           /\ Len(Trimmed(text)) = k + 1 /\ DOMAIN Trimmed(text) = 1 .. k + 1
           /\ Trimmed(text)[1] = "other" /\ Trimmed(text)[k + 1] = "other"
<1>  DEFINE inner == {n \in 1 .. m : text[n] = "other"}
            first == CHOOSE n \in inner : \A k \in inner : n <= k
            last  == CHOOSE n \in inner : \A k \in inner : n >= k
            Chars == {text[n] : n \in 1 .. m}
<1>1. inner # {} /\ inner \in SUBSET Nat /\ inner \in SUBSET (1 .. m)
      BY DEF ToSet
<1>2. first \in inner /\ \A k \in inner : first <= k
      BY <1>1, LeastElement
<1>3. last \in inner
      BY <1>1, GreatestElement
<1>4. Trimmed(text) = SubSeq(text, first, last)
      BY Zenon DEF Trimmed
<1>  HIDE DEF first, last
<1>5. first \in 1 .. m /\ last \in 1 .. m /\ first <= last
      BY <1>2, <1>3
<1>6. PICK k \in Nat : k = last - first
      BY <1>5
<1>7. \A i \in first .. last : text[i] \in Chars
      BY <1>5
<1>8. first \in Int /\ last \in Int
      BY <1>5
<1>  HIDE DEF Chars
<1>9. /\ SubSeq(text, first, last) \in Seq(Chars)
      /\ Len(SubSeq(text, first, last)) = IF first <= last THEN last - first + 1 ELSE 0
      /\ \A i \in 1 .. last - first + 1 : SubSeq(text, first, last)[i] = text[first + i - 1]
      BY <1>7, <1>8, SubSeqProperties
<1>10. Len(SubSeq(text, first, last)) = k + 1 /\ DOMAIN SubSeq(text, first, last) = 1 .. k + 1
  <2>1. Len(SubSeq(text, first, last)) = k + 1
        BY <1>5, <1>6, <1>9
  <2>2. QED  BY <1>9, <2>1, LenProperties
<1>11. /\ 1 \in 1 .. last - first + 1 /\ first + 1 - 1 = first
       /\ k + 1 \in 1 .. last - first + 1 /\ first + (k + 1) - 1 = last
       BY <1>5, <1>6
<1>12. SubSeq(text, first, last)[1] = text[first] /\ SubSeq(text, first, last)[k + 1] = text[last]
       BY <1>9, <1>11
<1>13. QED  BY <1>2, <1>3, <1>4, <1>10, <1>12
-----------------------------------------------------------------------------
(* hook::execute(): the command *)

LineInv ==
  /\ WordsOfCommand
  /\ where # "scheduled" => argv = <<>>
  /\ \A n \in DOMAIN argv : argv[n] \in (DOMAIN line) \X (DOMAIN line)

LEMMA ExecuteLine ==
  ASSUME NEW text \in Lines, Execute(text)
  PROVE  LineInv'
<1>1. PICK m \in Nat : Len(text) = m /\ DOMAIN text = 1 .. m
  <2>  DEFINE Chars == {"other", "blank", "newline"}
  <2>1. PICK m \in Nat : text \in [1 .. m -> Chars]
        BY CommandAssumption DEF Lines
  <2>   HIDE DEF Chars
  <2>2. text \in Seq(Chars) /\ DOMAIN text = 1 .. m
        BY <2>1, IsASeq
  <2>3. QED  BY <2>2, LenProperties
<1>2. /\ "other" \in ToSet(text) /\ line' = Trimmed(text) /\ argv' = SplitCommand(line')
      /\ where' = "scheduled"
      BY DEF Execute, Goes
<1>3. PICK k \in Nat : /\ Len(line') = k + 1 /\ DOMAIN line' = 1 .. k + 1
                       /\ line'[1] = "other" /\ line'[k + 1] = "other"
      BY <1>1, <1>2, TrimmedIs
<1>4. PICK n \in Nat : Len(line') = n /\ DOMAIN line' = 1 .. n /\ 1 \in 1 .. n + 1 /\ 1 # n + 1
      BY <1>3
<1>5. AreWordsFrom(argv', line', 1)
  <2>1. AreWordsFrom(SplitCommand(line'), line', 1)
        BY <1>4, SplitFindsWords
  <2>2. QED  BY <1>2, <2>1
<1>6. WordsFrom(line', 1) = Words(line')
  <2>1. \A w \in Words(line') : w[1] \in 1 .. n
        BY <1>4, WordOf
  <2>2. \A w \in Words(line') : 1 <= w[1]
        BY <2>1
  <2>3. QED  BY <2>2 DEF WordsFrom
<1>7. argv' # <<>>
  <2>1. Start(line', 1) # n + 1
    <3>1. \A j \in 1 .. n : j < Start(line', 1) => line'[j] = "blank"
          BY <1>4, NextWord DEF Start
    <3>2. 1 \in 1 .. n /\ line'[1] # "blank"
          BY <1>3, <1>4
    <3>3. QED  BY <3>1, <3>2
  <2>2. Clean(line', 1)
        BY DEF Clean
  <2>3. WordsFrom(line', 1) # {}
    <3>1. WordsFrom(line', 1) = {<<Start(line', 1), Stop(line', 1) - 1>>}
                                  \union WordsFrom(line', Stop(line', 1))
          BY <1>4, <2>1, <2>2, OneWord
    <3>2. QED  BY <3>1
  <2>4. argv' = <<>> => ToSet(argv') = {}
        BY EmptySeq DEF ToSet
  <2>5. QED  BY <1>5, <2>3, <2>4 DEF AreWordsFrom
<1>8. Last(line') = "other"
      BY <1>3 DEF Last
<1>9. ToSet(argv') = Words(line') /\ \A j, i \in DOMAIN argv' : j < i => argv'[j][1] < argv'[i][1]
      BY <1>5, <1>6 DEF AreWordsFrom
<1>10. WordsOfCommand'
  <2>1. ToSet(argv)' = Words(line') /\ Last(line)' = "other"
        BY <1>8, <1>9 DEF ToSet, Last
  <2>2. QED  BY <1>3, <1>7, <1>9, <2>1 DEF WordsOfCommand
<1>11. \A i \in DOMAIN argv' : argv'[i] \in (DOMAIN line') \X (DOMAIN line')
  <2>1. argv' \in Seq((1 .. n) \X (1 .. n))
        BY <1>4, <1>5 DEF AreWordsFrom, Places
  <2>2. \A i \in DOMAIN argv' : argv'[i] \in (1 .. n) \X (1 .. n)
        BY <2>1, LenProperties, ElementOfSeq
  <2>3. QED  BY <1>4, <2>2
<1>12. QED  BY <1>2, <1>10, <1>11 DEF LineInv

LEMMA LineInvStep == LineInv /\ [CommandNext]_vars => LineInv'
<1>  SUFFICES ASSUME LineInv, [CommandNext]_vars PROVE LineInv'
     OBVIOUS
<1>1. where # "scheduled" /\ where' # "scheduled" /\ UNCHANGED lineVars => LineInv'
      BY DEF LineInv, WordsOfCommand, lineVars
<1>2. ASSUME NEW u \in Users \union {NoUser}, Configure(u) PROVE LineInv'
      BY <1>1, <1>2 DEF Configure, Goes
<1>3. ASSUME NEW pipeline \in BOOLEAN, NEW status \in Statuses \union {Missing},
             ReadEvent(pipeline, status)
      PROVE  LineInv'
      BY <1>1, <1>3 DEF ReadEvent
<1>4. ASSUME NEW job \in Jobs, Build(job) PROVE LineInv'
      BY <1>1, <1>4 DEF Build
<1>5. CASE \E text \in Lines : Execute(text)
      BY <1>5, ExecuteLine
<1>6. ConfigureThrows \/ DebugHookThrows \/ FieldThrows \/ EndOfBuilds \/ NoCommand => LineInv'
      BY <1>1 DEF ConfigureThrows, DebugHookThrows, FieldThrows, EndOfBuilds, NoCommand, Goes
<1>7. CASE Fork
  <2>1. where' # "scheduled" /\ argv' = <<>>
        BY <1>7 DEF Fork, Goes
  <2>2. DOMAIN <<>> = {}
        BY EmptySeq
  <2>3. QED  BY <2>1, <2>2 DEF LineInv, WordsOfCommand
<1>8. InitGroups \/ SetGid \/ SetUid \/ ChildFails \/ Execve => LineInv'
      BY <1>1 DEF InitGroups, SetGid, SetUid, ChildFails, Execve, Goes
<1>9. CASE Over \/ UNCHANGED vars
  <2>1. UNCHANGED <<where, line, argv>>
        BY <1>9 DEF Over, vars, lineVars
  <2>2. UNCHANGED WordsOfCommand
        BY <2>1 DEF WordsOfCommand, ToSet, Last
  <2>3. QED  BY <2>1, <2>2 DEF LineInv
<1>10. QED  BY <1>2, <1>3, <1>4, <1>5, <1>6, <1>7, <1>8, <1>9 DEF CommandNext

\* The words of a command are tracked from hook::execute() to fork().
THEOREM CommandLine == CommandSpec => []LineInv
<1>1. CommandInit => LineInv
      BY EmptySeq DEF CommandInit, LineInv, WordsOfCommand
<1>2. QED  BY <1>1, LineInvStep, PTL DEF CommandSpec

\* split_command(): the program and its arguments are exactly the words of the
\* command, in their order, and there is a program.
THEOREM CommandWordsOfCommand == CommandSpec => []WordsOfCommand
<1>1. LineInv => WordsOfCommand
      BY DEF LineInv
<1>2. QED  BY <1>1, CommandLine, PTL

-----------------------------------------------------------------------------
(* Types *)

EventType ==
  /\ where \in {"new", "ready", "builds", "matched", "ignored", "thrown", "scheduled", "child",
                "groups", "gid", "execve", "executed", "exited"}
  /\ statuses \in SUBSET Statuses
  /\ wanted \in SUBSET JobNames
  /\ event \in [pipeline : BOOLEAN, status : Statuses \union {Missing}]

LEMMA EventTypeStep == EventType /\ [CommandNext]_vars => EventType'
<1>  SUFFICES ASSUME EventType, [CommandNext]_vars PROVE EventType'
     OBVIOUS
<1>  USE DEF EventType, eventVars
<1>1. ASSUME NEW u \in Users \union {NoUser}, Configure(u) PROVE EventType'
      BY <1>1 DEF Configure, Goes
<1>2. ASSUME NEW pipeline \in BOOLEAN, NEW status \in Statuses \union {Missing},
             ReadEvent(pipeline, status)
      PROVE  EventType'
  <2>1. event' \in [pipeline : BOOLEAN, status : Statuses \union {Missing}]
        BY <1>2 DEF ReadEvent
  <2>2. where' \in {"ignored", "thrown", "builds"}
        BY <1>2 DEF ReadEvent
  <2>3. QED  BY <1>2, <2>1, <2>2 DEF ReadEvent, StringSetFrom
<1>3. ASSUME NEW job \in Jobs, Build(job) PROVE EventType'
  <2>1. where' \in {"builds", "thrown"} /\ UNCHANGED <<statuses, wanted, event>>
        BY <1>3 DEF Build
  <2>2. QED  BY <2>1
<1>4. ASSUME NEW text \in Lines, Execute(text)
      PROVE  EventType'
  <2>1. where' = "scheduled" /\ statuses' = {} /\ wanted' = {} /\ event' = NoEvent
        BY <1>4 DEF Execute, Goes
  <2>2. QED  BY <2>1 DEF NoEvent
<1>5. ConfigureThrows \/ DebugHookThrows \/ FieldThrows \/ EndOfBuilds \/ NoCommand => EventType'
      BY DEF ConfigureThrows, DebugHookThrows, FieldThrows, EndOfBuilds, NoCommand, Goes
<1>6. Fork \/ InitGroups \/ SetGid \/ SetUid \/ ChildFails \/ Execve => EventType'
      BY DEF Fork, InitGroups, SetGid, SetUid, ChildFails, Execve, Goes
<1>7. CASE Over \/ UNCHANGED vars
      BY <1>7 DEF Over, vars
<1>8. QED  BY <1>1, <1>2, <1>3, <1>4, <1>5, <1>6, <1>7 DEF CommandNext

\* Every variable keeps its type.
THEOREM CommandTypeCorrect == CommandSpec => []CommandTypeOK
<1>1. CommandInit => EventType
      BY DEF CommandInit, EventType, NoEvent
<1>2. CommandSpec => []EventType
      BY <1>1, EventTypeStep, PTL DEF CommandSpec
<1>3. ASSUME IdentityInv, EventType, JobsInv, LineInv PROVE CommandTypeOK
  <2>1. jobIds \in Seq(1 .. MaxBuilds)
    <3>1. jobIds \in Seq(1 .. Len(builds)) /\ Len(builds) \in Nat /\ Len(builds) <= MaxBuilds
          BY <1>3, LenProperties DEF JobsInv, JobLists
    <3>2. 1 .. Len(builds) \subseteq 1 .. MaxBuilds
          BY <3>1, CommandAssumption
    <3>3. QED  BY <3>1, <3>2, SeqMonotonic
  <2>2. QED  BY <1>3, <2>1 DEF IdentityInv, IdentityType, EventType, JobsInv, JobLists, LineInv,
                                CommandTypeOK
<1>4. QED  BY <1>2, <1>3, CommandIdentity, CommandJobs, CommandLine, PTL
=============================================================================
