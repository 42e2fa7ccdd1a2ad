------------------------------- MODULE Command -------------------------------
(***************************************************************************)
(* What a hook makes of an event, and what becomes of its command: the     *)
(* hook is configured, pipeline_hook::process() looks at the event,        *)
(* hook::execute() prepares the process, and the forked child changes its  *)
(* identity and calls execve().                                            *)
(*                                                                         *)
(* The databases of users and groups may change at any time, so that every *)
(* look into them may find anything.  What is configured or received is    *)
(* chosen when the code first looks at it.                                 *)
(***************************************************************************)
EXTENDS Naturals, Sequences, FiniteSets, SequencesExt

CONSTANTS
  Ids,       \* of users and groups; 0 is root's, UINT_MAX is no valid one
  JobNames,  \* that the jobs of a pipeline may have
  Statuses,  \* of a pipeline
  Success,   \* the status of a job that has succeeded
  Missing,   \* stands for a field that the JSON lacks
  MaxBuilds, \* bound: jobs of a pipeline
  MaxLine    \* bound: characters of a configured command

ASSUME CommandAssumption ==
  /\ 0 \in Ids /\ Ids \subseteq Nat
  /\ Missing \notin JobNames \union Statuses \union {Success}
  /\ MaxBuilds \in Nat
  /\ MaxLine \in Nat

VARIABLES
  where,    \* how far the code has come
  self,     \* the user that the program runs as
  command,  \* is there a command, after blanks have been cut off?
  user,     \* the hook's mUserGroup, or NoUser
  statuses, \* its mStatuses, {} for any
  wanted,   \* its mJobNames
  event,    \* is it a pipeline event, and the pipeline's status?
  builds,   \* the jobs of the event that have been looked at
  jobIds,   \* which of them match: their places in the event stand for their ids
  jobNames, \* and their names
  line,     \* the configured command, without what is around it
  argv,     \* program and arguments, each as the places of its first and last character
  cred      \* the child's identity: uid, gid, and its additional groups: the program's, the
            \* user's, or what has become of those since the configuration was read

configVars == <<self, command, user>>
eventVars  == <<statuses, wanted, event, builds, jobIds, jobNames>>
lineVars   == <<line, argv>>
vars == <<where, configVars, eventVars, lineVars, cred>>

NoEvent == [pipeline |-> FALSE, status |-> Missing]
NoUser == [uid |-> -1, gid |-> -1]
Users  == [uid : Ids, gid : Ids]
Jobs   == [name : JobNames \union {Missing}, status : {Success, "other", Missing},
           id : {"there", Missing}]

CommandTypeOK ==
  /\ where \in {"new", "ready", "builds", "matched", "ignored", "thrown", "scheduled", "child",
                "groups", "gid", "execve", "executed", "exited"}
  /\ self \in Ids
  /\ command \in BOOLEAN
  /\ user \in Users \union {NoUser}
  /\ statuses \in SUBSET Statuses
  /\ wanted \in SUBSET JobNames
  /\ event \in [pipeline : BOOLEAN, status : Statuses \union {Missing}]
  /\ builds \in Seq(Jobs)
  /\ jobIds \in Seq(1 .. MaxBuilds)
  /\ jobNames \in Seq(wanted)
  /\ Len(jobIds) = Len(jobNames)
  /\ \A n \in DOMAIN argv : argv[n] \in (DOMAIN line) \X (DOMAIN line)
  /\ cred \in [uid : Ids, gid : Ids, groups : {"program", "user", "changed"}]

CommandInit ==
  /\ where = "new"
  /\ self \in Ids
  /\ command \in BOOLEAN
  /\ user = NoUser
  /\ statuses = {} /\ wanted = {}
  /\ event = NoEvent /\ builds = <<>> /\ jobIds = <<>> /\ jobNames = <<>>
  /\ line = <<>> /\ argv = <<>>
  /\ cred = [uid |-> self, gid |-> self, groups |-> "program"]

Goes(from, to) == where = from /\ where' = to

-----------------------------------------------------------------------------
(* The hook is configured *)

NeedUser_Never == FALSE

\* Root's commands need a user.
NeedUser == command /\ self = 0

\* user_group's constructors look up the user by name, and a group: that of the
\* user, or one configured by name.
Configure(u) ==
  /\ u = NoUser => ~NeedUser
  /\ Goes("new", "ready")
  /\ user' = u
  /\ UNCHANGED <<self, command, eventVars, lineVars, cred>>

\* An entry is missing or wrong, or a name unknown.
ConfigureThrows ==
  /\ Goes("new", "thrown")
  /\ UNCHANGED <<configVars, eventVars, lineVars, cred>>

\* A debug hook must not have a command.
DebugHookThrows == command /\ ConfigureThrows

-----------------------------------------------------------------------------
(* pipeline_hook::process() *)

\* A string or an array, be it empty.
StringSetFrom(strings) == SUBSET strings

\* An event of this type, and with this status; then the loop over the jobs begins.
ReadEvent(pipeline, status) ==
  /\ where = "ready"
  /\ event' = [pipeline |-> pipeline, status |-> status]
  /\ statuses' \in StringSetFrom(Statuses)
  /\ where' = IF ~pipeline THEN "ignored"
              ELSE IF status = Missing THEN "thrown"
              ELSE IF statuses' # {} /\ status \notin statuses' THEN "ignored"
              ELSE "builds"
  /\ wanted' \in StringSetFrom(JobNames)
  /\ UNCHANGED <<configVars, builds, jobIds, jobNames, lineVars, cred>>

\* Another field that is needed is missing or of a wrong type.
FieldThrows ==
  /\ where \in {"builds", "matched"}
  /\ where' = "thrown"
  /\ UNCHANGED <<configVars, eventVars, lineVars, cred>>

Build_NameFirst(job) ==
  /\ where = "builds"
  /\ Len(builds) < MaxBuilds
  /\ builds' = Append(builds, job)
  /\ LET named == job.name \in wanted
     IN  /\ jobNames' = IF named THEN Append(jobNames, job.name) ELSE jobNames
         /\ jobIds' = IF named /\ job.status = Success THEN Append(jobIds, Len(builds')) ELSE jobIds
  /\ UNCHANGED <<where, configVars, statuses, wanted, event, lineVars, cred>>

\* One pass of the loop over the jobs.  Only of a job with a wanted name is the
\* status looked at, and only of one that has succeeded the id.
Build(job) ==
  /\ where = "builds"
  /\ Len(builds) < MaxBuilds
  /\ builds' = Append(builds, job)
  /\ LET named   == job.name \in wanted
         matches == named /\ job.status = Success
     IN  /\ where' = IF \/ job.name = Missing
                        \/ named /\ job.status = Missing
                        \/ matches /\ job.id = Missing
                     THEN "thrown" ELSE "builds"
         /\ IF matches /\ job.id # Missing
            THEN jobIds' = Append(jobIds, Len(builds')) /\ jobNames' = Append(jobNames, job.name)
            ELSE UNCHANGED <<jobIds, jobNames>>
  /\ UNCHANGED <<configVars, statuses, wanted, event, lineVars, cred>>

EndOfBuilds ==
  /\ Goes("builds", IF jobIds = <<>> THEN "ignored" ELSE "matched")
  /\ UNCHANGED <<configVars, eventVars, lineVars, cred>>

NoCommand ==
  /\ Goes("matched", "ignored")
  /\ ~command
  /\ UNCHANGED <<configVars, eventVars, lineVars, cred>>

-----------------------------------------------------------------------------
(* hook::execute() *)

Lines == UNION {[1 .. n -> {"other", "blank", "newline"}] : n \in 0 .. MaxLine}

\* trimmed(): newlines are cut off as blanks and tabulators are.
Trimmed(text) ==
  LET inner == {n \in DOMAIN text : text[n] = "other"}
  IN  SubSeq(text, CHOOSE n \in inner : \A k \in inner : n <= k,
                   CHOOSE n \in inner : \A k \in inner : n >= k)

\* find_first_of() and find_first_not_of(): the first place from n on with or
\* without a blank, or the one behind the end.
NextPlace(text, n, blank) ==
  LET here == {k \in n .. Len(text) : (text[k] = "blank") = blank} \union {Len(text) + 1}
  IN  CHOOSE k \in here : \A l \in here : k <= l

SplitCommand_EveryBlank(text) ==
  LET Split[n \in 1 .. Len(text) + 2] ==
        IF n > Len(text) THEN <<>>
        ELSE <<<<n, NextPlace(text, n, TRUE) - 1>>>> \o Split[NextPlace(text, n, TRUE) + 1]
  IN  Split[1]

\* split_command(): a word ends at a blank or tabulator, and what follows them is
\* the next one.
SplitCommand(text) ==
  LET Split[n \in 1 .. Len(text) + 1] ==
        LET next  == NextPlace(text, n, FALSE)
            space == NextPlace(text, next, TRUE)
        IN  IF next > Len(text) THEN <<>> ELSE <<<<next, space - 1>>>> \o Split[space]
  IN  Split[1]

\* The process gets its program, arguments and user, and is appended to the list of
\* actions; the event is over.
Execute(text) ==
  /\ Goes("matched", "scheduled")
  /\ command
  /\ "other" \in ToSet(text)
  /\ line' = Trimmed(text)
  /\ argv' = SplitCommand(line')
  /\ statuses' = {} /\ wanted' = {}
  /\ event' = NoEvent /\ builds' = <<>> /\ jobIds' = <<>> /\ jobNames' = <<>>
  /\ UNCHANGED <<configVars, cred>>

-----------------------------------------------------------------------------
(* process::start() in the child *)

\* fork(); without a user the child remains what the program is.  It hands line
\* and arguments on to execve() as they are.
Fork ==
  /\ Goes("scheduled", IF user = NoUser THEN "execve" ELSE "child")
  /\ line' = <<>> /\ argv' = <<>>
  /\ UNCHANGED <<configVars, eventVars, cred>>

\* user_group::impersonate(): the first step that fails throws, and the child exits.
Privileged == cred.uid = 0

\* The account is looked up again by its number, and its groups by its name.
InitGroups ==
  /\ Goes("child", "groups")
  /\ Privileged
  /\ \E found \in {"user", "changed"} : cred' = [cred EXCEPT !.groups = found]
  /\ UNCHANGED <<configVars, eventVars, lineVars>>

SetGid ==
  /\ Goes("groups", "gid")
  /\ Privileged \/ user.gid = cred.gid
  /\ cred' = [cred EXCEPT !.gid = user.gid]
  /\ UNCHANGED <<configVars, eventVars, lineVars>>

SetUid ==
  /\ Goes("gid", "execve")
  /\ Privileged \/ user.uid = cred.uid
  /\ cred' = [cred EXCEPT !.uid = user.uid]
  /\ UNCHANGED <<configVars, eventVars, lineVars>>

\* No such account any more, a limit, no permission; execve() itself may fail.
ChildFails_GoesOn ==
  /\ \/ Goes("child", "groups") \/ Goes("groups", "gid") \/ Goes("gid", "execve")
     \/ Goes("execve", "exited")
  /\ UNCHANGED <<configVars, eventVars, lineVars, cred>>

ChildFails ==
  /\ where \in {"child", "groups", "gid", "execve"}
  /\ where' = "exited"
  /\ UNCHANGED <<configVars, eventVars, lineVars, cred>>

Execve ==
  /\ Goes("execve", "executed")
  /\ UNCHANGED <<configVars, eventVars, lineVars, cred>>

Over ==
  /\ where \in {"ignored", "thrown", "executed", "exited"}
  /\ UNCHANGED vars

CommandNext ==
  \/ \E u \in Users \union {NoUser} : Configure(u)
  \/ ConfigureThrows \/ DebugHookThrows
  \/ \E pipeline \in BOOLEAN, status \in Statuses \union {Missing} : ReadEvent(pipeline, status)
  \/ FieldThrows
  \/ \E job \in Jobs : Build(job)
  \/ EndOfBuilds \/ NoCommand
  \/ \E text \in Lines : Execute(text)
  \/ Fork \/ InitGroups \/ SetGid \/ SetUid \/ ChildFails \/ Execve
  \/ Over

CommandSpec == CommandInit /\ [][CommandNext]_vars

-----------------------------------------------------------------------------
(* Properties *)

\* The hook waits for events like this, and these jobs of it.
Fits == event.pipeline /\ (statuses = {} \/ event.status \in statuses)
Matching == {n \in DOMAIN builds : builds[n].name \in wanted /\ builds[n].status = Success}

\* A command is executed for pipeline events of the hook's status only, and learns
\* of exactly those jobs that have a wanted name and have succeeded, ids and names
\* in step and in the order of the event.  An event with such a job is not ignored.
JobsAreTheMatching ==
  /\ where = "matched" =>
       /\ Fits /\ Matching # {}
       /\ ToSet(jobIds) = Matching
       /\ \A k, n \in DOMAIN jobIds : k < n => jobIds[k] < jobIds[n]
       /\ jobNames = [n \in DOMAIN jobIds |-> builds[jobIds[n]].name]
  /\ where = "ignored" => ~Fits \/ Matching = {} \/ ~command

\* The stretches without blanks that cannot be made longer.
Words(text) ==
  {w \in (DOMAIN text) \X (DOMAIN text) :
     /\ w[1] <= w[2] /\ \A n \in w[1] .. w[2] : text[n] # "blank"
     /\ w[1] > 1 => text[w[1] - 1] = "blank"
     /\ w[2] < Len(text) => text[w[2] + 1] = "blank"}

\* README.md: the program and its arguments are the words of the command, and there
\* is a program.
WordsOfCommand ==
  where = "scheduled" =>
    /\ ToSet(argv) = Words(line)
    /\ \A k, n \in DOMAIN argv : k < n => argv[k][1] < argv[n][1]
    /\ argv # <<>> /\ line[1] # "newline" /\ Last(line) # "newline"

\* A command with a configured user executes with the uid and gid that were found
\* for him, and never with the program's additional groups.
RunsAsConfigured ==
  where = "executed" /\ user # NoUser =>
    cred.uid = user.uid /\ cred.gid = user.gid /\ cred.groups # "program"

\* README.md, "To confirm that the command is to be executed with root privileges,
\* you must say explicitly": no command executes as root unless it is configured
\* with a user, and that one is root.
RootOnlyExplicitly ==
  where = "executed" /\ cred.uid = 0 => user # NoUser /\ user.uid = 0
=============================================================================
