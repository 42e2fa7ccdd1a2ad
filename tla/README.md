# A TLA+ model of Gitlab-Hook

Gitlab-Hook is an HTTP server that receives webhook events from Gitlab and runs
a command for those that match a hook of its configuration file.  It is a single
thread: libevent's loop calls back into the HTTP server, the list of actions, the
process list and the signal listeners.  What runs beside that thread are the
child processes, the clients, whoever sends signals, and systemd.

This directory holds the specifications of its parts, the TLC configurations
that check them on small instances, and TLAPS proofs for every instance.
Paths below are relative to the repository; line numbers are in `PROJECT.json`.

## 1. The system

| Part | Source | State | Operations | What is hard |
|---|---|---|---|---|
| Child processes | `src/process.cpp` | pid and handler of each object; the global `process::list`; its SIGCHLD event | `start`, `terminate`, `kill`, destructor, `onSigchld` | children end at any time, even between two lines of `start`; signals merge; pids are reused; a killed child is reaped when no object remembers it; freed objects stay linked; `fork` fails |
| Action list | `src/action_list.cpp` | the list; three events; counters | `append`, `executeNextAction`, `terminateCurrentAction`, `killCurrentAction`, the process handler, destructor | the next action is scheduled from four places; a timer races the end of its command; commands that ignore SIGTERM |
| Event loop | `src/io_context.cpp` | libevent's base | `run`, `stop` | events that are active when the loop is left |
| Program life cycle | `src/main.cpp`, `src/signal_listener.cpp` | one generation of objects; the flag `restart` | start, reload, quit | order of construction and destruction, exceptions anywhere in it; signals before, during and after it; what survives into the next generation |
| HTTP server | `src/http_server.cpp` | handlers by path; state, body and response of each request | setters, `start`, `stop`, `eventCb`, `newRequest`, `addContent`, `completeRequest`, `completedCb`, `add_handler`, `findHandler` | the port opens before the handlers are there; callbacks of several requests interleave; bodies over the limit; requests that break off |
| Hooks | `src/hook.cpp`, `pipeline_hook.cpp`, `debug_hook.cpp` | the chain of hooks at one path; three counters | `operator()`, `chain`, `process`, `execute` | authorisation in one callback, processing in a later one; one hook of a chain that fails; fields that are missing; blanks in commands |
| Watchdog | `src/watchdog.cpp` | a timer | `watchdogCb` | arithmetic of time; the timer must recur |
| Configuration file | `src/config.cpp` | a parsed tree | `load`, typed access | everything may throw; strings are views into the tree |
| Users and groups | `src/user_group.cpp` | a user's and a group's number | look-up by name, `impersonate` | four calls of the system that fail one by one, between configuration and `execve` |
| Logging | `src/log.cpp` | level and target | formatted output | - |

**Interactions.**  A request comes through `http::server` to the head of a chain
of hooks; a hook that accepts it constructs a `process` or a function and calls
`action_list::append`.  The list's `executeNextAction` starts it;
`process::list::onSigchld` calls the handler the list gave to `start`, which
removes the action and schedules the next.  A signal listener stops the loop, and
`main` destroys the whole generation and perhaps sets up another.  The event base
and `process::list` outlive generations.

**What makes each part correct.**

- *Child processes*: no object holds a pid the kernel may have given away; no
  unreaped child is without an owner unless it was killed; every ended child is
  reaped; the handler is called for the right child.
- *Action list*: actions are executed one at a time, in order, once each; each
  ends, whatever its command does; no wake-up is lost or doubled; a timer never
  hits another command than its own; the counters agree with what happened.
- *Life cycle*: a signal that is caught has its effect; destruction ends; nothing
  of one generation reaches into the next; no command is left behind.
- *HTTP server and hooks*: nothing is scheduled for a request the hook does not
  authorise or that has not arrived whole; a request's commands stay together in
  the order of the configuration; the answer says what was done; the most
  specific handler is found; no configured hook is unreachable.
- *Gateway*, that is hooks and list together: what was answered "accepted" is executed,
  in the order of the requests.
- *Commands*: a command learns of the jobs that match, has the words that are
  configured, and runs with the configured user or not at all.
- *Set-up*: no object refers to one that is destroyed, nothing stays behind when a step
  throws, and clients that come too early are served all the same.
- *Watchdog*: systemd hears of a running program in time.

## 2. The modules

    ChildProcess <---- ActionList <------ Lifecycle
                           : \
                           :  SerialExecutor (abstract; ActionList implements it)
                           : /
    HookServer <------ Gateway      Routing <---- Setup      Command      Watchdog

    ChildProcessProofs <--- ActionListProofs <--- LifecycleProofs
    GatewayProofs           RoutingProofs <------ SetupProofs
    CommandProofs           DataLemmas

An arrow is EXTENDS, and the lines to `SerialExecutor` are INSTANCE.  Every module of proofs
also EXTENDS the module that it is about (`GatewayProofs` is about `HookServer` as well), and `CommandProofs`,
`GatewayProofs` and `RoutingProofs` EXTEND `DataLemmas`, facts about numbers and sequences.  The list of actions is
composed twice: in detail with the signals and reloads (`Lifecycle`), and as what it has been
shown to implement with the requests (`Gateway`).

### ChildProcess
Class `process` and the part of the kernel it needs.  `pid`, `processes` and
`listening` are the fields of the program; `child` is the kernel's table of our
children (`"none"` is a free pid, which `Fork` may take again); `sigchld` a
SIGCHLD that is caught and not served (they merge); `doomed` the children sent
SIGKILL by an object.  `loop` tells where the thread is: `start()` is the two
steps `Fork` and `Register`, because a child may end in between, and `onSigchld()`
is `OnSigchld`, any number of `Reap`, and `ReapNone`, because children end while
it runs.  Everything else is one step, since nothing interleaves with it that it
could notice.  The first call of `start()` also creates `process::list` and its
SIGCHLD event (`listening`), after its `fork()`; a child that ends before that is `unheard`, and
is reaped only when a later SIGCHLD comes.  SIGTERM changes nothing in `Terminate`: a child may
end at any time, and may ignore it.  `Owners(p)` is the search through the linked
list, as a set: the invariants proved make the order irrelevant.

On its own the module uses the class in every way its assertions allow;
`ActionList` is the user it really has.

### ActionList
EXTENDS `ChildProcess` and composes each callback of `action_list.cpp` with the
step of class `process` that it makes.  `execEv`, `timeoutEv` and `killEv` are the
three libevent events, TRUE when active or pending.  An action is a fresh object,
so it is appended once; `outcome` records what became of it.  A function as action
runs in one step and may throw (`CallFunction`).  `HandlerCalled` is the body of
`onSigchld` for a child with an owner together with the handler given to `start`;
`ReapKilled` is the same for a killed child, which has none.  When `fork` fails,
`start` throws through a `noexcept` callback and the program ends (`StartFails`).

### SerialExecutor
What the list promises: items submitted are begun in order, one at a time, and
each ends.  `Pass` is the begin and end of a function in one step.  `ActionList`
implements it under the mapping `Waiting`/`Running`/`ItemsOver`; a killed command
counts as over when SIGKILL is sent.

### Lifecycle
EXTENDS `ActionList` with `main()` and the signal listeners.  libevent writes a
caught signal to a pipe (`caught`); when the loop polls, all of them become active
together (`active`), and their callbacks run in the order of their numbers until
one calls `event_base_loopbreak` (`SignalRaised`).  Then the generation is
destroyed: `DestroyListeners` (whose freed events are not active any more: `lost`),
then the list of actions with its command in flight.  `DestructorReaps`,
`DestructorEnds` and `DestructorGivesUp` are the ways in which `process::impl::~impl()` ends.  Without
listeners a signal has its default effect, `main = "killed"`.  `Reload` and `Exit`
follow; `Exit` is also what a configuration file that no longer loads leads to.
A child is `young` from `fork` to `execve`; until then it has libevent's signal handlers and the
pipe in common with the program, so that SIGTERM sent to it, by `terminate()` or by a destructor,
appears in `caught` (`Echo`), also if it is reaped in the destructor's wait.

The destructor of a process does not unlink it from `process::list`, and does not reset its pid
and handler.  So an element of `Procs` is an address here: `pid` and `processes` speak of the objects that
exist, and `first`, `next` and `remains` of the pointers and pids that memory holds, those of freed
objects included (`Freed`, `Dangling`).  `Link` is `add()` and `remove()` on the pointers.  When `onSigchld`
looks for the owner of a child, it visits what the pointers lead to (`Visited`).  If that is a freed object,
the behaviour is undefined, and every outcome is allowed: the search goes well (`ListStep`); it crashes or
circles for ever (`SearchCrashes`); or it finds the pid of the child in the freed object and unlinks
it (`FindsFreed`).  Then the handler that is left there is called.  It belongs to a list that is gone;
either the list of this generation lies where that one did, and has its front taken off with the command
that runs (`StaleHandler`), or the program crashes (`StaleHandlerCrashes`).  The memory of a freed object
that is still linked may be given to a new one (`AppendReused`), whose constructor resets `next`, so that
the rest of the list is cut off, and which `add()` links a second time, into a circle.

### HookServer
The callbacks given to libmicrohttpd, for requests to one path with a chain of
hooks: `state`, `size` and `queued` are a request's state, the length of its body
and the code of the response handed to libmicrohttpd.  Each callback is a step,
except the last one of a request, in which the lambda of `hook::operator()` walks
through the chain: `handling`, `iter` and `count` are its variables, and nothing
else runs meanwhile.  What a header contains is a record (`Headers`): method, path,
whether there is a token, and the set of hooks whose token and peer address it
fits.  A body that is good has at least one unit (`GoodBody`).  A hook's `process()`
ignores the event, accepts and appends an action, or throws.  `Completed` may come at any time between callbacks: clients vanish and
connections time out.

### Routing
`main()`'s loop over the configured hooks, `hook::chain`, `add_handler` and
`findHandler`.  A path is the sequence of its segments, so that trimming a slash
and cutting at the last one are `Front`.

### Setup
EXTENDS `Routing` with the rest of a pass through `main()`'s loop.  `alive` is the stack of its
local variables in the order of their declaration (`Order`); a step that throws turns
`startup` to "failed", and they are destroyed from the last to the first, as they are after a signal.
`http_server`'s constructor reads one setting after the other (`ReadSetting`; what a value can
be is in `Values`), `start()` fills its array of options and starts the daemon (`StartServer`, or
`StartServerThrows`, which may leave a daemon without an event).  Clients connect as soon as the
port is open (`Connect`) and are served by `EventCb` once the event loop runs, all who wait at once;
`request` is one of theirs, any one.  `fields`, `options` and
`reading` are forgotten when `start()` has used them; nobody reads them later.

### Gateway
EXTENDS `HookServer` and instantiates `SerialExecutor` for the list of actions: `hook::execute()` is
`HookAccepts` together with `Submit`.  An action is the request and the hook it comes from.

### Command
One hook and one event, from the constructor of the hook to `execve()` in the child.
`pipeline_hook::process()` looks at one job after the other (`Build`).  The command line is a sequence
of characters of three kinds - blanks and tabulators, other white space, all else - since `trimmed`
and `split_command` do not tell more apart, and a word is the pair of its first and last place.
The child's identity `cred` holds user, group and where its additional groups come from: the program, or
the look-up in the child, which may find the groups that the user had at start-up (`"user"`) or others
(`"changed"`).  What is configured and received is chosen at the step that first looks at it, and dropped
when it has been used up.  Every look into the database of users may find anything; only that `UINT_MAX`
is no user's number is assumed, as POSIX does.

### Watchdog
The timer and systemd's deadline.  Time is in ticks and a second has `UsecPerSec`
of them.  `Due` is libevent's comparison of a `timeval` whose microseconds may
exceed a second.

## 3. What is checked

| Run | States | Question | Bounds |
|---|---|---|---|
| `action_list` | 3 748 | does the list, with class `process` below it, keep its promises? | two commands, a function, two pids; the first command is the first `start()` of the program |
| `lifecycle` | 1 294 105 | do reloads and quits keep list, timers and children consistent, and end? | two commands, two signals out of SIGINT and SIGUSR1 besides those a young child echoes: two reloads, a reload and a quit, signals that come together; memory used again once, which is enough for a circle; a function as action and a `fork` that fails are left to `action_list` |
| `gateway` | 54 957 | authorisation, order, answers, counters, execution | two requests, two hooks, a limit of two units and pieces of one and two: bodies below, at and above it; a request is served while the other's commands wait or run |
| `setup` | 243 285 | does everything come up and go down whole? | every setting absent, wrong, good or special; every configuration of at most three hooks at paths of at most two segments, with empty segments and `/status`; three is the least with which a chain's place can be taken (a hook at `/a//`, see 5, takes three segments and is left to the proof); any number of generations |
| `command` | 174 700 | the right jobs, words, user? | two job names and pipelines of two jobs (one that matches beside one that does not), commands of four characters (two words with two blanks between them), root and another user, each with either group |
| `first_start` | - | *violated*, see 5 | one command |
| `signal_lost` | - | *violated* | one command, two signals |
| `quit_unasked` | - | *violated* | one command, one SIGUSR1 |
| `stale_handler` | - | *violated* | two commands, one SIGUSR1 |
| `too_large` | - | *violated* | one request, one hook |
| `hook_throws` | - | *violated* | one request, two hooks |
| `watchdog` | - | *violated* | 5 s, as in `debian/gitlab-hook.service`, with four ticks a second |

The properties, beside one type invariant per module:

- `NoStalePid`, `ChildHasOneOwner`: pids, children and objects fit together at every
  point of every callback.  Across reloads the first is checked too, of objects that exist; the
  second does not hold there, since a freed object may keep the pid of its child (`stale_handler`).
- `NoForgottenZombie`, `EveryZombieReaped`: merged SIGCHLDs lose no child, except one that
  ended before there was a SIGCHLD event.
- `WakeUp`: `executeNextAction` is due exactly when there is an action to start.
  `TimersFollowCommand`: exactly one timer is pending while a command runs, none
  otherwise.  Both also hold across reloads.
- `OneLiveCommand`: at most one command that was not killed runs; so also across
  reloads.
- `CountersAgree`: every action that was begun is counted as executed, once.  What is known to have
  failed is counted as failed, and nothing is that neither failed nor had to be killed.  Of killed ones
  the code counts none, although `action_list.h` calls the counter "failed hooks since start of the program";
  the property leaves open which of the two is meant.
- `EveryActionEnds`, `ImplementsSerial`: see 4.
- `NoOrphan`: a program that quits by itself leaves no command behind, except one
  that was sent SIGKILL.
- `ReapedAcrossReloads`: the children that a generation leaves behind are reaped in a later one.
- `SignalStops`, `DestructionEnds`: a caught signal leads out of the event loop, and
  from there into a new generation or to the end.
- `CurrentFoundFirst`: the search for the owner of the current command's child ends at the first
  object of `process::list`, so that it does not come to those that a reload has freed, and `kill()` finds it
  there; only the ends of other children lead to freed objects.
- `OnlyFittingHooksRun`, `ChainOrder`, `AnswerIsTrue`, `ServerCounters`;
  `FindsMostSpecific`, `EveryHookReachable`: as in section 1.
- `OrderedAsRequests`, `AcceptedIsExecuted`: commands begin in the order in which the bodies of
  their requests were complete (not that in which the requests began), and each does.
- `OptionsFit`: the array of options holds all that can be configured.  `ServedByAll`,
  `ClientsServed`: clients that connect during the set-up get the answer of the complete
  program, or their connection is closed.  `NothingDangles`, `NothingLeft`: lifetimes.
- `JobsAreTheMatching`, `WordsOfCommand`: loop and splitting against a definition by sets.
- `RunsAsConfigured`, `RootOnlyExplicitly`: see 4.

**Assertions.**  `HookServer`, `Routing` and `Setup` have a constant for whether `assert` is
compiled in.  The plain build of the README has assertions, a release build has not;
the runs take the former.

**Fairness.**  Assumed of the thread only, and of SIGKILL: a callback that has begun
goes on (nothing in it waits for another process), libevent calls every event that
is active and every timer that is due, `main()` carries on after the loop, and the
kernel ends a child that was sent SIGKILL.  Nothing is assumed of children (they may
run for ever and ignore SIGTERM), hooks, clients or senders of signals.  Weak fairness
is enough: a callback that is due stays due until it is called, or until the one
callback that takes it back.  A function given to `append` is assumed to return.  In `Gateway` it is
the lambda of a hook that goes on, and the list that does what it has been shown to do; clients need
do nothing.  In `Setup` it is `main()` and the event of the HTTP server, which is active when somebody
waits and expires after a second otherwise; that the program is ever stopped is not assumed.

**Abstractions.**  The order in which libevent runs events that are due together is
open, except among signals, where it matters.  Timers run out at any time, which
covers every timeout, zero included.  On Linux `waitid` with no child left leaves a
zeroed `si_pid`; `onSigchld` relies on this and so does `ReapNone`.  A response that
cannot be allocated or queued is left out, and so is `outcome::stop`, which no hook
returns.

## 4. What is proved

Every invariant of the passing runs, for all values of the constants.  The assumptions are the
`ASSUME`s of the modules: that null values are not elements of the sets, that bounds are numbers, that root's
number is 0.  Two theorems have a hypothesis besides, named below.

*`ChildProcessProofs`.*  `ProcInv` is inductive (`ProcInvariant`).  `NoStalePid` alone is
not: when `Reap` frees a pid, that no object keeps it follows only if the search in the
list finds its object, and no other has it, and killed children belong to none.  These
are the conjuncts `PidsDistinct`, `DoomedForgotten`, `NoChildLost` and `StartedIsListed`, together
`Ownership`.  The converse of the latter, `ListedIsStarted`, is a conjunct of its own.  Results: `ProcTypeCorrect`, `ProcNoStalePid`, `ProcOneOwner`, `ProcNoForgottenZombie`.

*`ActionListProofs`.*  `ListStepIsProcStep`: every step of the list is a step of class
`process` or leaves it alone, so the list keeps the class's preconditions
(`ListImplementsProcess`) and inherits `ProcInv`.  `QueueInv` adds that only the front of
the list can have a child (`OnlyHeadStarted`) and that `start()` is only in progress for it
(`ForkedInFlight`); without these, the end of a child would not be known to be the end of
the current action.  Together they give `ListTypeCorrect`, `ListWakeUp`, `ListTimers` and
`ListOneLiveCommand`.  `CountInv` adds that an action is in the list once and not over while
there, and what exactly the code counts (`CountedByCode`), whence `ListCountersAgree`; with both invariants every step maps to a
step of `SerialExecutor` or a stutter (`ListImplementsSerial`).

*`LifecycleProofs`.*  For any number of generations, signals and objects made in used memory.  A step of the
list within `Lifecycle` is one of `ActionList`, whose lemmas are reused.  `LifeInv` takes from there `ListCore`,
`ListedOnce` and `ListedIsStarted`, which speak of the objects that exist, and adds that what was freed is not in the list
(`GoneForGood`), that destructors run while no callback does, and stale handlers only within
`onSigchld` (`AtRest`).  `CurrentFoundFirst` is inductive together with them: `add()` puts the current command's object in
front of all that are freed, and what is unlinked while it runs stands behind it.  Where the pointers
lead from there the invariant does not say, so it survives lists that are cut or tied into a circle.  A stale
handler ends the current action much as its own handler would, which is why the other invariants
survive it, and no more than `HandlerOfItsOwn` is lost.  Results: types, `NoStalePid`, `OneLiveCommand`,
`WakeUp`, `TimersFollowCommand`, `NoOrphan`, `ReapedAcrossReloads` and `CurrentFoundFirst`.

*`GatewayProofs`.*  For any number of requests, any chain, limit and pieces of bodies.  `ServerInv` says
how far the lambda of `hook::operator()` has come: `asked` is the part of the matching hooks before `iter`, and what
it has scheduled stands at the end of the schedule (`ChainSoFar`); requests that were refused or
are not yet handled have left nothing (`Quiet`).  `Counted` ties
counters to sets of requests.  Every step of the gateway is one of the server
(`GateImplementsServer`) and one of the list or a stutter (`GateFeedsList`), and the guard of `Submit` never keeps a hook
from executing (`GateRefusesNothing`): what is appended is new.  Results: `ServerTypeCorrect`,
`ServerOnlyFittingHooksRun`, `ServerChainOrder`, `ServerAnswerIsTrue`, `ServerCountersRight`,
`GateTypeCorrect`, `GateOrderedAsRequests`.

*`RoutingProofs`.*  For paths of any depth and any number of hooks.  `FindHandlerFinds` and
`MostSpecific` say what the search loop returns, whatever the handlers are.  `RouteInv`
ties hooks, chains and handlers to each other: heads of chains have different paths (`HeadsDiffer`), a
chain has two hooks at most (`ChainsOfTwo`; see 5), the handlers are the status page and
the heads (`HandlersOfHeads`), and with assertions no hook is left aside (`AllChained`).  From it `Reachable`: the head
of a hook's chain is what `findHandler` finds, unless the hook is outdone (see 5).

*`SetupProofs`.*  For any paths and any number of hooks and generations.  `alive` is a beginning of
`Order` (`Stack`), so its length says which objects are there; `SetupInv` ties every resource to that
length: the singleton and pending actions to the list (`ListOwned`), port, event, handlers and the
last answer to the server (`ServerOwned`).  The latter needs to know that settings are read and options built
only between the construction of the server and its start, so that no later object is made beside a
server that has not started.  Results: `SetupNothingLeft`, `SetupNothingDangles`, `SetupServedByAll`.
`HooksBuilt` carries `RouteInv` through the generations: `SetupMostSpecific`, and `SetupReachable`
under the hypothesis `Asserts` (without assertions it is false: a third hook replaces the second, see 5).  `SetupOptionsFit` has the hypothesis
`Capacity >= 8`, and eight is the length of the array in `http_server::start()`.  `SetupTypeCorrect` is the type invariant.

*`CommandProofs`.*  For any users, groups, jobs and lengths.  `IdentityInv` says how far the child has
come with `impersonate()` at each point (`Progressing`), and what the hook's constructor and
`execute()` made sure of before (`Checked`): `CommandRunsAsConfigured` and
`CommandRootOnlyExplicitly`.  `JobsInv` is the invariant of the loop over the jobs: the lists hold exactly the
matching ones of those seen so far (`CommandJobsAreTheMatching`).  `SplitFindsWords`: at each place at
which a round of `split_command` begins (`Clean`: none is within a word), the rounds still to come give exactly the words that
begin there or later, in their order (`CommandWordsOfCommand`).  `CommandTypeCorrect` rests on all of these.

*Loops.*  `findHandler`, `ChainFrom` and `split_command` are recursive functions.  The library's theorems on
induction and recursion take operators as parameters and cannot be used; instead `DataLemmas` has induction for sets of numbers
(`LeastElement`, `Induction`), from which first the existence of the function is proved, and then what its values are.

*Only model-checked*: liveness (`EveryActionEnds`, `EveryZombieReaped`, `AcceptedIsExecuted`,
`ClientsServed`, the fairness of `SerialExecutor` in `ImplementsSerial`, `SignalStops`, `DestructionEnds`), which
needs reasoning about ENABLED that the prover lacks.  Of `ImplementsSerial` the safety part is proved.

## 5. Where the code and its words disagree

Each is shown by a violated run.

- `watchdog`: the timer of `watchdog.cpp` expires once and is not added again, so with the
  service file of the Debian package systemd kills the program after some seconds.  Also,
  seconds are taken as `usec % 1000000`.
- `too_large`: a body over the limit sets a state that `completeRequest` asserts against.
  With assertions the program aborts; without, the response 413 is replaced and the part
  of the body within the limit is processed.
- `hook_throws`: an exception from one hook keeps the hooks behind it from being asked, and
  answers 400 or 500 though earlier ones may have been scheduled.
- `first_start`: the SIGCHLD event is added after the program's first `fork`; a first
  command that ends before is not noticed and taken for hanging.
- `signal_lost`: SIGTERM that is found together with SIGUSR1 is forgotten.
- `quit_unasked`: SIGTERM sent to a child before its `execve`, by a reload or a timeout of zero, is
  caught by the handler inherited from the program and makes the program itself quit.
- `stale_handler`: a destructor that gives up leaves its object linked.  When the child is reaped in
  the next generation, `onSigchld` finds its pid in freed memory and calls the handler of the destroyed list,
  which may end the command that runs now.

Met while modelling, without a run: the third hook at one path is chained to the first again, as `main()` looks
for the path among the heads of chains only; the assertion in `hook::chain` fails (`startup = "aborted"` in
`Routing`), or without assertions the second hook is silently replaced, though the README says "You can
configure multiple hooks at the same URI-Path"; `failedCount()` leaves killed commands out; the next command starts when SIGKILL has been sent to the one
before, which may linger beside it (README: "Commands will not be executed concurrently"); the
example of the README says `jobname` where the code reads `job_name`; `config.h` says that `to` aborts
the program where it throws; a program that is not root's cannot use `run_as` at all, since `initgroups`
fails even for its own user; hooks configured at `/status` or at both `/a` and `/a/` keep the program from
starting.

Found by a proof that failed: `add_handler` cuts one slash off (`http_server.cpp:216`), so that a hook
at `/a//` becomes the handler of `/a/`.  The handler of another hook at `/a/` is `/a`, which is no longer
the most specific one for `/a/`; the request goes to the first hook, which finds that the path is not its own
and answers 404.  The README calls `uri_path` the "URI-Path at which the hook can be triggered on the server".
Paths of three segments are needed for it, one more than the run `setup` has.  `EveryHookReachable` now leaves
such hooks out (`Outdone`) and holds of all others.

## 6. What is not modelled

- Logging, TLS, the command line of the program, the parsing of TOML and JSON: plain input
  and output, or libraries.
- The environment of a command: its entries are appended and handed on, those of the event before those of the
  configuration, and which of two with one name counts is up to the program that is executed.
- A response that cannot be allocated or queued; `query()`, which nobody calls.
- The sockets and timeouts that drive libmicrohttpd; their effect is the interleaving of
  callbacks in `HookServer`.
- Processes that a command starts: only the direct child is terminated and killed.

## 7. Plan

Done, in this order: `ChildProcess`, `SerialExecutor` and `ActionList` with their proofs (the core:
what is executed, and when), `HookServer`, `Routing`, `Lifecycle`, `Watchdog`, `Gateway`, `Setup` and
`Command`; then the proofs about all of them but `Watchdog`.  Every invariant that a run checks is
proved.

Next:

1. Action properties that hold the safe half of the liveness: an action begins once, a command in flight
   is followed by its end or a timer and never forgotten, what was counted is not taken back; checked with
   `action_list` and `gateway`, and proved from `ListInv`, `CountInv` and `ServerInv`.
2. Responses that cannot be queued, in `HookServer`.
