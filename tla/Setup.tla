-------------------------------- MODULE Setup --------------------------------
(***************************************************************************)
(* How main() sets up a generation of the program and takes it down: the   *)
(* settings of the HTTP server, its start, the hooks (module Routing), the *)
(* event that drives it, and the destruction of it all, be it after a      *)
(* signal or because some step has thrown an exception.                    *)
(*                                                                         *)
(* The server's port is open before the hooks are there.  Clients may      *)
(* connect from then on, but nobody answers them before io.run().          *)
(***************************************************************************)
EXTENDS Routing

CONSTANT Capacity  \* of the array of options that start() builds: 8

ASSUME SetupAssumption == Capacity \in Nat

VARIABLES
  where,     \* main(): in "setup", "running" the event loop, "stopped", "over"
  restart,   \* main()'s flag
  alive,     \* the objects of this generation, in the order of construction
  reading,   \* the setting that http_server's constructor reads next, or 0
  fields,    \* http::server's settings that are not 0 or empty, until start()
             \* has read them
  options,   \* the array of options in start()
  daemon,    \* is there a daemon of libmicrohttpd, with its port open?
  listener,  \* the event that drives it: "none", or "pending" or not ("idle")
  singleton, \* does action_list's singleton point to a list?
  pending,   \* are there actions in it?  Their names belong to the configuration
  waiting,   \* do clients wait for an answer, be it one or many?
  request    \* a path asked for by one of those answered last, and where a handler was found

mainVars  == <<where, restart, alive>>
startVars == <<reading, fields, options, daemon, listener>>
listVars  == <<singleton, pending>>
webVars   == <<waiting, request>>
setupVars == <<vars, mainVars, startVars, listVars, webVars>>

Order_ListFirst ==
  <<"actions", "configuration", "watchdog", "sigs1", "sigs2", "httpd", "statusPage", "hooks">>

\* The local variables of main()'s loop.
Order ==
  <<"configuration", "watchdog", "actions", "sigs1", "sigs2", "httpd", "statusPage", "hooks">>

Settings ==
  <<"ip", "port", "certificate", "private_key", "max_connections",
    "max_connections_per_ip", "memory_limit", "content_size_limit">>

NoPage == <<>>

SetupTypeOK ==
  /\ where \in {"setup", "running", "stopped", "over"}
  /\ startup \in {"loading", "failed", "aborted"}
  /\ restart \in BOOLEAN
  /\ IsPrefix(alive, Order)
  /\ reading \in 0 .. Len(Settings) + 1
  /\ fields \in SUBSET ToSet(Settings)
  /\ daemon \in BOOLEAN
  /\ listener \in {"none", "idle", "pending"}
  /\ singleton \in BOOLEAN
  /\ pending \in BOOLEAN
  /\ waiting \in BOOLEAN
  /\ Contains(alive, "hooks") => RoutingTypeOK

SetupInit ==
  /\ uri_path = <<>> /\ heads = <<>> /\ mChain = <<>>
  /\ handlers = <<>>
  /\ startup = "loading"
  /\ where = "setup"
  /\ restart = FALSE
  /\ alive = <<>>
  /\ reading = 0
  /\ fields = {}
  /\ options = <<>>
  /\ daemon = FALSE
  /\ listener = "none"
  /\ singleton = FALSE
  /\ pending = FALSE
  /\ waiting = FALSE
  /\ request = NoPage

-----------------------------------------------------------------------------
(* Objects are constructed *)

SettingUp == where = "setup" /\ startup = "loading"
ServerStarted == listener # "none"

\* It is the turn of this local variable.
MayConstruct(object) ==
  /\ SettingUp
  /\ Len(alive) < Len(Order)
  /\ object = Order[Len(alive) + 1]
  /\ object = "statusPage" => ServerStarted

Constructs(object) ==
  /\ MayConstruct(object)
  /\ alive' = Append(alive, object)
  /\ UNCHANGED <<where, restart>>

HooksUntouched == UNCHANGED <<uri_path, heads, mChain, handlers>>
Throws == startup' = "failed" /\ HooksUntouched
Aborts == startup' = "aborted" /\ HooksUntouched

\* The vector of hooks is still empty.
ConstructPlain ==
  /\ \E object \in {"configuration", "watchdog", "sigs1", "sigs2", "hooks"} : Constructs(object)
  /\ UNCHANGED <<vars, startVars, listVars, webVars>>

ConstructActions ==
  /\ Constructs("actions")
  /\ IF Asserts /\ singleton THEN Aborts ELSE UNCHANGED vars
  /\ singleton' = TRUE
  /\ UNCHANGED <<startVars, pending, webVars>>

\* The base class; the constructor of the derived class follows.
ConstructServer ==
  /\ Constructs("httpd")
  /\ reading' = 1
  /\ UNCHANGED <<vars, fields, options, daemon, listener, listVars, webVars>>

ConstructStatusPage ==
  /\ Constructs("statusPage")
  /\ handlers' = [p \in DOMAIN handlers \union {StatusPath} |->
                    IF p = StatusPath THEN 0 ELSE handlers[p]]
  /\ UNCHANGED <<uri_path, heads, mChain, startup, startVars, listVars, webVars>>

\* The configuration file is missing or no TOML, or lacks "httpd" or "hooks".
ConfigurationThrows ==
  /\ \E object \in {"configuration", "httpd", "hooks"} : MayConstruct(object)
  /\ Throws
  /\ UNCHANGED <<mainVars, startVars, listVars, webVars>>

-----------------------------------------------------------------------------
(* The settings of the server, and its start *)

Setting == Settings[reading]

\* load_file(), like a mistyped or misspelt entry: the file may be empty or missing.
LoadFile == {"absent", "wrong", "good"}

\* to_int_range(): what is out of the range is wrong, too; other numbers are special.
Values(setting) ==
  LoadFile \union
    IF setting \in {"max_connections", "max_connections_per_ip"} THEN {"zero", "negative"}
    ELSE IF setting = "memory_limit" THEN {"zero"} ELSE {}

\* The setter of http::server.  Only 0 is what start() takes for not set, but the
\* limits of connections assert that they are positive.
ReadSetting(value) ==
  /\ SettingUp
  /\ reading \in DOMAIN Settings
  /\ value \in Values(Setting)
  /\ CASE value = "wrong" \/ (value = "absent" /\ Setting \in {"ip", "port"}) ->
            Throws /\ UNCHANGED <<reading, fields>>
       [] Asserts /\ (value = "negative" \/ (value = "zero" /\ Setting # "memory_limit")) ->
            Aborts /\ UNCHANGED <<reading, fields>>
       [] OTHER ->
            /\ reading' = reading + 1
            /\ fields' = IF value \in {"absent", "zero"} THEN fields ELSE fields \union {Setting}
            /\ UNCHANGED vars
  /\ UNCHANGED <<options, daemon, listener, mainVars, listVars, webVars>>

\* What is configured takes a place in the array.
Option(o) == IF o \in fields THEN <<o>> ELSE <<>>

Options_PortToo ==
  Option("ip") \o Option("port") \o Option("max_connections") \o Option("max_connections_per_ip")
    \o Option("memory_limit") \o <<"timeout">> \o Option("certificate") \o Option("private_key")
    \o <<"end">>

\* start()'s array of options; the timeout is always set.
Options ==
  Option("ip") \o Option("max_connections") \o Option("max_connections_per_ip")
    \o Option("memory_limit") \o <<"timeout">> \o Option("certificate") \o Option("private_key")
    \o <<"end">>

\* start() fills it.
BuildOptions ==
  /\ SettingUp
  /\ reading = Len(Settings) + 1
  /\ options' = Options
  /\ reading' = 0
  /\ fields' = {}
  /\ UNCHANGED <<vars, daemon, listener, mainVars, listVars, webVars>>

\* libmicrohttpd opens the port, listen() adds the event.
StartServer ==
  /\ SettingUp
  /\ options # <<>>
  /\ options' = <<>>
  /\ daemon' = TRUE
  /\ listener' = "pending"
  /\ UNCHANGED <<vars, reading, fields, mainVars, listVars, webVars>>

\* libmicrohttpd does not start; or it does, but cannot tell its descriptor.
StartServerThrows ==
  /\ SettingUp
  /\ options # <<>>
  /\ options' = <<>>
  /\ daemon' \in BOOLEAN
  /\ Throws
  /\ UNCHANGED <<reading, fields, listener, mainVars, listVars, webVars>>

-----------------------------------------------------------------------------
(* The hooks, and the event loop *)

MakingHooks == SettingUp /\ Contains(alive, "hooks")

\* hook::create() and the registration of the hook; main()'s loop over the array.
CreateHook(path) ==
  /\ MakingHooks
  /\ AddHandler(path) \/ AddHandlerThrows(path) \/ ChainHook(path)
  /\ UNCHANGED <<mainVars, startVars, listVars, webVars>>

\* An entry of a hook is missing or wrong, or its user is unknown.
CreateHookThrows ==
  /\ MakingHooks
  /\ New <= MaxHooks
  /\ Throws
  /\ UNCHANGED <<mainVars, startVars, listVars, webVars>>

Run ==
  /\ MakingHooks
  /\ where' = "running"
  /\ UNCHANGED <<vars, restart, alive, startVars, listVars, webVars>>

\* The port takes connections as long as it is open.
Connect ==
  /\ daemon
  /\ startup # "aborted"
  /\ ~waiting
  /\ waiting' = TRUE
  /\ UNCHANGED <<vars, mainVars, startVars, listVars, request>>

EventCb_NoListen ==
  /\ where = "running"
  /\ listener = "pending"
  /\ listener' = "idle"
  /\ \E path \in Paths : request' = <<path, FindHandler(path)>>
  /\ waiting' = FALSE
  /\ UNCHANGED <<vars, mainVars, reading, fields, options, daemon, listVars>>

EventCb_InSetup ==
  /\ listener = "pending" /\ startup = "loading"
  /\ waiting
  /\ \E path \in Paths : request' = <<path, FindHandler(path)>>
  /\ waiting' = FALSE
  /\ UNCHANGED <<vars, mainVars, startVars, listVars>>

\* MHD_run() answers all who wait, of whom "request" shows any one, and a hook may
\* have appended an action; then listen() adds the event again, which was not
\* pending any more.
EventCb ==
  /\ where = "running"
  /\ listener = "pending"
  /\ IF waiting
     THEN /\ \E path \in Paths : request' = <<path, FindHandler(path)>>
          /\ pending' \in {pending, TRUE}
     ELSE UNCHANGED <<request, pending>>
  /\ waiting' = FALSE
  /\ UNCHANGED <<vars, mainVars, startVars, singleton>>

ActionsDone ==
  /\ where = "running"
  /\ pending
  /\ pending' = FALSE
  /\ UNCHANGED <<vars, mainVars, startVars, singleton, webVars>>

\* The handler of a signal, either to quit or to reload.
Stop ==
  /\ where = "running"
  /\ where' = "stopped"
  /\ restart' \in BOOLEAN
  /\ UNCHANGED <<vars, alive, startVars, listVars, webVars>>

-----------------------------------------------------------------------------
(* The objects are destroyed, the last first *)

TakingDown == where = "stopped" \/ (where = "setup" /\ startup = "failed")

Destroys(object) ==
  /\ TakingDown
  /\ alive # <<>>
  /\ Last(alive) = object
  /\ alive' = Front(alive)
  /\ UNCHANGED <<where, restart, startup>>

DestroyPlain ==
  /\ \E object \in {"configuration", "watchdog", "sigs1", "sigs2", "statusPage"} : Destroys(object)
  /\ UNCHANGED <<vars, startVars, listVars, webVars>>

\* The server's handlers refer to the destroyed hooks until it is destroyed, too.
DestroyHooks ==
  /\ Destroys("hooks")
  /\ uri_path' = <<>> /\ heads' = <<>> /\ mChain' = <<>>
  /\ UNCHANGED <<handlers, startVars, listVars, webVars>>

DestroyServer_IfListening ==
  /\ Destroys("httpd")
  /\ handlers' = <<>>
  /\ reading' = 0 /\ fields' = {}
  /\ listener' = "none"
  /\ daemon' = (daemon /\ listener = "none")
  /\ waiting' = (waiting /\ daemon')
  /\ request' = NoPage
  /\ UNCHANGED <<uri_path, heads, mChain, options, listVars>>

\* stop(): MHD_stop_daemon() closes the port and all connections.
DestroyServer ==
  /\ Destroys("httpd")
  /\ handlers' = <<>>
  /\ reading' = 0 /\ fields' = {}
  /\ listener' = "none"
  /\ daemon' = FALSE
  /\ waiting' = FALSE
  /\ request' = NoPage
  /\ UNCHANGED <<uri_path, heads, mChain, options, listVars>>

\* The names of the actions that are left over are logged.
DestroyActions ==
  /\ Destroys("actions")
  /\ singleton' = FALSE
  /\ pending' = FALSE
  /\ UNCHANGED <<vars, startVars, webVars>>

NextGeneration ==
  /\ where = "stopped" /\ alive = <<>>
  /\ restart
  /\ where' = "setup"
  /\ restart' = FALSE
  /\ UNCHANGED <<vars, alive, startVars, listVars, webVars>>

\* main() returns, also after it has caught an exception.
End ==
  /\ TakingDown /\ alive = <<>>
  /\ ~restart
  /\ where' = "over"
  /\ UNCHANGED <<vars, restart, alive, startVars, listVars, webVars>>

\* What main() does by itself.
Progress ==
  \/ ConstructPlain \/ ConstructActions \/ ConstructServer \/ ConstructStatusPage
  \/ ConfigurationThrows
  \/ \E value \in UNION {Values(Settings[n]) : n \in DOMAIN Settings} : ReadSetting(value)
  \/ BuildOptions \/ StartServer \/ StartServerThrows
  \/ \E path \in Paths \union {<<>>} : CreateHook(path)
  \/ CreateHookThrows
  \/ Run
  \/ DestroyPlain \/ DestroyHooks \/ DestroyServer \/ DestroyActions
  \/ NextGeneration \/ End

Rest == (where = "over" \/ startup = "aborted") /\ UNCHANGED setupVars

SetupNext == Progress \/ Connect \/ EventCb \/ ActionsDone \/ Stop \/ Rest

\* main() goes on, and so does the event loop while it runs.
SetupFairness == WF_setupVars(Progress) /\ WF_setupVars(EventCb)

SetupSpec == SetupInit /\ [][SetupNext]_setupVars /\ SetupFairness

-----------------------------------------------------------------------------
(* Properties *)

\* start() never writes behind its array, whatever is configured, and the option
\* that ends the array is in it.
OptionsFit ==
  options # <<>> => Len(options) <= Capacity /\ Last(options) = "end"

\* Whoever connects while main() is still busy with the hooks gets the answer of
\* the complete program: no request was directed with some of the handlers only.
ServedByAll ==
  request # NoPage => where # "setup" /\ request[2] = FindHandler(request[1])

\* Nothing refers to an object that is destroyed: the names of actions lie in the
\* configuration, a request may come to a hook while the event loop runs, and a
\* hook appends its action to the list that the singleton points to.
NothingDangles ==
  /\ pending => Contains(alive, "configuration")
  /\ where = "running" /\ ServerStarted =>
       ToSet(alive) = ToSet(Order) /\ singleton /\ daemon

\* Nothing outlives its object, whichever step of the set-up has thrown: no open
\* port, no event, no singleton that would stop the next generation.
NothingLeft ==
  /\ ~Contains(alive, "httpd") => ~daemon /\ listener = "none" /\ handlers = <<>>
  /\ ~Contains(alive, "actions") => ~singleton /\ ~pending

\* Who connects gets an answer, or his connection is closed, even if the program
\* was about to reload or fails to start; he does not wait for ever.
ClientsServed == waiting ~> ~waiting \/ startup = "aborted"
=============================================================================
