----------------------------- MODULE SetupProofs -----------------------------
(***************************************************************************)
(* Proofs about Setup, for any paths and any number of hooks: nothing      *)
(* dangles and nothing is left over, every hook is found, and the options  *)
(* fit in their array.                                                     *)
(*                                                                         *)
(* The objects that are alive are a beginning of Order, so that how many   *)
(* there are says which.  SetupInv ties every resource of the program to   *)
(* the number of objects that must be there to own it.                     *)
(***************************************************************************)
EXTENDS Setup, RoutingProofs

Objects ==
  {"configuration", "watchdog", "actions", "sigs1", "sigs2", "httpd", "statusPage", "hooks"}

\* The provers fare better with a name for it.
Height == Len(alive)

\* The objects are constructed in the order of main()'s variables, and destroyed
\* in the reverse of it.
Stack ==
  /\ alive \in Seq(Objects)
  /\ Len(alive) <= Len(Order)
  /\ \A n \in 1 .. Len(alive) : alive[n] = Order[n]

\* The list of actions is the third object.
ListOwned ==
  /\ singleton <=> Height >= 3
  /\ pending => Height >= 3

\* The server is the sixth.  It owns nothing while it is not there, and a daemon and
\* the event that drives it once it has been set up; until then no other object
\* is made.
ServerOwned ==
  /\ Height < 6 => ~daemon /\ listener = "none" /\ handlers = <<>> /\ request = NoPage
  /\ reading # 0 => Height = 6 /\ listener = "none"
  /\ options # <<>> => Height = 6 /\ listener = "none" /\ reading = 0 /\ SettingUp
  /\ Height >= 7 => listener # "none"
  /\ listener # "none" => daemon

\* The event loop runs with all objects, and only it answers requests.
RunsWithAll == where = "running" => Height = 8

SetupInv == Stack /\ ListOwned /\ ServerOwned /\ RunsWithAll /\ ServedByAll

LEMMA OrderLength == Len(Order) = 8 /\ Order \in Seq(Objects)
BY DEF Order, Objects

\* Which objects are alive.
LEMMA AliveByLength ==
  ASSUME Stack
  PROVE  /\ Contains(alive, "configuration") <=> Len(alive) >= 1
         /\ Contains(alive, "actions") <=> Len(alive) >= 3
         /\ Contains(alive, "httpd") <=> Len(alive) >= 6
         /\ Contains(alive, "hooks") <=> Len(alive) >= 8
<1>1. Len(alive) \in Nat /\ Len(alive) <= 8
      BY OrderLength DEF Stack
<1>2. \A n \in 1 .. Len(alive) : alive[n] = Order[n]
      BY DEF Stack
<1>   QED BY <1>1, <1>2 DEF Contains, Order

\* The turn of an object comes when all before it are there.
LEMMA PushPop ==
  ASSUME Stack, NEW object \in Objects
  PROVE  /\ Constructs(object) =>
              /\ Stack' /\ Height' = Height + 1 /\ object = Order[Height']
              /\ Height < 8 /\ where = "setup" /\ where' = where
         /\ Destroys(object) =>
              /\ Stack' /\ Height' = Height - 1 /\ object = Order[Height]
              /\ Height >= 1 /\ where' = where /\ TakingDown
<1>   USE DEF Height
<1>1. ASSUME Constructs(object)
      PROVE  /\ Stack' /\ Len(alive') = Len(alive) + 1 /\ object = Order[Len(alive')]
             /\ Len(alive) < 8 /\ where = "setup" /\ where' = where
  <2>1. alive' = Append(alive, object) /\ object = Order[Len(alive) + 1] /\ Len(alive) < Len(Order)
        BY <1>1 DEF Constructs, MayConstruct
  <2>2. alive \in Seq(Objects) /\ Len(alive) \in Nat
        BY DEF Stack
  <2>3. alive' \in Seq(Objects) /\ Len(alive') = Len(alive) + 1
        BY <2>1, <2>2
  <2>4. \A n \in 1 .. Len(alive') : alive'[n] = Order[n]
    <3> TAKE n \in 1 .. Len(alive')
    <3>1. CASE n = Len(alive) + 1
          BY <3>1, <2>1, <2>2
    <3>2. CASE n \in 1 .. Len(alive)
          BY <3>2, <2>1, <2>2 DEF Stack
    <3>   QED BY <3>1, <3>2, <2>2, <2>3
  <2>   QED BY <2>1, <2>2, <2>3, <2>4, <1>1, OrderLength DEF Stack, Constructs, MayConstruct, SettingUp
<1>2. ASSUME Destroys(object)
      PROVE  /\ Stack' /\ Len(alive') = Len(alive) - 1 /\ object = Order[Len(alive)]
             /\ Len(alive) >= 1 /\ where' = where /\ TakingDown
  <2>1. alive \in Seq(Objects) /\ alive # <<>> /\ object = alive[Len(alive)]
        /\ alive' = SubSeq(alive, 1, Len(alive) - 1)
        BY <1>2 DEF Destroys, Stack, Last, Front
  <2>2. Len(alive) \in Nat /\ Len(alive) >= 1
        BY <2>1
  <2>3. /\ alive' \in Seq(Objects) /\ Len(alive') = Len(alive) - 1
        /\ \A n \in 1 .. Len(alive') : alive'[n] = alive[n]
    <3>   DEFINE last == Len(alive) - 1
    <3>1. last \in Nat /\ 1 \in Int /\ last \in Int
          BY <2>2
    <3>2. \A n \in 1 .. last : alive[n] \in Objects
          BY <2>1, <2>2
    <3>   HIDE DEF last
    <3>3. /\ SubSeq(alive, 1, last) \in Seq(Objects)
          /\ Len(SubSeq(alive, 1, last)) = IF 1 <= last THEN last - 1 + 1 ELSE 0
          /\ \A n \in 1 .. last - 1 + 1 : SubSeq(alive, 1, last)[n] = alive[1 + n - 1]
          BY <3>1, <3>2, SubSeqProperties
    <3>4. alive' = SubSeq(alive, 1, last)
          BY <2>1 DEF last
    <3>5. Len(alive') = last /\ \A n \in 1 .. last : alive'[n] = alive[n]
          BY <3>1, <3>3, <3>4
    <3>   QED BY <3>3, <3>4, <3>5 DEF last
  <2>4. \A n \in 1 .. Len(alive) : alive[n] = Order[n]
        BY DEF Stack
  <2>5. \A n \in 1 .. Len(alive') : alive'[n] = Order[n]
        BY <2>2, <2>3, <2>4
  <2>6. Len(alive') <= Len(Order) /\ object = Order[Len(alive)]
        BY <2>1, <2>2, <2>3, <2>4 DEF Stack
  <2>   QED BY <2>2, <2>3, <2>5, <2>6, <1>2 DEF Stack, Destroys
<1>   QED BY <1>1, <1>2

\* Where a handler is found depends on the handlers alone.
LEMMA SameAnswer ==
  ASSUME ServedByAll, UNCHANGED <<handlers, request>>, request # NoPage => where' # "setup"
  PROVE  ServedByAll'
<1>1. request' = request
      OBVIOUS
<1>2. FindHandler(request[1])' = FindHandler(request[1])
      BY <1>1 DEF FindHandler
<1>   QED BY <1>1, <1>2 DEF ServedByAll

\* During the set-up nobody has been answered.
LEMMA NoAnswer ==
  ASSUME ServedByAll, where = "setup", UNCHANGED request
  PROVE  ServedByAll' /\ request = NoPage
BY DEF ServedByAll

LEMMA SetupInvInit == SetupInit => SetupInv
<1>   SUFFICES ASSUME SetupInit PROVE SetupInv
      OBVIOUS
<1>1. Stack /\ Height = 0
      BY OrderLength DEF SetupInit, Stack, Height
<1>2. ListOwned
      BY <1>1 DEF SetupInit, ListOwned
<1>3. ServerOwned
      BY <1>1 DEF SetupInit, ServerOwned
<1>4. RunsWithAll /\ ServedByAll
      BY DEF SetupInit, RunsWithAll, ServedByAll
<1>   QED BY <1>1, <1>2, <1>3, <1>4 DEF SetupInv

\* An object is constructed that owns nothing.
LEMMA PlainPushed ==
  ASSUME SetupInv,
         NEW object \in {"configuration", "watchdog", "sigs1", "sigs2", "hooks"},
         Constructs(object), UNCHANGED <<vars, startVars, listVars, webVars>>
  PROVE  SetupInv'
<1>1. Height \in Nat /\ object \in Objects
      BY DEF SetupInv, Stack, Height, Objects
<1>2. /\ Stack' /\ Height' = Height + 1 /\ object = Order[Height']
      /\ Height < 8 /\ where = "setup" /\ where' = where
      BY <1>1, PushPop DEF SetupInv
<1>3. Height' # 3 /\ Height' # 6 /\ Height' # 7
      BY <1>2 DEF Order
<1>4. ListOwned'
      BY <1>1, <1>2, <1>3 DEF SetupInv, ListOwned, listVars
<1>5. ServerOwned'
      BY <1>1, <1>2, <1>3 DEF SetupInv, ServerOwned, SettingUp, vars, startVars, webVars
<1>6. ServedByAll'
      BY <1>2, NoAnswer DEF SetupInv, webVars
<1>   QED BY <1>2, <1>4, <1>5, <1>6 DEF SetupInv, RunsWithAll

\* The other objects.
LEMMA OwnersPushed ==
  ASSUME SetupInv, ConstructActions \/ ConstructServer \/ ConstructStatusPage
  PROVE  SetupInv'
<1>1. Height \in Nat
      BY DEF SetupInv, Stack, Height
<1>2. CASE ConstructActions
  <2>1. /\ Stack' /\ Height' = Height + 1 /\ "actions" = Order[Height']
        /\ Height < 8 /\ where = "setup" /\ where' = where
        BY <1>2, PushPop DEF SetupInv, ConstructActions, Objects
  <2>2. Height' = 3
        BY <1>1, <2>1 DEF Order
  <2>3. ListOwned'
        BY <1>2, <2>1, <2>2 DEF SetupInv, ConstructActions, ListOwned
  <2>4. UNCHANGED <<handlers, startVars, webVars>>
        BY <1>2 DEF ConstructActions, Aborts, HooksUntouched, vars
  <2>5. ServerOwned'
        BY <1>1, <2>1, <2>2, <2>4 DEF SetupInv, ServerOwned, SettingUp, startVars, webVars
  <2>6. ServedByAll'
        BY <2>1, <2>4, NoAnswer DEF SetupInv, webVars
  <2>   QED BY <2>1, <2>3, <2>5, <2>6 DEF SetupInv, RunsWithAll
<1>3. CASE ConstructServer
  <2>1. /\ Stack' /\ Height' = Height + 1 /\ "httpd" = Order[Height']
        /\ Height < 8 /\ where = "setup" /\ where' = where
        BY <1>3, PushPop DEF SetupInv, ConstructServer, Objects
  <2>2. Height' = 6
        BY <1>1, <2>1 DEF Order
  <2>3. ListOwned'
        BY <1>1, <1>3, <2>1, <2>2 DEF SetupInv, ConstructServer, ListOwned, listVars
  <2>4. ServerOwned'
        BY <1>1, <1>3, <2>1, <2>2 DEF SetupInv, ConstructServer, ServerOwned, SettingUp, vars, webVars
  <2>5. ServedByAll'
        BY <1>3, <2>1, NoAnswer DEF SetupInv, ConstructServer, webVars
  <2>   QED BY <2>1, <2>3, <2>4, <2>5 DEF SetupInv, RunsWithAll
<1>4. CASE ConstructStatusPage
  <2>1. /\ Stack' /\ Height' = Height + 1 /\ "statusPage" = Order[Height']
        /\ Height < 8 /\ where = "setup" /\ where' = where
        BY <1>4, PushPop DEF SetupInv, ConstructStatusPage, Objects
  <2>2. Height' = 7 /\ listener # "none"
        BY <1>1, <1>4, <2>1 DEF Order, ConstructStatusPage, Constructs, MayConstruct, ServerStarted
  <2>3. ListOwned'
        BY <1>1, <1>4, <2>1, <2>2 DEF SetupInv, ConstructStatusPage, ListOwned, listVars
  <2>4. ServerOwned'
    <3>1. UNCHANGED <<startVars, webVars>>
          BY <1>4 DEF ConstructStatusPage
    <3>   QED BY <1>1, <2>1, <2>2, <3>1 DEF SetupInv, ServerOwned, startVars, webVars
  <2>5. ServedByAll'
        BY <1>4, <2>1, NoAnswer DEF SetupInv, ConstructStatusPage, webVars
  <2>   QED BY <2>1, <2>3, <2>4, <2>5 DEF SetupInv, RunsWithAll
<1>   QED BY <1>2, <1>3, <1>4

\* A step that fails, or does not concern the objects.
LEMMA Idle ==
  ASSUME SetupInv, UNCHANGED <<alive, where, handlers, listVars>>, request' = request,
         UNCHANGED <<reading, options, daemon, listener>>, options # <<>> => startup' = startup
  PROVE  SetupInv'
<1>1. Stack' /\ Height' = Height
      BY DEF SetupInv, Stack, Height
<1>2. ListOwned'
      BY <1>1 DEF SetupInv, ListOwned, listVars
<1>3. ServerOwned'
      BY <1>1 DEF SetupInv, ServerOwned, SettingUp
<1>4. ServedByAll'
      BY SameAnswer DEF SetupInv, ServedByAll
<1>   QED BY <1>1, <1>2, <1>3, <1>4 DEF SetupInv, RunsWithAll

\* The server reads its settings and starts.
LEMMA ServerSteps ==
  ASSUME SetupInv,
         (\E value : ReadSetting(value)) \/ BuildOptions \/ StartServer \/ StartServerThrows
  PROVE  SetupInv'
<1>1. /\ UNCHANGED <<mainVars, listVars, webVars, handlers>>
      /\ SettingUp
      /\ reading # 0 \/ options # <<>>
      BY DEF ReadSetting, BuildOptions, StartServer, StartServerThrows, SettingUp, Settings,
             Throws, Aborts, HooksUntouched, vars
<1>2. Stack' /\ Height' = Height
      BY <1>1 DEF SetupInv, Stack, Height, mainVars
<1>3. ListOwned'
      BY <1>1, <1>2 DEF SetupInv, ListOwned, listVars
<1>4. ServedByAll' /\ RunsWithAll'
      BY <1>1, NoAnswer DEF SetupInv, ServerOwned, SettingUp, mainVars, webVars, RunsWithAll
<1>5. Height = 6 /\ listener = "none"
      BY <1>1 DEF SetupInv, ServerOwned
<1>6. ServerOwned'
  <2>1. CASE \E value : ReadSetting(value)
    <3>1. reading # 0 /\ UNCHANGED <<options, daemon, listener>>
          BY <2>1 DEF ReadSetting, Settings
    <3>   QED BY <1>1, <1>2, <1>5, <3>1 DEF SetupInv, ServerOwned
  <2>2. CASE BuildOptions
        BY <1>1, <1>2, <1>5, <2>2 DEF SetupInv, ServerOwned, BuildOptions, SettingUp, vars, mainVars
  <2>3. CASE StartServer
        BY <1>1, <1>2, <1>5, <2>3 DEF SetupInv, ServerOwned, StartServer
  <2>4. CASE StartServerThrows
        BY <1>1, <1>2, <1>5, <2>4 DEF SetupInv, ServerOwned, StartServerThrows
  <2>   QED BY <2>1, <2>2, <2>3, <2>4
<1>   QED BY <1>2, <1>3, <1>4, <1>6 DEF SetupInv
\* The hooks are made when everything else is there.
LEMMA HookSteps ==
  ASSUME SetupInv, (\E path : CreateHook(path)) \/ CreateHookThrows \/ Run
  PROVE  SetupInv'
<1>1. /\ UNCHANGED <<alive, restart, startVars, listVars, webVars>>
      /\ where = "setup" /\ Contains(alive, "hooks")
      BY DEF CreateHook, CreateHookThrows, Run, MakingHooks, SettingUp, mainVars
<1>2. Stack' /\ Height' = Height /\ Height = 8
      BY <1>1, OrderLength, AliveByLength DEF SetupInv, Stack, Height
<1>3. ListOwned'
      BY <1>1, <1>2 DEF SetupInv, ListOwned, listVars
<1>4. ServerOwned'
      BY <1>1, <1>2 DEF SetupInv, ServerOwned, startVars
<1>5. ServedByAll' /\ RunsWithAll'
      BY <1>1, <1>2, NoAnswer DEF SetupInv, webVars, RunsWithAll
<1>   QED BY <1>2, <1>3, <1>4, <1>5 DEF SetupInv

\* The event loop runs, and ends.
LEMMA LoopSteps ==
  ASSUME SetupInv, Connect \/ EventCb \/ ActionsDone \/ Stop
  PROVE  SetupInv'
<1>1. UNCHANGED <<alive, handlers, reading, options, daemon, listener, singleton, startup>>
      BY DEF Connect, EventCb, ActionsDone, Stop, mainVars, startVars, listVars, vars
<1>2. Stack' /\ Height' = Height
      BY <1>1 DEF SetupInv, Stack, Height
<1>3. \/ where' = where
      \/ where = "running" /\ where' = "stopped"
      BY DEF Connect, EventCb, ActionsDone, Stop, mainVars
<1>4. where = "running" => Height = 8 /\ options = <<>>
      BY DEF SetupInv, RunsWithAll, ServerOwned, SettingUp
<1>5. ListOwned'
  <2>1. \/ pending' = pending \/ pending' = FALSE
        \/ where = "running"
        BY DEF Connect, EventCb, ActionsDone, Stop, listVars
  <2>   QED BY <1>1, <1>2, <1>4, <2>1 DEF SetupInv, ListOwned
<1>6. request' = request \/ where = "running"
      BY DEF Connect, EventCb, ActionsDone, Stop, webVars
<1>7. ServerOwned'
      BY <1>1, <1>2, <1>3, <1>4, <1>6 DEF SetupInv, ServerOwned, SettingUp
<1>8. ServedByAll'
  <2>1. CASE EventCb /\ waiting
    <3>1. PICK path \in Paths : request' = <<path, FindHandler(path)>>
          BY <2>1 DEF EventCb
    <3>2. FindHandler(path)' = FindHandler(path)
          BY <1>1 DEF FindHandler
    <3>   QED BY <2>1, <3>1, <3>2 DEF ServedByAll, EventCb, mainVars
  <2>2. CASE ~(EventCb /\ waiting)
    <3>1. UNCHANGED request
          BY <2>2 DEF Connect, EventCb, ActionsDone, Stop, webVars
    <3>   QED BY <1>1, <1>3, <3>1, SameAnswer DEF SetupInv, ServedByAll
  <2>   QED BY <2>1, <2>2
<1>9. RunsWithAll'
      BY <1>2, <1>3 DEF SetupInv, RunsWithAll
<1>   QED BY <1>2, <1>5, <1>7, <1>8, <1>9 DEF SetupInv
\* An object is destroyed that owns nothing that is checked here.
LEMMA PlainPopped ==
  ASSUME SetupInv, DestroyPlain \/ DestroyHooks
  PROVE  SetupInv'
<1>1. PICK object \in Objects \ {"actions", "httpd"} : Destroys(object)
      BY DEF DestroyPlain, DestroyHooks, Objects
<1>2. UNCHANGED <<handlers, startVars, listVars, webVars, startup>>
      BY DEF DestroyPlain, DestroyHooks, Destroys, vars
<1>3. /\ Stack' /\ Height' = Height - 1 /\ object = Order[Height]
      /\ Height >= 1 /\ where' = where /\ TakingDown
      BY <1>1, PushPop DEF SetupInv
<1>4. Height \in Nat /\ Height # 3 /\ Height # 6
      BY <1>1, <1>3 DEF SetupInv, Stack, Height, Order
<1>5. options = <<>> /\ (reading # 0 => FALSE)
      BY <1>3, <1>4 DEF SetupInv, ServerOwned
<1>6. ListOwned'
      BY <1>2, <1>3, <1>4 DEF SetupInv, ListOwned, listVars
<1>7. ServerOwned'
      BY <1>2, <1>3, <1>4, <1>5 DEF SetupInv, ServerOwned, startVars, webVars
<1>8. ServedByAll'
      BY <1>2, <1>3, SameAnswer DEF SetupInv, ServedByAll, webVars
<1>9. where # "running"
      BY <1>3 DEF TakingDown
<1>   QED BY <1>3, <1>6, <1>7, <1>8, <1>9 DEF SetupInv, RunsWithAll

\* The list of actions and the server give back what they own.
LEMMA OwnersPopped ==
  ASSUME SetupInv, DestroyActions \/ DestroyServer
  PROVE  SetupInv'
<1>1. CASE DestroyActions
  <2>1. /\ Stack' /\ Height' = Height - 1 /\ "actions" = Order[Height]
        /\ Height >= 1 /\ where' = where /\ TakingDown
        BY <1>1, PushPop DEF SetupInv, DestroyActions, Objects
  <2>2. Height = 3 /\ where # "running"
        BY <2>1, OrderLength DEF SetupInv, Stack, Height, Order, TakingDown
  <2>3. ListOwned'
        BY <1>1, <2>1, <2>2 DEF ListOwned, DestroyActions
  <2>4. ServerOwned'
        BY <1>1, <2>1, <2>2 DEF SetupInv, ServerOwned, DestroyActions, startVars, webVars, vars
  <2>5. ServedByAll'
    <3>1. UNCHANGED <<handlers, request>>
          BY <1>1 DEF DestroyActions, vars, webVars
    <3>   QED BY <2>1, <3>1, SameAnswer DEF SetupInv, ServedByAll
  <2>   QED BY <2>1, <2>2, <2>3, <2>4, <2>5 DEF SetupInv, RunsWithAll
<1>2. CASE DestroyServer
  <2>1. /\ Stack' /\ Height' = Height - 1 /\ "httpd" = Order[Height]
        /\ Height >= 1 /\ where' = where /\ TakingDown
        BY <1>2, PushPop DEF SetupInv, DestroyServer, Objects
  <2>2. Height = 6 /\ where # "running"
        BY <2>1, OrderLength DEF SetupInv, Stack, Height, Order, TakingDown
  <2>3. ListOwned'
        BY <1>2, <2>1, <2>2 DEF SetupInv, ListOwned, DestroyServer, listVars
  <2>4. options = <<>>
        BY <1>2 DEF SetupInv, ServerOwned, DestroyServer, Destroys, TakingDown, SettingUp
  <2>5. ServerOwned'
        BY <1>2, <2>1, <2>2, <2>4 DEF ServerOwned, DestroyServer
  <2>6. ServedByAll'
        BY <1>2 DEF ServedByAll, DestroyServer
  <2>   QED BY <2>1, <2>2, <2>3, <2>5, <2>6 DEF SetupInv, RunsWithAll
<1>   QED BY <1>1, <1>2

\* A reload begins without any object, so that nobody has been answered.
LEMMA GenerationSteps ==
  ASSUME SetupInv, NextGeneration \/ End
  PROVE  SetupInv'
<1>1. UNCHANGED <<alive, vars, startVars, listVars, webVars>> /\ where' # "running"
      BY DEF NextGeneration, End
<1>2. Stack' /\ Height' = Height /\ Height = 0
      BY <1>1 DEF SetupInv, Stack, Height, NextGeneration, End
<1>3. request = NoPage /\ options = <<>>
      BY <1>2 DEF SetupInv, ServerOwned
<1>4. ListOwned'
      BY <1>1, <1>2 DEF SetupInv, ListOwned, listVars
<1>5. ServerOwned'
      BY <1>1, <1>2, <1>3 DEF SetupInv, ServerOwned, startVars, webVars, vars
<1>6. ServedByAll'
      BY <1>1, <1>3 DEF ServedByAll, webVars
<1>   QED BY <1>1, <1>2, <1>4, <1>5, <1>6 DEF SetupInv, RunsWithAll

LEMMA SetupInvStep == SetupInv /\ [SetupNext]_setupVars => SetupInv'
<1>   SUFFICES ASSUME SetupInv, [SetupNext]_setupVars
               PROVE  SetupInv'
      OBVIOUS
<1>1. CASE ConstructPlain
      BY <1>1, PlainPushed DEF ConstructPlain
<1>2. CASE ConstructActions \/ ConstructServer \/ ConstructStatusPage
      BY <1>2, OwnersPushed
<1>3. CASE ConfigurationThrows
  <2>1. PICK object \in {"configuration", "httpd", "hooks"} : MayConstruct(object)
        BY <1>3 DEF ConfigurationThrows
  <2>2. options = <<>>
    <3>1. Height \in Nat /\ object = Order[Height + 1]
          BY <2>1 DEF SetupInv, Stack, Height, MayConstruct
    <3>2. Height # 6
          BY <2>1, <3>1 DEF Order
    <3>   QED BY <3>2 DEF SetupInv, ServerOwned
  <2>   QED BY <1>3, <2>2, Idle
            DEF ConfigurationThrows, Throws, HooksUntouched, mainVars, startVars, webVars
<1>4. CASE (\E value : ReadSetting(value)) \/ BuildOptions \/ StartServer \/ StartServerThrows
      BY <1>4, ServerSteps
<1>5. CASE (\E path : CreateHook(path)) \/ CreateHookThrows \/ Run
      BY <1>5, HookSteps
<1>6. CASE DestroyPlain \/ DestroyHooks
      BY <1>6, PlainPopped
<1>7. CASE DestroyActions \/ DestroyServer
      BY <1>7, OwnersPopped
<1>8. CASE NextGeneration \/ End
      BY <1>8, GenerationSteps
<1>9. CASE Connect \/ EventCb \/ ActionsDone \/ Stop
      BY <1>9, LoopSteps
<1>10. CASE Rest \/ UNCHANGED setupVars
      BY <1>10, Idle DEF Rest, setupVars, vars, mainVars, startVars, webVars
<1>   QED BY <1>1, <1>2, <1>3, <1>4, <1>5, <1>6, <1>7, <1>8, <1>9, <1>10 DEF SetupNext, Progress

THEOREM SetupInvariant == SetupSpec => []SetupInv
<1>1. SetupInit => SetupInv
      BY SetupInvInit
<1>2. SetupInv /\ [SetupNext]_setupVars => SetupInv'
      BY SetupInvStep
<1>   QED BY <1>1, <1>2, PTL DEF SetupSpec

-----------------------------------------------------------------------------

\* Whichever step of the set-up has thrown, and over any number of reloads: nothing
\* outlives its object, no open port, no event of libevent, no handler and no
\* singleton that the next generation would trip over.
THEOREM SetupNothingLeft == SetupSpec => []NothingLeft
<1>1. SetupInv => NothingLeft
  <2>   SUFFICES ASSUME SetupInv PROVE NothingLeft
        OBVIOUS
  <2>1. ~Contains(alive, "httpd") => Height < 6
        BY OrderLength, AliveByLength DEF SetupInv, Stack, Height
  <2>2. ~Contains(alive, "actions") => Height < 3
        BY OrderLength, AliveByLength DEF SetupInv, Stack, Height
  <2>3. ~Contains(alive, "httpd") => ~daemon /\ listener = "none" /\ handlers = <<>>
        BY <2>1 DEF SetupInv, ServerOwned
  <2>4. Height < 3 => ~singleton /\ ~pending
    <3>1. Height \in Nat
          BY DEF SetupInv, Stack, Height
    <3>   QED BY <3>1 DEF SetupInv, ListOwned
  <2>   QED BY <2>2, <2>3, <2>4 DEF NothingLeft
<1>   QED BY <1>1, SetupInvariant, PTL

\* While the event loop runs, all that its callbacks refer to is there; and no
\* action outlives the configuration that its name lies in.
THEOREM SetupNothingDangles == SetupSpec => []NothingDangles
<1>1. SetupInv => NothingDangles
  <2>   SUFFICES ASSUME SetupInv PROVE NothingDangles
        OBVIOUS
  <2>1. pending => Contains(alive, "configuration")
    <3>1. pending => Height >= 3
          BY DEF SetupInv, ListOwned
    <3>2. Height \in Nat /\ (Height >= 1 => Contains(alive, "configuration"))
          BY AliveByLength DEF SetupInv, Stack, Height
    <3>   QED BY <3>1, <3>2
  <2>2. ASSUME where = "running", ServerStarted
        PROVE  ToSet(alive) = ToSet(Order) /\ singleton /\ daemon
    <3>1. Height = 8
          BY <2>2 DEF SetupInv, RunsWithAll
    <3>2. singleton /\ daemon
          BY <2>2, <3>1 DEF SetupInv, ListOwned, ServerOwned, ServerStarted
    <3>3. DOMAIN alive = DOMAIN Order /\ \A n \in DOMAIN Order : alive[n] = Order[n]
          BY <3>1, OrderLength DEF SetupInv, Stack, Height
    <3>   QED BY <3>2, <3>3 DEF ToSet
  <2>   QED BY <2>1, <2>2 DEF NothingDangles
<1>   QED BY <1>1, SetupInvariant, PTL

\* A client that connects while hooks are still being made is answered by the
\* handlers of all of them: what is found for a request is what is found in the
\* end, and no request is directed during the set-up.
THEOREM SetupServedByAll == SetupSpec => []ServedByAll
<1>1. SetupInv => ServedByAll
      BY DEF SetupInv
<1>   QED BY <1>1, SetupInvariant, PTL
-----------------------------------------------------------------------------
(* The hooks and their handlers *)

\* There are no hooks before the vector of hooks; until then the status page has the
\* only handler.  After the vector is destroyed, handlers refer to hooks that are gone.
HooksBuilt ==
  /\ DOMAIN handlers \subseteq Paths
  /\ Height < 8 => uri_path = <<>> /\ heads = <<>> /\ mChain = <<>>
  /\ Height < 8 /\ SettingUp => \A p \in DOMAIN handlers : p = StatusPath /\ handlers[p] = 0
  /\ Height = 8 => RouteInv

LEMMA HeightIs == SetupInv => Height \in Nat /\ Height <= 8
BY OrderLength DEF SetupInv, Stack, Height

\* A step that makes neither a hook nor a handler.
LEMMA BuiltStays ==
  ASSUME SetupInv, HooksBuilt, UNCHANGED <<uri_path, heads, mChain, handlers>>,
         Height' = 8 <=> Height = 8, Height' < 8 <=> Height < 8,
         startup' = "loading" => startup = "loading",
         SettingUp' => SettingUp \/ handlers = <<>>
  PROVE  HooksBuilt'
<1>1. Height' = 8 => RouteInv'
      BY RouteStays DEF HooksBuilt
<1>2. Height' < 8 /\ SettingUp' => \A p \in DOMAIN handlers' : p = StatusPath /\ handlers'[p] = 0
  <2>1. handlers = <<>> => DOMAIN handlers = {}
        BY EmptySeq
  <2>2. QED  BY <2>1 DEF HooksBuilt
<1>3. QED  BY <1>1, <1>2 DEF HooksBuilt

LEMMA HooksBuiltPushed ==
  ASSUME SetupInv, HooksBuilt,
         ConstructPlain \/ ConstructActions \/ ConstructServer \/ ConstructStatusPage
  PROVE  HooksBuilt'
<1>1. Height \in Nat /\ Height <= 8
      BY HeightIs
<1>2. CASE ConstructPlain
  <2>1. PICK object \in Objects : Constructs(object)
        BY <1>2 DEF ConstructPlain, Objects
  <2>2. /\ Height' = Height + 1 /\ object = Order[Height'] /\ where' = where /\ Height < 8
        /\ SettingUp
        BY <2>1, PushPop DEF SetupInv, Constructs, MayConstruct
  <2>3. UNCHANGED <<uri_path, heads, mChain, handlers, startup>>
        BY <1>2 DEF ConstructPlain, vars
  <2>4. CASE Height = 7
    <3>1. RouteInv
          BY <2>2, <2>4, RouteInitInv DEF HooksBuilt
    <3>2. RouteInv'
          BY <2>3, <3>1, RouteStays
    <3>3. Height' = 8 /\ ~(Height' < 8)
          BY <2>2, <2>4
    <3>4. QED  BY <2>3, <3>2, <3>3 DEF HooksBuilt
  <2>5. CASE Height # 7
    <3>1. (Height' = 8 <=> Height = 8) /\ (Height' < 8 <=> Height < 8)
          BY <1>1, <2>2, <2>5
    <3>2. QED  BY <2>2, <2>3, <3>1, BuiltStays
  <2>6. QED  BY <2>4, <2>5
<1>3. CASE ConstructActions \/ ConstructServer
  <2>1. PICK object \in {"actions", "httpd"} : Constructs(object)
        BY <1>3 DEF ConstructActions, ConstructServer
  <2>2. /\ Height' = Height + 1 /\ object = Order[Height'] /\ where' = where /\ Height < 8
        /\ SettingUp
        BY <2>1, PushPop DEF SetupInv, Constructs, MayConstruct, Objects
  <2>3. Height # 7
        BY <2>1, <2>2 DEF Order
  <2>4. /\ UNCHANGED <<uri_path, heads, mChain, handlers>>
        /\ startup' = "loading" => startup = "loading"
        BY <1>3 DEF ConstructActions, ConstructServer, Aborts, HooksUntouched, vars
  <2>5. (Height' = 8 <=> Height = 8) /\ (Height' < 8 <=> Height < 8)
        BY <1>1, <2>2, <2>3
  <2>6. QED  BY <2>2, <2>4, <2>5, BuiltStays
<1>4. CASE ConstructStatusPage
  <2>1. /\ Height' = Height + 1 /\ "statusPage" = Order[Height'] /\ Height < 8 /\ SettingUp
        BY <1>4, PushPop DEF SetupInv, Constructs, MayConstruct, Objects, ConstructStatusPage
  <2>2. Height' = 7
        BY <1>1, <2>1 DEF Order
  <2>3. /\ handlers' = [p \in DOMAIN handlers \union {StatusPath} |->
                          IF p = StatusPath THEN 0 ELSE handlers[p]]
        /\ UNCHANGED <<uri_path, heads, mChain>>
        BY <1>4 DEF ConstructStatusPage
  <2>4. /\ uri_path = <<>> /\ heads = <<>> /\ mChain = <<>> /\ DOMAIN handlers \subseteq Paths
        /\ \A p \in DOMAIN handlers : p = StatusPath /\ handlers[p] = 0
        BY <2>1 DEF HooksBuilt
  <2>5. DOMAIN handlers' \subseteq Paths
        BY <2>3, <2>4, StatusIsPath
  <2>6. \A p \in DOMAIN handlers' : p = StatusPath /\ handlers'[p] = 0
        BY <2>3, <2>4
  <2>7. Height' # 8
        BY <2>2
  <2>8. QED  BY <2>3, <2>4, <2>5, <2>6, <2>7 DEF HooksBuilt
<1>5. QED  BY <1>2, <1>3, <1>4

LEMMA HooksBuiltPopped ==
  ASSUME SetupInv, HooksBuilt, DestroyPlain \/ DestroyHooks \/ DestroyServer \/ DestroyActions
  PROVE  HooksBuilt'
<1>1. Height \in Nat /\ Height <= 8
      BY HeightIs
<1>2. PICK object \in Objects : Destroys(object)
      BY DEF DestroyPlain, DestroyHooks, DestroyServer, DestroyActions, Objects
<1>3. /\ Height' = Height - 1 /\ object = Order[Height] /\ Height >= 1
      /\ where' = where /\ startup' = startup /\ TakingDown
      BY <1>2, PushPop DEF SetupInv, Destroys
<1>4. Height' < 8 /\ Height' # 8 /\ ~SettingUp'
      BY <1>1, <1>3 DEF TakingDown, SettingUp
<1>5. Height = 8 => object = "hooks"
      BY <1>3 DEF Order
<1>6. CASE DestroyPlain \/ DestroyActions
  <2>1. object # "hooks" /\ UNCHANGED <<uri_path, heads, mChain, handlers>>
        BY <1>2, <1>6 DEF DestroyPlain, DestroyActions, Destroys, vars
  <2>2. Height < 8
        BY <1>1, <1>5, <2>1
  <2>3. QED  BY <1>4, <2>1, <2>2 DEF HooksBuilt
<1>7. CASE DestroyHooks
      BY <1>4, <1>7 DEF HooksBuilt, DestroyHooks
<1>8. CASE DestroyServer
  <2>1. object # "hooks" /\ UNCHANGED <<uri_path, heads, mChain>> /\ handlers' = <<>>
        BY <1>2, <1>8 DEF DestroyServer, Destroys
  <2>2. Height < 8 /\ DOMAIN handlers' = {}
        BY <1>1, <1>5, <2>1, EmptySeq
  <2>3. QED  BY <1>4, <2>1, <2>2 DEF HooksBuilt
<1>9. QED  BY <1>6, <1>7, <1>8

LEMMA HooksBuiltStep == SetupInv /\ HooksBuilt /\ [SetupNext]_setupVars => HooksBuilt'
<1>  SUFFICES ASSUME SetupInv, HooksBuilt, [SetupNext]_setupVars
              PROVE  HooksBuilt'
     OBVIOUS
<1>1. CASE ConstructPlain \/ ConstructActions \/ ConstructServer \/ ConstructStatusPage
      BY <1>1, HooksBuiltPushed
<1>2. CASE DestroyPlain \/ DestroyHooks \/ DestroyServer \/ DestroyActions
      BY <1>2, HooksBuiltPopped
<1>3. CASE \E path \in Paths \union {<<>>} : CreateHook(path)
  <2>1. PICK path \in Paths \union {<<>>} : CreateHook(path)
        BY <1>3
  <2>2. /\ MakingHooks /\ UNCHANGED alive
        /\ AddHandler(path) \/ AddHandlerThrows(path) \/ ChainHook(path)
        BY <2>1 DEF CreateHook, mainVars
  <2>3. Height = 8 /\ Height' = 8
    <3>1. Height >= 8
          BY <2>2, AliveByLength DEF MakingHooks, SetupInv, Height
    <3>2. Height' = Height
          BY <2>2 DEF Height
    <3>3. QED  BY <3>1, <3>2, HeightIs
  <2>4. RouteInv'
        BY <2>2, <2>3, RouteStep DEF HooksBuilt
  <2>5. DOMAIN handlers' \subseteq Paths
        BY <2>4 DEF RouteInv, HandlersOfHeads
  <2>6. QED  BY <2>3, <2>4, <2>5 DEF HooksBuilt
<1>4. CASE NextGeneration
  <2>1. UNCHANGED <<vars, alive>> /\ alive = <<>>
        BY <1>4 DEF NextGeneration
  <2>2. Height = 0 /\ Height' = Height
        BY <2>1 DEF Height
  <2>3. handlers = <<>>
        BY <2>2 DEF SetupInv, ServerOwned
  <2>4. QED  BY <2>1, <2>2, <2>3, BuiltStays DEF vars
<1>5. CASE \/ ConfigurationThrows \/ \E value : ReadSetting(value)
           \/ BuildOptions \/ StartServer \/ StartServerThrows \/ CreateHookThrows \/ Run \/ End
           \/ Connect \/ EventCb \/ ActionsDone \/ Stop \/ Rest \/ UNCHANGED setupVars
  <2>1. /\ UNCHANGED <<uri_path, heads, mChain, handlers, alive>>
        /\ where' = "setup" => where = "setup"
        /\ startup' = "loading" => startup = "loading"
    <3>1. CASE \/ ConfigurationThrows \/ \E value : ReadSetting(value)
               \/ BuildOptions \/ StartServer \/ StartServerThrows \/ CreateHookThrows
          BY <3>1 DEF ConfigurationThrows, ReadSetting, BuildOptions, StartServer,
                 StartServerThrows, CreateHookThrows, Throws, Aborts, HooksUntouched, vars, mainVars
    <3>2. CASE \/ Run \/ End \/ Connect \/ EventCb \/ ActionsDone \/ Stop \/ Rest
               \/ UNCHANGED setupVars
          BY <3>2 DEF Run, End, Connect, EventCb, ActionsDone, Stop, Rest, setupVars, vars, mainVars
    <3>3. QED  BY <1>5, <3>1, <3>2
  <2>2. Height' = Height /\ (SettingUp' => SettingUp)
        BY <2>1 DEF Height, SettingUp
  <2>3. QED  BY <2>1, <2>2, BuiltStays
<1>6. QED  BY <1>1, <1>2, <1>3, <1>4, <1>5 DEF SetupNext, Progress

\* The hooks and the handlers fit each other whenever all objects are there.
THEOREM SetupHooksBuilt == SetupSpec => []HooksBuilt
<1>1. SetupInit => HooksBuilt
  <2>1. SetupInit => Height = 0 /\ DOMAIN handlers = {}
        BY EmptySeq DEF SetupInit, Height
  <2>2. QED  BY <2>1 DEF SetupInit, HooksBuilt
<1>2. SetupInv /\ HooksBuilt /\ [SetupNext]_setupVars => HooksBuilt'
      BY HooksBuiltStep
<1>3. QED  BY <1>1, <1>2, SetupInvariant, PTL DEF SetupSpec

\* findHandler() finds the most specific handler of those there are, also while they
\* are being added, and when the program is taken down.
THEOREM SetupMostSpecific == SetupSpec => []FindsMostSpecific
<1>1. HooksBuilt => FindsMostSpecific
      BY MostSpecific DEF HooksBuilt
<1>2. QED  BY <1>1, SetupHooksBuilt, PTL

\* With assertions, every configured hook that is not outdone by one with a slash more
\* is found under its path, alone or with the other one that has it, in their order.
THEOREM SetupReachable ==
  ASSUME Asserts
  PROVE  SetupSpec => []EveryHookReachable
<1>1. SetupInv /\ HooksBuilt => EveryHookReachable
  <2>  SUFFICES ASSUME SetupInv, HooksBuilt PROVE EveryHookReachable
       OBVIOUS
  <2>1. CASE Height = 8
        BY <2>1, Reachable DEF HooksBuilt
  <2>2. CASE Height < 8
    <3>1. DOMAIN uri_path = {}
          BY <2>2, EmptySeq DEF HooksBuilt
    <3>2. QED  BY <3>1 DEF EveryHookReachable
  <2>3. QED  BY <2>1, <2>2, HeightIs
<1>2. QED  BY <1>1, SetupInvariant, SetupHooksBuilt, PTL

-----------------------------------------------------------------------------
(* The options of libmicrohttpd *)

LEMMA Joined ==
  ASSUME NEW S, NEW s \in Seq(S), NEW t \in Seq(S), NEW a \in Nat, NEW b \in Nat,
         Len(s) <= a, Len(t) <= b
  PROVE  s \o t \in Seq(S) /\ Len(s \o t) <= a + b
<1>1. s \o t \in Seq(S) /\ Len(s \o t) = Len(s) + Len(t) /\ Len(s) \in Nat /\ Len(t) \in Nat
      BY ConcatProperties, LenProperties
<1>2. QED  BY <1>1

LEMMA OptionIs ==
  ASSUME NEW S, NEW o \in S
  PROVE  Option(o) \in Seq(S) /\ Len(Option(o)) <= 1
<1>1. <<>> \in Seq(S) /\ Len(<<>>) = 0
      BY EmptySeq
<1>2. <<o>> \in Seq(S) /\ Len(<<o>>) = 1
      OBVIOUS
<1>3. QED  BY <1>1, <1>2 DEF Option

LEMMA OptionsAtMostEight == Len(Options) <= 8 /\ Last(Options) = "end"
<1>  DEFINE S  == ToSet(Settings) \union {"timeout", "end"}
            o1 == Option("ip") \o Option("max_connections")
            o2 == o1 \o Option("max_connections_per_ip")
            o3 == o2 \o Option("memory_limit")
            o4 == o3 \o <<"timeout">>
            o5 == o4 \o Option("certificate")
            o6 == o5 \o Option("private_key")
            e  == <<"end">>
<1>0. /\ "ip" \in S /\ "max_connections" \in S /\ "max_connections_per_ip" \in S
      /\ "memory_limit" \in S /\ "certificate" \in S /\ "private_key" \in S /\ "end" \in S
      BY DEF ToSet, Settings
<1>2. <<"timeout">> \in Seq(S) /\ Len(<<"timeout">>) <= 1
  <2>1. "timeout" \in S
        OBVIOUS
  <2>   HIDE DEF S
  <2>2. QED  BY <2>1
<1>3. e \in Seq(S) /\ Len(e) = 1 /\ e[1] = "end"
  <2>1. "end" \in S
        OBVIOUS
  <2>   HIDE DEF S
  <2>2. QED  BY <2>1
<1>  HIDE DEF S
<1>1. \A o \in S : Option(o) \in Seq(S) /\ Len(Option(o)) <= 1
      BY OptionIs
<1>  HIDE DEF e
<1>4. o1 \in Seq(S) /\ Len(o1) <= 2
  <2>1. Option("ip") \in Seq(S) /\ Len(Option("ip")) <= 1
        BY <1>0, <1>1
  <2>2. Option("max_connections") \in Seq(S) /\ Len(Option("max_connections")) <= 1
        BY <1>0, <1>1
  <2>3. 1 \in Nat /\ 1 + 1 = 2
        OBVIOUS
  <2>4. QED  BY <2>1, <2>2, <2>3, Joined
<1>  HIDE DEF o1
<1>5. o2 \in Seq(S) /\ Len(o2) <= 3
  <2>1. Option("max_connections_per_ip") \in Seq(S) /\ Len(Option("max_connections_per_ip")) <= 1
        BY <1>0, <1>1
  <2>2. 2 \in Nat /\ 1 \in Nat /\ 2 + 1 = 3
        OBVIOUS
  <2>3. QED  BY <1>4, <2>1, <2>2, Joined
<1>  HIDE DEF o2
<1>6. o3 \in Seq(S) /\ Len(o3) <= 4
  <2>1. Option("memory_limit") \in Seq(S) /\ Len(Option("memory_limit")) <= 1
        BY <1>0, <1>1
  <2>2. 3 \in Nat /\ 1 \in Nat /\ 3 + 1 = 4
        OBVIOUS
  <2>3. QED  BY <1>5, <2>1, <2>2, Joined
<1>  HIDE DEF o3
<1>7. o4 \in Seq(S) /\ Len(o4) <= 5
  <2>1. 4 \in Nat /\ 1 \in Nat /\ 4 + 1 = 5
        OBVIOUS
  <2>2. QED  BY <1>2, <1>6, <2>1, Joined
<1>  HIDE DEF o4
<1>8. o5 \in Seq(S) /\ Len(o5) <= 6
  <2>1. Option("certificate") \in Seq(S) /\ Len(Option("certificate")) <= 1
        BY <1>0, <1>1
  <2>2. 5 \in Nat /\ 1 \in Nat /\ 5 + 1 = 6
        OBVIOUS
  <2>3. QED  BY <1>7, <2>1, <2>2, Joined
<1>  HIDE DEF o5
<1>9. PICK k \in Nat : o6 \in Seq(S) /\ Len(o6) = k /\ k <= 7
  <2>1. Option("private_key") \in Seq(S) /\ Len(Option("private_key")) <= 1
        BY <1>0, <1>1
  <2>2. 6 \in Nat /\ 1 \in Nat /\ 6 + 1 = 7
        OBVIOUS
  <2>3. o6 \in Seq(S) /\ Len(o6) <= 7
        BY <1>8, <2>1, <2>2, Joined
  <2>4. Len(o6) \in Nat
        BY <2>3, LenProperties
  <2>  HIDE DEF o6
  <2>5. QED  BY <2>3, <2>4
<1>  HIDE DEF o6
<1>10. Len(o6 \o e) = k + 1 /\ (o6 \o e)[k + 1] = "end"
  <2>1. o6 \o e = Append(o6, "end") /\ "end" \in S
        BY <1>0, <1>9, AppendIsConcat DEF e
  <2>2. QED  BY <1>9, <2>1, AppendProperties
<1>11. Options = o6 \o e
       BY DEF Options, o6, o5, o4, o3, o2, o1, e
<1>12. QED  BY <1>9, <1>10, <1>11 DEF Last

\* start()'s array has room for the options of any configuration.
THEOREM SetupOptionsFit ==
  ASSUME Capacity >= 8
  PROVE  SetupSpec => []OptionsFit
<1>1. SetupInit => OptionsFit
      BY DEF SetupInit, OptionsFit
<1>2. OptionsFit /\ [SetupNext]_setupVars => OptionsFit'
  <2>  SUFFICES ASSUME OptionsFit, [SetupNext]_setupVars PROVE OptionsFit'
       OBVIOUS
  <2>1. options' = options \/ options' = <<>> \/ options' = Options
    <3>1. CASE \E value : ReadSetting(value)
          BY <3>1 DEF ReadSetting
    <3>2. CASE BuildOptions \/ StartServer \/ StartServerThrows
          BY <3>2 DEF BuildOptions, StartServer, StartServerThrows
    <3>3. CASE \/ ConstructPlain \/ ConstructActions \/ ConstructServer \/ ConstructStatusPage
               \/ ConfigurationThrows \/ CreateHookThrows \/ Run \/ NextGeneration \/ End
          BY <3>3 DEF ConstructPlain, ConstructActions, ConstructServer, ConstructStatusPage,
                 ConfigurationThrows, CreateHookThrows, Run, NextGeneration, End, startVars
    <3>4. CASE \/ DestroyPlain \/ DestroyHooks \/ DestroyServer \/ DestroyActions
               \/ \E path : CreateHook(path)
          BY <3>4 DEF DestroyPlain, DestroyHooks, DestroyServer, DestroyActions, CreateHook, startVars
    <3>5. CASE \/ Connect \/ EventCb \/ ActionsDone \/ Stop \/ Rest \/ UNCHANGED setupVars
          BY <3>5 DEF Connect, EventCb, ActionsDone, Stop, Rest, setupVars, startVars
    <3>6. QED  BY <3>1, <3>2, <3>3, <3>4, <3>5 DEF SetupNext, Progress
  <2>2. Len(Options) <= Capacity /\ Last(Options) = "end"
    <3>1. Len(Options) \in Nat => Len(Options) <= Capacity
          BY OptionsAtMostEight, SetupAssumption
    <3>2. QED  BY <3>1, OptionsAtMostEight
  <2>3. QED  BY <2>1, <2>2 DEF OptionsFit
<1>3. QED  BY <1>1, <1>2, PTL DEF SetupSpec
-----------------------------------------------------------------------------
(* Types *)

\* What of SetupTypeOK is not about the objects and the hooks.
PlainTypes ==
  /\ where \in {"setup", "running", "stopped", "over"}
  /\ startup \in {"loading", "failed", "aborted"}
  /\ restart \in BOOLEAN
  /\ reading \in 0 .. Len(Settings) + 1
  /\ fields \in SUBSET ToSet(Settings)
  /\ daemon \in BOOLEAN
  /\ listener \in {"none", "idle", "pending"}
  /\ singleton \in BOOLEAN
  /\ pending \in BOOLEAN
  /\ waiting \in BOOLEAN

LEMMA ReadingTyped ==
  ASSUME PlainTypes, NEW value, ReadSetting(value)
  PROVE  PlainTypes'
<1>1. UNCHANGED <<where, restart, daemon, listener, singleton, pending, waiting>>
      BY DEF ReadSetting, mainVars, listVars, webVars
<1>2. /\ startup' \in {"loading", "failed", "aborted"}
      /\ \/ UNCHANGED <<reading, fields>>
         \/ /\ reading' = reading + 1
            /\ fields' = fields \/ fields' = fields \union {Setting}
      BY DEF PlainTypes, ReadSetting, Throws, Aborts, vars
<1>3. Len(Settings) = 8 /\ DOMAIN Settings = 1 .. 8
      BY DEF Settings
<1>4. reading \in 1 .. 8 /\ Setting \in ToSet(Settings)
      BY <1>3 DEF ReadSetting, Setting, ToSet
<1>5. reading' \in 0 .. Len(Settings) + 1
      BY <1>2, <1>3, <1>4 DEF PlainTypes
<1>6. fields' \in SUBSET ToSet(Settings)
      BY <1>2, <1>4, Zenon DEF PlainTypes
<1>7. QED  BY <1>1, <1>2, <1>5, <1>6 DEF PlainTypes

LEMMA PlainTypesStep == PlainTypes /\ [SetupNext]_setupVars => PlainTypes'
<1>  SUFFICES ASSUME PlainTypes, [SetupNext]_setupVars PROVE PlainTypes'
     OBVIOUS
<1>1. 0 \in 0 .. Len(Settings) + 1 /\ 1 \in 0 .. Len(Settings) + 1
      BY DEF Settings
<1>2. CASE \E value : ReadSetting(value)
      BY <1>2, ReadingTyped
<1>3. CASE BuildOptions \/ StartServer \/ StartServerThrows
      BY <1>1, <1>3 DEF PlainTypes, BuildOptions, StartServer, StartServerThrows, Throws,
             vars, mainVars, listVars, webVars
<1>4. CASE ConstructPlain \/ ConstructServer \/ ConstructStatusPage
      BY <1>1, <1>4 DEF PlainTypes, ConstructPlain, ConstructServer, ConstructStatusPage,
             Constructs, vars, startVars, listVars, webVars
<1>5. CASE ConstructActions \/ ConfigurationThrows \/ CreateHookThrows
      BY <1>5 DEF PlainTypes, ConstructActions, ConfigurationThrows, CreateHookThrows, Constructs,
             Throws, Aborts, vars, mainVars, startVars, listVars, webVars
<1>6. CASE \E path : CreateHook(path)
  <2>1. /\ UNCHANGED <<mainVars, startVars, listVars, webVars>>
        /\ startup' \in {startup, "failed", "aborted"}
    <3>1. PICK path : CreateHook(path)
          BY <1>6
    <3>2. UNCHANGED <<mainVars, startVars, listVars, webVars>>
          BY <3>1 DEF CreateHook
    <3>3. AddHandler(path) => startup' = startup
          BY DEF AddHandler
    <3>4. AddHandlerThrows(path) => startup' = "failed"
          BY DEF AddHandlerThrows
    <3>5. ChainHook(path) => startup' = "aborted" \/ startup' = startup
          BY Zenon DEF ChainHook
    <3>6. startup' \in {startup, "failed", "aborted"}
          BY <3>1, <3>3, <3>4, <3>5 DEF CreateHook
    <3>7. QED  BY <3>2, <3>6
  <2>2. QED  BY <2>1 DEF PlainTypes, mainVars, startVars, listVars, webVars
<1>7. CASE Run \/ NextGeneration \/ End \/ Stop
      BY <1>7 DEF PlainTypes, Run, NextGeneration, End, Stop, vars, startVars, listVars, webVars
<1>8. CASE Connect \/ ActionsDone \/ Rest \/ UNCHANGED setupVars
      BY <1>8 DEF PlainTypes, Connect, ActionsDone, Rest, setupVars, vars, mainVars, startVars,
             listVars, webVars
<1>9. CASE EventCb
  <2>1. /\ UNCHANGED <<vars, mainVars, startVars, singleton>> /\ waiting' = FALSE
        /\ pending' \in {pending, TRUE}
        BY <1>9 DEF EventCb
  <2>2. QED  BY <2>1 DEF PlainTypes, vars, mainVars, startVars
<1>10. CASE DestroyPlain \/ DestroyHooks
       BY <1>10 DEF PlainTypes, DestroyPlain, DestroyHooks, Destroys, startVars, listVars, webVars
<1>11. CASE DestroyServer \/ DestroyActions
       BY <1>1, <1>11 DEF PlainTypes, DestroyServer, DestroyActions, Destroys, vars, startVars,
              listVars, webVars
<1>12. QED  BY <1>2, <1>3, <1>4, <1>5, <1>6, <1>7, <1>8, <1>9, <1>10, <1>11 DEF SetupNext, Progress

\* A beginning in the sense of IsPrefix.
LEMMA StackIsPrefix ==
  ASSUME Stack
  PROVE  IsPrefix(alive, Order)
<1>1. PICK k \in Nat : k = Len(alive) /\ k <= 8
      BY OrderLength DEF Stack
<1>2. alive \in Seq(Objects) /\ Order \in Seq(Objects) /\ Len(Order) = 8
      BY OrderLength DEF Stack
<1>3. SubSeq(alive, 1, k) = alive
      BY <1>1, <1>2, SubSeqFull
<1>4. SubSeq(Order, 1, k) = alive
  <2>1. 1 \in Int /\ k \in Int /\ \A i \in 1 .. k : Order[i] \in Objects
        BY <1>1, <1>2, ElementOfSeq
  <2>2. /\ SubSeq(Order, 1, k) \in Seq(Objects)
        /\ Len(SubSeq(Order, 1, k)) = IF 1 <= k THEN k - 1 + 1 ELSE 0
        /\ \A i \in 1 .. k - 1 + 1 : SubSeq(Order, 1, k)[i] = Order[1 + i - 1]
        BY <2>1, SubSeqProperties
  <2>3. Len(SubSeq(Order, 1, k)) = k /\ \A i \in 1 .. k : SubSeq(Order, 1, k)[i] = Order[i]
        BY <2>2
  <2>4. \A i \in 1 .. k : alive[i] = Order[i]
        BY <1>1 DEF Stack
  <2>5. QED  BY <1>1, <1>2, <2>2, <2>3, <2>4, SeqEqual
<1>5. QED  BY <1>1, <1>2, <1>3, <1>4 DEF IsPrefix

\* Every variable keeps to its values, through any number of generations.
THEOREM SetupTypeCorrect == SetupSpec => []SetupTypeOK
<1>1. SetupInit => PlainTypes
  <2>1. 0 \in 0 .. Len(Settings) + 1
        BY DEF Settings
  <2>2. QED  BY <2>1 DEF SetupInit, PlainTypes
<1>2. SetupSpec => []PlainTypes
      BY <1>1, PlainTypesStep, PTL DEF SetupSpec
<1>3. SetupInv /\ HooksBuilt /\ PlainTypes => SetupTypeOK
  <2>  SUFFICES ASSUME SetupInv, HooksBuilt, PlainTypes PROVE SetupTypeOK
       OBVIOUS
  <2>1. IsPrefix(alive, Order)
        BY StackIsPrefix DEF SetupInv
  <2>2. Contains(alive, "hooks") => RoutingTypeOK
    <3>1. Contains(alive, "hooks") => Height = 8
      <4>1. Contains(alive, "hooks") => Height >= 8
            BY AliveByLength DEF SetupInv, Height
      <4>2. QED  BY <4>1, HeightIs
    <3>2. RouteInv => RoutingTypeOK
          BY DEF RouteInv, HooksTyped, HandlersOfHeads, PlainTypes, RoutingTypeOK
    <3>3. QED  BY <3>1, <3>2 DEF HooksBuilt
  <2>3. QED  BY <2>1, <2>2 DEF PlainTypes, SetupTypeOK
<1>4. QED  BY <1>2, <1>3, SetupInvariant, SetupHooksBuilt, PTL
=============================================================================
