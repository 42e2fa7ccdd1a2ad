------------------------------- MODULE Gateway -------------------------------
(***************************************************************************)
(* From request to command: HookServer composed with SerialExecutor, which *)
(* the list of actions implements.  hook::execute() hands what a hook      *)
(* accepts to action_list::append(); the commands run while further        *)
(* requests are served, long after their own may be over.                  *)
(***************************************************************************)
EXTENDS HookServer

VARIABLES
  waiting,  \* the actions in the list that have not begun, oldest first
  running,  \* the action that has begun, or NoAction
  over      \* the actions that have ended

listVars == <<waiting, running, over>>
gateVars == <<vars, listVars>>

\* An action stands for the hook that scheduled it, and the request it did it for.
Actions == Requests \X Hooks
NoAction == <<NoRequest, 0>>

List == INSTANCE SerialExecutor WITH Items <- Actions, NoItem <- NoAction

GateTypeOK == ServerTypeOK /\ List!SerialTypeOK

GateInit == ServerInit /\ List!SerialInit

\* hook::execute() makes an action and appends it.
Execute_AtFront ==
  /\ HookAccepts
  /\ waiting' = <<<<handling, iter>>>> \o waiting
  /\ UNCHANGED <<running, over>>

Execute_CountOnly == HookAccepts /\ UNCHANGED listVars

Execute == HookAccepts /\ List!Submit(<<handling, iter>>)

\* The other callbacks of libmicrohttpd.
Serve ==
  /\ \/ \E r \in Requests, h \in Headers :
          StaticResponse(r, h) \/ NoPeerAddress(r, h) \/ Refuse(r, h) \/ Accept(r, h)
     \/ \E r \in Requests, n \in Pieces : Content(r, n) \/ TooLarge(r, n)
     \/ \E r \in Requests : WrongState(r) \/ BadBody(r) \/ GoodBody(r) \/ Completed(r)
  /\ UNCHANGED listVars

\* The lambda of hook::operator() goes on through the chain.
GoesOn ==
  /\ SkipHook \/ HookIgnores \/ (\E code \in {400, 500} : HookThrows(code)) \/ EndOfChain
  /\ UNCHANGED listVars

\* A callback of the list of actions, between those of libmicrohttpd.
Work ==
  /\ Idle
  /\ List!Begin \/ List!End \/ List!Pass
  /\ UNCHANGED vars

Sleep == Rest /\ UNCHANGED listVars

GateNext == Execute \/ Serve \/ GoesOn \/ Work \/ Sleep

\* The lambda comes to its end, the list keeps its promise, clients owe nothing.
GateFairness ==
  /\ WF_gateVars(GoesOn \/ Execute)
  /\ WF_gateVars(Work)

GateSpec == GateInit /\ [][GateNext]_gateVars /\ GateFairness

-----------------------------------------------------------------------------
(* Properties *)

Begun == over \union ({running} \ {NoAction})

\* README.md, "Commands are ordered as the incoming requests, and as they appear
\* in the configuration file": no command begins before one of a request that
\* was complete earlier, or of an earlier hook for the same request, whoever else
\* is served meanwhile.  What waits is the rest of the schedule.
OrderedAsRequests ==
  \E n \in 0 .. Len(schedule) :
    /\ Begun = {schedule[k] : k \in 1 .. n}
    /\ waiting = SubSeq(schedule, n + 1, Len(schedule))

\* The answer "accepted" is a promise: whatever becomes of the client and of the
\* requests after it, each hook that accepted is executed to its end.
AcceptedIsExecuted ==
  \A a \in Actions :
    a \in {schedule[n] : n \in Entries} ~> a \in over \/ aborted
=============================================================================
