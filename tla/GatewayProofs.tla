--------------------------- MODULE GatewayProofs ---------------------------
(***************************************************************************)
(* Proofs about HookServer and Gateway, for any number of requests, any    *)
(* length of the chain, any limit and pieces of a body.  ServerInv relates *)
(* the loop over the chain to what was scheduled and answered; GateInv     *)
(* adds what the list has made of the schedule.                            *)
(***************************************************************************)
EXTENDS Gateway, DataLemmas, FiniteSetTheorems

\* What was scheduled for a request.
Mine(r) == {n \in Entries : RequestOf(n) = r}

\* The requests the handler was run for, and those that got to the hook at all.
Answered == {r \in Requests : queued[r] \in {202, 204, 400, 500}}
Entered == Answered \union
           {r \in Requests : state[r] \in {"accepted", "completed", "responded"}}

\* The body of a request has ended exactly while the lambda works for it; before
\* that it had no response.
Handled ==
  \A r \in Requests :
    /\ state[r] = "completed" <=> handling = r
    /\ handling = r => queued[r] = 0
    /\ state[r] = "new" => queued[r] = 0

\* A request that is not answered, or refused, has asked no hook.
Quiet ==
  \A r \in Requests :
    queued[r] \in {0, 401, 403, 404, 405} /\ r # handling =>
      asked[r] = {} /\ Mine(r) = {}

\* The loop has asked the matching hooks up to its variable; it has counted
\* something if it scheduled something, which stands at the end of the schedule.
ChainSoFar ==
  handling # NoRequest =>
    /\ asked[handling] = matches[handling] \intersect (1 .. iter - 1)
    /\ count = 0 <=> Mine(handling) = {}
    /\ \A n \in Mine(handling) :
         /\ HookOf(n) < iter
         /\ \A k \in Entries : n < k => RequestOf(k) = handling

\* AnswerIsTrue, in terms of Mine.
Truthful ==
  \A r \in Requests :
    /\ queued[r] = 202 => Mine(r) # {} /\ asked[r] = matches[r]
    /\ queued[r] = 204 => Mine(r) = {} /\ asked[r] = matches[r]
    /\ queued[r] \in {401, 403, 404, 405} => Mine(r) = {} /\ asked[r] = {}

\* The part of OnlyFittingHooksRun that any build has.
HooksFit == \A n \in Entries : HookOf(n) \in matches[RequestOf(n)]

\* With assertions, nothing comes of a request that lost a piece of its body.
BodyWhole ==
  Asserts => \A r \in Requests :
               truncated[r] => state[r] \in {"responded", "gone"} /\ queued[r] = 0

\* A request that was counted as good was counted before.
Busy == IF handling = NoRequest THEN 0 ELSE 1

Counted ==
  /\ IsFiniteSet(Entered)
  /\ Cardinality(Entered) <= requests
  /\ good = Cardinality(Answered) + Busy
  /\ scheduled = Len(schedule)

ServerInv ==
  /\ ServerTypeOK
  /\ count < iter
  /\ Handled
  /\ Quiet
  /\ ChainSoFar
  /\ HooksFit
  /\ BodyWhole
  /\ ChainOrder
  /\ Truthful
  /\ Counted

-----------------------------------------------------------------------------
(* Types *)

\* ServerTypeOK in two halves: the functions of requests, and the rest.
MapsOK ==
  /\ state \in [Requests -> {"new", "null", "accepted", "completed", "responded", "gone"}]
  /\ queued \in [Requests -> Codes \union {0}]
  /\ matches \in [Requests -> SUBSET Hooks]
  /\ truncated \in [Requests -> BOOLEAN]
  /\ asked \in [Requests -> SUBSET Hooks]

SizesOK == size \in [Requests -> 0 .. ContentLimit]

LoopOK ==
  /\ handling \in Requests \union {NoRequest}
  /\ iter \in 1 .. ChainLength + 1
  /\ count \in 0 .. ChainLength
  /\ count < iter

TotalsOK ==
  /\ schedule \in Seq(Requests \X Hooks)
  /\ requests \in Nat
  /\ good \in Nat
  /\ scheduled \in Nat
  /\ aborted \in BOOLEAN

LEMMA HalvesOfType ==
  ServerTypeOK /\ count < iter <=> MapsOK /\ SizesOK /\ LoopOK /\ TotalsOK
BY DEF ServerTypeOK, MapsOK, SizesOK, LoopOK, TotalsOK

LEMMA ServerTypeInit == ServerInit => MapsOK /\ SizesOK /\ LoopOK /\ TotalsOK
<1> SUFFICES ASSUME ServerInit PROVE MapsOK /\ SizesOK /\ LoopOK /\ TotalsOK
    OBVIOUS
<1> USE DEF ServerInit
<1>1. MapsOK
      BY DEF MapsOK
<1>2. SizesOK /\ LoopOK
      BY ServerAssumption DEF SizesOK, LoopOK
<1>3. TotalsOK
      BY EmptySeq DEF TotalsOK
<1>4. QED  BY <1>1, <1>2, <1>3

LEMMA ServerTypeStep ==
  ASSUME MapsOK, SizesOK, LoopOK, TotalsOK, [ServerNext]_vars
  PROVE  MapsOK' /\ SizesOK' /\ LoopOK' /\ TotalsOK'
<1> USE DEF body, chain
<1>1. ASSUME NEW r \in Requests, NEW h \in Headers,
             StaticResponse(r, h) \/ NoPeerAddress(r, h) \/ Refuse(r, h) \/ Accept(r, h)
      PROVE  MapsOK' /\ SizesOK' /\ LoopOK' /\ TotalsOK'
  <2> USE <1>1 DEF StaticResponse, NoPeerAddress, Refuse, Accept
  <2>1. ServerRefusal(h) \in Codes \union {0} /\ HookRefusal(h) \in Codes \union {0}
        BY DEF ServerRefusal, HookRefusal, Codes
  <2>2. h.fits \in SUBSET Hooks
        BY DEF Headers
  <2>3. MapsOK'
        BY <2>1, <2>2 DEF MapsOK
  <2>4. SizesOK' /\ LoopOK'
        BY DEF SizesOK, LoopOK
  <2>5. TotalsOK'
        BY DEF TotalsOK
  <2>6. QED  BY <2>3, <2>4, <2>5
<1>2. ASSUME NEW r \in Requests, NEW n \in Pieces, Content(r, n) \/ TooLarge(r, n)
      PROVE  MapsOK' /\ SizesOK' /\ LoopOK' /\ TotalsOK'
  <2> USE <1>2 DEF Content, TooLarge
  <2>1. MapsOK'
        BY DEF MapsOK
  <2>2. SizesOK'
        BY ServerAssumption DEF SizesOK
  <2>3. LoopOK'
        BY DEF LoopOK
  <2>4. aborted' \in BOOLEAN
        BY Zenon DEF TotalsOK
  <2>5. UNCHANGED <<schedule, requests, good, scheduled>>
        BY Zenon
  <2>6. TotalsOK'
        BY ONLY TotalsOK, <2>4, <2>5 DEF TotalsOK
  <2>7. QED  BY <2>1, <2>2, <2>3, <2>6
<1>3. ASSUME NEW r \in Requests,
             WrongState(r) \/ BadBody(r) \/ GoodBody(r) \/ Completed(r)
      PROVE  MapsOK' /\ SizesOK' /\ LoopOK' /\ TotalsOK'
  <2> USE <1>3 DEF WrongState, BadBody, GoodBody, Completed
  <2>1. MapsOK'
        BY DEF MapsOK, Codes
  <2>2. SizesOK'
        BY DEF SizesOK
  <2>3. LoopOK'
        BY ServerAssumption DEF LoopOK
  <2>4. UNCHANGED <<schedule, requests, scheduled>> /\ aborted' \in BOOLEAN
        BY Zenon DEF TotalsOK
  <2>5. good' \in Nat
        BY DEF TotalsOK
  <2>6. TotalsOK'
        BY ONLY TotalsOK, <2>4, <2>5 DEF TotalsOK
  <2>7. QED  BY <2>1, <2>2, <2>3, <2>6
<1>4. CASE SkipHook \/ HookIgnores \/ HookAccepts
  <2> USE <1>4 DEF SkipHook, HookIgnores, HookAccepts, Ask, AtHook
  <2>1. handling \in Requests /\ iter \in Hooks
        BY DEF LoopOK
  <2>2. MapsOK'
        BY <2>1 DEF MapsOK
  <2>3. SizesOK'
        BY DEF SizesOK
  <2>4. LoopOK'
        BY <2>1, ServerAssumption DEF LoopOK, Hooks
  <2>5. TotalsOK'
    <3>1. CASE HookAccepts
      <4>1. <<handling, iter>> \in Requests \X Hooks
            BY <2>1
      <4>2. Append(schedule, <<handling, iter>>) \in Seq(Requests \X Hooks)
            BY <4>1, AppendProperties DEF TotalsOK
      <4>3. QED  BY <3>1, <4>2 DEF TotalsOK
    <3>2. QED  BY <3>1 DEF TotalsOK
  <2>6. QED  BY <2>2, <2>3, <2>4, <2>5
<1>5. CASE (\E code \in {400, 500} : HookThrows(code)) \/ EndOfChain
  <2>1. PICK code \in Codes :
          /\ Respond(code)
          /\ asked' = asked \/ Ask
          /\ UNCHANGED <<matches, body, schedule, requests, good, scheduled, aborted>>
        BY <1>5 DEF HookThrows, EndOfChain, Codes
  <2> USE <2>1 DEF Respond, Ask, AtHook
  <2>2. MapsOK'
        BY DEF MapsOK
  <2>3. SizesOK'
        BY DEF SizesOK
  <2>4. LoopOK'
        BY ServerAssumption DEF LoopOK
  <2>5. TotalsOK'
        BY DEF TotalsOK
  <2>6. QED  BY <2>2, <2>3, <2>4, <2>5
<1>6. CASE Rest \/ UNCHANGED vars
      BY <1>6 DEF Rest, vars, MapsOK, SizesOK, LoopOK, TotalsOK
<1>7. QED  BY <1>1, <1>2, <1>3, <1>4, <1>5, <1>6 DEF ServerNext
-----------------------------------------------------------------------------
(* The invariant *)

LEMMA ServerInitInv == ServerInit => ServerInv
<1> SUFFICES ASSUME ServerInit PROVE ServerInv
    OBVIOUS
<1> USE DEF ServerInit
<1>1. ServerTypeOK /\ count < iter
      BY ServerTypeInit, HalvesOfType
<1>2. Entries = {} /\ \A r : Mine(r) = {}
      BY EmptySeq DEF Entries, Mine
<1>3. Handled /\ Quiet /\ ChainSoFar
      BY <1>2, ServerAssumption DEF Handled, Quiet, ChainSoFar
<1>4. HooksFit /\ BodyWhole /\ ChainOrder /\ Truthful
      BY <1>2 DEF HooksFit, BodyWhole, ChainOrder, Truthful
<1>5. Counted
  <2>1. Answered = {} /\ Entered = {}
        BY DEF Answered, Entered
  <2>2. Len(schedule) = 0
        BY EmptySeq
  <2>3. QED  BY <2>1, <2>2, FS_EmptySet DEF Counted, Busy
<1>6. QED  BY <1>1, <1>3, <1>4, <1>5 DEF ServerInv

\* Only execute() schedules; in every other step the schedule says what it said.
LEMMA SameSchedule ==
  ASSUME schedule' = schedule
  PROVE  /\ Entries' = Entries
         /\ \A n : RequestOf(n)' = RequestOf(n) /\ HookOf(n)' = HookOf(n)
         /\ \A r : Mine(r)' = Mine(r)
BY DEF Entries, RequestOf, HookOf, Mine

LEMMA SameChainOrder == ChainOrder /\ schedule' = schedule => ChainOrder'
BY DEF ChainOrder, Entries, RequestOf, HookOf

\* What a step adds to the requests that were counted, the counters add too.
LEMMA CountedStep ==
  ASSUME ServerTypeOK, Counted, schedule' = schedule, scheduled' = scheduled,
         \/ Entered' \subseteq Entered /\ requests' = requests
         \/ \E r \in Requests :
              Entered' \subseteq Entered \union {r} /\ requests' = requests + 1,
         \/ Answered' = Answered /\ good' = good + Busy' - Busy
         \/ \E r \in Requests \ Answered :
              Answered' = Answered \union {r} /\ good' = good + 1 + Busy' - Busy
  PROVE  Counted'
<1>1. /\ IsFiniteSet(Answered)
      /\ Cardinality(Answered) \in Nat /\ Cardinality(Entered) \in Nat
  <2>1. Answered \in SUBSET Entered
        BY DEF Entered
  <2>2. QED  BY <2>1, FS_Subset, FS_CardinalityType DEF Counted
<1>2. IsFiniteSet(Entered') /\ Cardinality(Entered') <= requests'
  <2>1. CASE Entered' \subseteq Entered /\ requests' = requests
    <3>1. IsFiniteSet(Entered') /\ Cardinality(Entered') <= Cardinality(Entered)
          BY <2>1, FS_Subset DEF Counted
    <3>2. Cardinality(Entered') \in Nat
          BY <3>1, FS_CardinalityType
    <3>3. Cardinality(Entered) <= requests /\ requests \in Nat
          BY DEF Counted, ServerTypeOK
    <3>4. QED  BY <1>1, <2>1, <3>1, <3>2, <3>3
  <2>2. CASE \E r \in Requests :
               Entered' \subseteq Entered \union {r} /\ requests' = requests + 1
    <3>1. PICK r \in Requests :
                 Entered' \subseteq Entered \union {r} /\ requests' = requests + 1
          BY <2>2
    <3>2. /\ IsFiniteSet(Entered \union {r})
          /\ Cardinality(Entered \union {r}) <= Cardinality(Entered) + 1
      <4>1. IsFiniteSet(Entered)
            BY DEF Counted
      <4>2. /\ IsFiniteSet(Entered \union {r})
            /\ Cardinality(Entered \union {r})
                 = IF r \in Entered THEN Cardinality(Entered) ELSE Cardinality(Entered) + 1
            BY <4>1, FS_AddElement, Zenon
      <4>3. QED  BY <1>1, <4>2
    <3>3. /\ IsFiniteSet(Entered')
          /\ Cardinality(Entered') <= Cardinality(Entered \union {r})
          BY <3>1, <3>2, FS_Subset
    <3>4. Cardinality(Entered \union {r}) \in Nat /\ Cardinality(Entered') \in Nat
          BY <3>2, <3>3, FS_CardinalityType
    <3>5. Cardinality(Entered) <= requests /\ requests \in Nat
          BY DEF Counted, ServerTypeOK
    <3>6. QED  BY <1>1, <3>1, <3>2, <3>3, <3>4, <3>5
  <2>3. QED  BY <2>1, <2>2
<1>3. good' = Cardinality(Answered') + Busy'
  <2>0. /\ Busy \in Nat /\ Busy' \in Nat
        /\ good = Cardinality(Answered) + Busy
        BY DEF Busy, Counted
  <2>1. CASE Answered' = Answered /\ good' = good + Busy' - Busy
        BY <1>1, <2>0, <2>1
  <2>2. CASE \E r \in Requests \ Answered :
               Answered' = Answered \union {r} /\ good' = good + 1 + Busy' - Busy
    <3>1. PICK r \in Requests \ Answered :
                 Answered' = Answered \union {r} /\ good' = good + 1 + Busy' - Busy
          BY <2>2
    <3>2. Cardinality(Answered') = Cardinality(Answered) + 1
          BY <1>1, <3>1, FS_AddElement
    <3>3. QED  BY <1>1, <2>0, <3>1, <3>2
  <2>3. QED  BY <2>1, <2>2
<1>4. scheduled' = Len(schedule')
      BY DEF Counted
<1>5. QED  BY <1>2, <1>3, <1>4 DEF Counted

LEMMA TypesOfServerInv ==
  ASSUME ServerInv, [ServerNext]_vars
  PROVE  ServerTypeOK' /\ (count < iter)'
<1>1. MapsOK /\ SizesOK /\ LoopOK /\ TotalsOK
      BY HalvesOfType DEF ServerInv
<1>2. MapsOK' /\ SizesOK' /\ LoopOK' /\ TotalsOK'
      BY <1>1, ServerTypeStep
<1>3. (ServerTypeOK /\ count < iter)'
      BY <1>2, HalvesOfType, PTL
<1>4. QED  BY <1>3

\* The header of a request: until then it has asked nothing and has no entry.
LEMMA AdmitInv ==
  ASSUME ServerInv, [ServerNext]_vars, NEW r \in Requests, NEW h \in Headers,
         StaticResponse(r, h) \/ NoPeerAddress(r, h) \/ Refuse(r, h) \/ Accept(r, h)
  PROVE  ServerInv'
<1> USE DEF ServerInv
<1>0. ServerTypeOK' /\ (count < iter)'
      BY TypesOfServerInv
<1>1. /\ Idle /\ state[r] = "new" /\ queued[r] = 0
      /\ asked[r] = {} /\ Mine(r) = {}
  <2>1. Idle /\ state[r] = "new"
        BY DEF StaticResponse, NoPeerAddress, Refuse, Accept, Arrives
  <2>2. queued[r] = 0 /\ r # handling
        BY <2>1 DEF Handled
  <2>3. QED  BY <2>1, <2>2 DEF Quiet
<1>2. /\ schedule' = schedule /\ handling' = handling /\ handling = NoRequest
      /\ UNCHANGED <<asked, truncated, good, scheduled>>
      BY <1>1, Zenon DEF StaticResponse, NoPeerAddress, Refuse, Accept, body, chain, Idle
<1>3. PICK q \in {0, 401, 403, 404, 405} : queued' = [queued EXCEPT ![r] = q]
  <2>1. ServerRefusal(h) # 0 => ServerRefusal(h) \in {0, 401, 403, 404, 405}
        BY DEF ServerRefusal
  <2>2. HookRefusal(h) \in {0, 401, 403, 404, 405}
        BY DEF HookRefusal
  <2>3. queued = [queued EXCEPT ![r] = 0]
        BY <1>1 DEF ServerTypeOK
  <2>4. QED  BY <2>1, <2>2, <2>3 DEF StaticResponse, NoPeerAddress, Refuse, Accept
<1>4. PICK x \in {"null", "responded", "accepted"} :
        /\ state' = [state EXCEPT ![r] = x]
        /\ (x = "null" /\ requests' = requests) \/ requests' = requests + 1
      BY DEF StaticResponse, NoPeerAddress, Refuse, Accept
<1>5. \A s \in Requests : s # r => matches'[s] = matches[s]
      BY DEF StaticResponse, NoPeerAddress, Refuse, Accept, ServerTypeOK
<1>6. /\ \A s \in Requests : s # r => queued'[s] = queued[s] /\ state'[s] = state[s]
      /\ queued'[r] = q /\ state'[r] = x
      BY <1>3, <1>4 DEF ServerTypeOK
<1>7. Handled'
      BY <1>2, <1>6, ServerAssumption DEF Handled
<1>8. Quiet'
      BY <1>1, <1>2, <1>6, SameSchedule DEF Quiet
<1>9. ChainSoFar'
      BY <1>2 DEF ChainSoFar
<1>10. HooksFit'
  <2>1. \A n \in Entries : RequestOf(n) \in Requests /\ RequestOf(n) # r
        BY <1>1, ElementOfSeq DEF Entries, Mine, RequestOf, ServerTypeOK
  <2>2. QED  BY <1>2, <1>5, <2>1, SameSchedule DEF HooksFit
<1>11. BodyWhole'
      BY <1>1, <1>2, <1>6 DEF BodyWhole
<1>12. ChainOrder'
      BY <1>2, SameChainOrder
<1>13. Truthful'
      BY <1>1, <1>2, <1>5, <1>6, SameSchedule DEF Truthful
<1>14. Counted'
  <2>1. Answered' = Answered
        BY <1>1, <1>6 DEF Answered
  <2>2. \/ Entered' \subseteq Entered /\ requests' = requests
        \/ Entered' \subseteq Entered \union {r} /\ requests' = requests + 1
        BY <1>4, <1>6, <2>1 DEF Entered
  <2>3. good' = good + Busy' - Busy
        BY <1>2 DEF Busy, ServerTypeOK
  <2>4. QED  BY <1>2, <2>1, <2>2, <2>3, CountedStep
<1>15. QED
      BY <1>0, <1>7, <1>8, <1>9, <1>10, <1>11, <1>12, <1>13, <1>14

\* A piece of the body, a body that is refused, the end of a request.
LEMMA CallbackInv ==
  ASSUME ServerInv, [ServerNext]_vars, NEW r \in Requests,
         \/ \E n \in Pieces : Content(r, n) \/ TooLarge(r, n)
         \/ WrongState(r) \/ BadBody(r) \/ Completed(r)
  PROVE  ServerInv'
<1> USE DEF ServerInv
<1>0. ServerTypeOK' /\ (count < iter)'
      BY TypesOfServerInv
<1>a. \/ \E n \in Pieces : Content(r, n) \/ TooLarge(r, n)
      \/ WrongState(r) \/ BadBody(r) \/ Completed(r)
      OBVIOUS
<1>1. handling = NoRequest /\ state[r] # "new"
      BY <1>a DEF Content, TooLarge, WrongState, BadBody, Completed, Completes, Receiving, Idle
<1>2. /\ schedule' = schedule /\ handling' = handling
      /\ UNCHANGED <<asked, matches, requests, scheduled>>
      BY <1>a, Zenon DEF Content, TooLarge, WrongState, BadBody, Completed, body, chain
<1>3. \/ queued' = queued /\ good' = good
      \/ queued[r] = 0 /\ queued' = [queued EXCEPT ![r] = 400] /\ good' = good + 1
      BY <1>a DEF Content, TooLarge, WrongState, BadBody, Completed, Completes, Receiving
<1>4. \/ state' = state
      \/ /\ state' = [state EXCEPT ![r] = "responded"]
         /\ state[r] \in {"accepted", "responded"}
      \/ state' = [state EXCEPT ![r] = "gone"]
      BY <1>a DEF Content, TooLarge, WrongState, BadBody, Completed, Completes, Receiving
<1>5. /\ \A s \in Requests : s # r => queued'[s] = queued[s] /\ state'[s] = state[s]
      /\ queued'[r] = queued[r] \/ (queued[r] = 0 /\ queued'[r] = 400)
      /\ state'[r] \in {state[r], "responded", "gone"}
      /\ state'[r] = "responded" => state[r] \in {"accepted", "responded"}
      BY <1>3, <1>4 DEF ServerTypeOK
<1>6. Handled'
      BY <1>1, <1>2, <1>5, ServerAssumption DEF Handled
<1>7. Quiet'
      BY <1>1, <1>2, <1>5, ServerAssumption, SameSchedule DEF Quiet
<1>8. ChainSoFar'
      BY <1>1, <1>2 DEF ChainSoFar
<1>9. HooksFit'
      BY <1>2, SameSchedule DEF HooksFit
<1>10. BodyWhole'
  <2>1. CASE BadBody(r)
    <3>1. truncated' = truncated /\ (Asserts => ~truncated[r])
          BY <2>1 DEF BadBody, Completes, BodyWhole, body
    <3>2. QED  BY <1>5, <3>1 DEF BodyWhole
  <2>2. CASE \E n \in Pieces : TooLarge(r, n)
    <3>1. /\ queued' = queued /\ queued[r] = 0
          /\ \A s \in Requests : truncated'[s] => truncated[s] \/ s = r
          /\ state'[r] = "responded"
          BY <2>2 DEF TooLarge, Receiving, ServerTypeOK
    <3>2. QED  BY <1>5, <3>1 DEF BodyWhole
  <2>3. CASE WrongState(r) \/ Completed(r) \/ \E n \in Pieces : Content(r, n)
    <3>1. truncated' = truncated /\ queued' = queued /\ state'[r] \in {state[r], "gone"}
          BY <2>3 DEF WrongState, Completed, Content, body, ServerTypeOK
    <3>2. QED  BY <1>5, <3>1 DEF BodyWhole
  <2>4. QED  BY <1>a, <2>1, <2>2, <2>3
<1>11. ChainOrder'
      BY <1>2, SameChainOrder
<1>12. Truthful'
      BY <1>2, <1>5, SameSchedule DEF Truthful
<1>13. Counted'
  <2>1. Busy' = Busy /\ Busy \in Nat /\ good \in Nat
        BY <1>2 DEF Busy, ServerTypeOK
  <2>2. \/ Answered' = Answered /\ good' = good + Busy' - Busy
        \/ /\ r \in Requests \ Answered
           /\ Answered' = Answered \union {r} /\ good' = good + 1 + Busy' - Busy
    <3>1. CASE queued' = queued /\ good' = good
          BY <2>1, <3>1 DEF Answered
    <3>2. CASE queued[r] = 0 /\ queued' = [queued EXCEPT ![r] = 400] /\ good' = good + 1
      <4>1. r \notin Answered /\ queued'[r] = 400
            BY <3>2 DEF Answered, ServerTypeOK
      <4>2. Answered' = Answered \union {r}
            BY <1>5, <4>1 DEF Answered
      <4>3. QED  BY <2>1, <3>2, <4>1, <4>2
    <3>3. QED  BY <1>3, <3>1, <3>2
  <2>3. Entered' \subseteq Entered
    <3>1. queued'[r] = 400 /\ queued[r] = 0 => state[r] \in {"accepted", "responded"}
          BY <1>a DEF Content, TooLarge, WrongState, BadBody, Completed, Completes, Receiving
    <3>2. QED  BY <1>5, <3>1 DEF Entered, Answered
  <2>4. QED  BY <1>2, <2>2, <2>3, CountedStep
<1>14. QED
      BY <1>0, <1>6, <1>7, <1>8, <1>9, <1>10, <1>11, <1>12, <1>13

\* The end of a body that is good: the lambda begins its loop.
LEMMA GoodBodyInv ==
  ASSUME ServerInv, [ServerNext]_vars, NEW r \in Requests, GoodBody(r)
  PROVE  ServerInv'
<1> USE DEF ServerInv
<1>0. ServerTypeOK' /\ (count < iter)'
      BY TypesOfServerInv
<1>1. /\ handling = NoRequest /\ state[r] \in {"accepted", "responded"}
      /\ queued[r] = 0 /\ asked[r] = {} /\ Mine(r) = {}
      /\ Asserts => ~truncated[r]
  <2>1. /\ handling = NoRequest /\ state[r] \in {"accepted", "responded"} /\ queued[r] = 0
        /\ Asserts => state[r] = "accepted"
        BY DEF GoodBody, Completes, Receiving, Idle
  <2>2. QED  BY <2>1, ServerAssumption DEF Quiet, BodyWhole
<1>2. /\ schedule' = schedule /\ handling' = r /\ iter' = 1 /\ count' = 0
      /\ UNCHANGED <<asked, matches, truncated, queued, requests, scheduled>>
      /\ good' = good + 1
      BY Zenon DEF GoodBody, body
<1>3. /\ \A s \in Requests : s # r => state'[s] = state[s]
      /\ state'[r] = "completed"
      BY DEF GoodBody, ServerTypeOK
<1>4. Handled'
      BY <1>1, <1>2, <1>3, ServerAssumption DEF Handled
<1>5. Quiet'
      BY <1>1, <1>2, ServerAssumption, SameSchedule DEF Quiet
<1>6. ChainSoFar'
      BY <1>1, <1>2, SameSchedule DEF ChainSoFar
<1>7. HooksFit'
      BY <1>2, SameSchedule DEF HooksFit
<1>8. BodyWhole'
      BY <1>1, <1>2, <1>3 DEF BodyWhole
<1>9. ChainOrder'
      BY <1>2, SameChainOrder
<1>10. Truthful'
      BY <1>2, SameSchedule DEF Truthful
<1>11. Counted'
  <2>1. Busy = 0 /\ Busy' = 1
        BY <1>1, <1>2, ServerAssumption DEF Busy
  <2>2. Answered' = Answered /\ good' = good + Busy' - Busy
        BY <1>2, <2>1 DEF Answered, ServerTypeOK
  <2>3. Entered' \subseteq Entered
        BY <1>1, <1>3, <2>2 DEF Entered
  <2>4. QED  BY <1>2, <2>2, <2>3, CountedStep
<1>12. QED
      BY <1>0, <1>4, <1>5, <1>6, <1>7, <1>8, <1>9, <1>10, <1>11

\* The loop passes a hook that the request does not fit, or that ignores it.
LEMMA PassInv ==
  ASSUME ServerInv, [ServerNext]_vars, SkipHook \/ HookIgnores
  PROVE  ServerInv'
<1> USE DEF ServerInv
<1>0. ServerTypeOK' /\ (count < iter)'
      BY TypesOfServerInv
<1>1. handling \in Requests /\ iter \in Hooks /\ iter \in Nat
      BY DEF SkipHook, HookIgnores, Ask, AtHook, ServerTypeOK, Hooks
<1>2. /\ schedule' = schedule /\ handling' = handling /\ iter' = iter + 1
      /\ UNCHANGED <<count, state, queued, matches, truncated, requests, good, scheduled>>
      BY Zenon DEF SkipHook, HookIgnores, body
<1>3. /\ asked'[handling] = matches[handling] \intersect (1 .. iter)
      /\ \A s \in Requests : s # handling => asked'[s] = asked[s]
  <2>1. /\ asked'[handling] = asked[handling] \union ({iter} \intersect matches[handling])
        /\ \A s \in Requests : s # handling => asked'[s] = asked[s]
        BY <1>1 DEF SkipHook, HookIgnores, Ask, AtHook, ServerTypeOK
  <2>2. 1 .. iter = (1 .. iter - 1) \union {iter}
        BY <1>1 DEF Hooks
  <2>3. asked[handling] = matches[handling] \intersect (1 .. iter - 1)
        BY <1>1, ServerAssumption DEF ChainSoFar
  <2>4. QED  BY <2>1, <2>2, <2>3
<1>4. Handled' /\ BodyWhole'
      BY <1>2 DEF Handled, BodyWhole
<1>5. Quiet'
      BY <1>2, <1>3, SameSchedule DEF Quiet
<1>6. ChainSoFar'
  <2>1. iter' - 1 = iter /\ \A k \in Nat : k < iter => k < iter'
        BY <1>1, <1>2
  <2>2. \A n \in Mine(handling) : HookOf(n) \in Nat
        BY ElementOfSeq DEF Mine, Entries, HookOf, Hooks, ServerTypeOK
  <2>3. QED  BY <1>1, <1>2, <1>3, <2>1, <2>2, ServerAssumption, SameSchedule DEF ChainSoFar
<1>7. HooksFit'
      BY <1>2, SameSchedule DEF HooksFit
<1>8. ChainOrder'
      BY <1>2, SameChainOrder
<1>9. Truthful'
      BY <1>1, <1>2, <1>3, SameSchedule DEF Truthful, Handled
<1>10. Counted'
  <2>1. Answered' = Answered /\ Entered' = Entered
        BY <1>2 DEF Answered, Entered
  <2>2. good' = good + Busy' - Busy
        BY <1>2 DEF Busy, ServerTypeOK
  <2>3. QED  BY <1>2, <2>1, <2>2, CountedStep
<1>11. QED
      BY <1>0, <1>4, <1>5, <1>6, <1>7, <1>8, <1>9, <1>10

\* The lambda returns: the chain is at its end, or a hook threw.
LEMMA ReturnInv ==
  ASSUME ServerInv, [ServerNext]_vars,
         (\E code \in {400, 500} : HookThrows(code)) \/ EndOfChain
  PROVE  ServerInv'
<1> USE DEF ServerInv
<1>0. ServerTypeOK' /\ (count < iter)'
      BY TypesOfServerInv
<1>1. /\ handling \in Requests /\ handling' = NoRequest
      /\ schedule' = schedule
      /\ UNCHANGED <<matches, truncated, requests, good, scheduled>>
      BY Zenon DEF HookThrows, EndOfChain, Respond, Ask, AtHook, ServerTypeOK, body
<1>2. queued[handling] = 0 /\ state[handling] = "completed"
      BY <1>1 DEF Handled
<1>3. PICK code \in {202, 204, 400, 500} :
        /\ queued' = [queued EXCEPT ![handling] = code]
        /\ code = 202 => asked' = asked /\ iter \notin Hooks /\ count # 0
        /\ code = 204 => asked' = asked /\ iter \notin Hooks /\ count = 0
      BY DEF HookThrows, EndOfChain, Respond
<1>4. /\ \A s \in Requests : s # handling =>
           queued'[s] = queued[s] /\ state'[s] = state[s] /\ asked'[s] = asked[s]
      /\ queued'[handling] = code /\ state'[handling] = "responded"
  <2>1. \A s \in Requests : s # handling => asked'[s] = asked[s]
        BY <1>1 DEF HookThrows, EndOfChain, Ask, ServerTypeOK
  <2>2. \A s \in Requests : s # handling => queued'[s] = queued[s]
        BY <1>3 DEF ServerTypeOK
  <2>3. \A s \in Requests : s # handling => state'[s] = state[s]
        BY DEF HookThrows, EndOfChain, Respond, ServerTypeOK
  <2>4. queued'[handling] = code
        BY <1>1, <1>3 DEF ServerTypeOK
  <2>5. state'[handling] = "responded"
        BY <1>1 DEF HookThrows, EndOfChain, Respond, ServerTypeOK
  <2>6. QED  BY <2>1, <2>2, <2>3, <2>4, <2>5
<1>5. Handled'
      BY <1>1, <1>4, ServerAssumption DEF Handled
<1>6. Quiet'
      BY <1>1, <1>4, SameSchedule DEF Quiet
<1>7. ChainSoFar'
      BY <1>1 DEF ChainSoFar
<1>8. HooksFit'
      BY <1>1, SameSchedule DEF HooksFit
<1>9. BodyWhole'
      BY <1>1, <1>2, <1>4 DEF BodyWhole
<1>10. ChainOrder'
      BY <1>1, SameChainOrder
<1>11. Truthful'
  <2>1. ASSUME iter \notin Hooks
        PROVE  asked[handling] = matches[handling]
    <3>1. asked[handling] = matches[handling] \intersect (1 .. iter - 1)
          BY <1>1, ServerAssumption DEF ChainSoFar
    <3>2. iter - 1 = ChainLength
          BY <2>1, ServerAssumption DEF Hooks, ServerTypeOK
    <3>3. matches[handling] \subseteq Hooks
          BY <1>1 DEF ServerTypeOK
    <3>4. QED  BY ONLY <3>1, <3>2, <3>3 DEF Hooks
  <2>2. count = 0 <=> Mine(handling) = {}
        BY <1>1, ServerAssumption DEF ChainSoFar
  <2>3. QED  BY <1>1, <1>3, <1>4, <2>1, <2>2, SameSchedule DEF Truthful
<1>12. Counted'
  <2>1. Busy = 1 /\ Busy' = 0
        BY <1>1, ServerAssumption DEF Busy
  <2>2. handling \in Requests \ Answered /\ Answered' = Answered \union {handling}
        BY <1>1, <1>2, <1>4 DEF Answered
  <2>3. good' = good + 1 + Busy' - Busy
        BY <1>1, <2>1 DEF ServerTypeOK
  <2>4. Entered' \subseteq Entered
        BY <1>1, <1>2, <1>4, <2>2 DEF Entered
  <2>5. QED  BY <1>1, <2>2, <2>3, <2>4, CountedStep
<1>13. QED
      BY <1>0, <1>5, <1>6, <1>7, <1>8, <1>9, <1>10, <1>11, <1>12

\* execute(): the entry comes after all those of this request, which are the last
\* of the schedule, for hooks earlier in the chain.
LEMMA ExecuteInv ==
  ASSUME ServerInv, [ServerNext]_vars, HookAccepts
  PROVE  ServerInv'
<1>0. ServerTypeOK' /\ (count < iter)'
      BY TypesOfServerInv
<1>a. /\ ServerTypeOK /\ Handled /\ Quiet /\ ChainSoFar /\ HooksFit
      /\ BodyWhole /\ ChainOrder /\ Truthful /\ Counted
      BY DEF ServerInv
<1>b. PICK last \in Nat : last = Len(schedule) + 1
      BY <1>a, LenProperties DEF ServerTypeOK
<1>1. /\ handling \in Requests /\ handling # NoRequest
      /\ iter \in Hooks /\ iter \in Nat /\ iter \in matches[handling]
      BY <1>a DEF HookAccepts, Ask, AtHook, ServerTypeOK, Hooks
<1>2. /\ schedule' = Append(schedule, <<handling, iter>>)
      /\ handling' = handling /\ iter' = iter + 1 /\ count' = count + 1
      /\ UNCHANGED <<state, queued, matches, truncated, requests, good>>
      /\ scheduled' = scheduled + 1
      BY Zenon DEF HookAccepts, body
<1>3. /\ asked'[handling] = asked[handling] \union {iter}
      /\ \A s \in Requests : s # handling => asked'[s] = asked[s]
      BY <1>a, <1>1 DEF HookAccepts, Ask, ServerTypeOK
<1>4. /\ Entries = 1 .. Len(schedule) /\ Len(schedule) \in Nat
      /\ Entries' = Entries \union {last} /\ last \notin Entries
      /\ Len(schedule') = last
      /\ \A n \in Entries : RequestOf(n)' = RequestOf(n) /\ HookOf(n)' = HookOf(n)
      /\ RequestOf(last)' = handling /\ HookOf(last)' = iter
      /\ \A n \in Entries : n < last /\ n \in Nat
  <2>1. schedule \in Seq(Requests \X Hooks) /\ <<handling, iter>> \in Requests \X Hooks
        BY <1>a, <1>1 DEF ServerTypeOK
  <2>2. /\ Len(schedule) \in Nat /\ Entries = 1 .. Len(schedule)
        /\ Len(schedule') = last /\ Entries' = 1 .. last
        BY <1>2, <1>b, <2>1, AppendProperties DEF Entries
  <2>3. /\ \A n \in 1 .. Len(schedule) : schedule'[n] = schedule[n]
        /\ schedule'[last] = <<handling, iter>>
        BY <1>2, <1>b, <2>1, AppendProperties
  <2>4. /\ \A n \in Entries : RequestOf(n)' = RequestOf(n) /\ HookOf(n)' = HookOf(n)
        /\ RequestOf(last)' = handling /\ HookOf(last)' = iter
    <3>1. /\ \A n \in Entries : RequestOf(n)' = RequestOf(n) /\ HookOf(n)' = HookOf(n)
          /\ RequestOf(last)' = <<handling, iter>>[1] /\ HookOf(last)' = <<handling, iter>>[2]
          BY <2>2, <2>3, Zenon DEF RequestOf, HookOf
    <3>2. QED  BY <3>1
  <2>5. QED  BY <1>b, <2>2, <2>4
<1>5. /\ \A s : s # handling => Mine(s)' = Mine(s)
      /\ Mine(handling)' = Mine(handling) \union {last}
  <2>1. ASSUME NEW s, NEW n
        PROVE  n \in Mine(s)' <=> n \in Mine(s) \/ (s = handling /\ n = last)
    <3>1. n \in Mine(s)' <=> n \in Entries' /\ RequestOf(n)' = s
          BY DEF Mine
    <3>2. n \in Mine(s) <=> n \in Entries /\ RequestOf(n) = s
          BY DEF Mine
    <3>3. QED  BY <1>4, <3>1, <3>2
  <2>2. \A s : Mine(s)' \subseteq Entries' /\ Mine(s) \subseteq Entries
        BY DEF Mine
  <2>3. \A s : s # handling => Mine(s)' = Mine(s)
        BY <2>1, <2>2
  <2>4. Mine(handling)' = Mine(handling) \union {last}
        BY <1>2, <2>1, <2>2
  <2>5. QED  BY <2>3, <2>4
<1>6. Handled' /\ BodyWhole'
      BY <1>a, <1>2 DEF Handled, BodyWhole
<1>7. Quiet'
      BY <1>a, <1>2, <1>3, <1>5 DEF Quiet
<1>8. \A n \in Mine(handling) :
        /\ HookOf(n) < iter /\ HookOf(n) \in Nat
        /\ \A k \in Entries : n < k => RequestOf(k) = handling
  <2>1. \A n \in Mine(handling) : HookOf(n) \in Nat
        BY <1>a, ElementOfSeq DEF Mine, Entries, HookOf, Hooks, ServerTypeOK
  <2>2. QED  BY <1>a, <1>1, <2>1 DEF ChainSoFar
<1>9. ChainSoFar'
  <2>1. asked'[handling] = matches[handling] \intersect (1 .. iter' - 1)
    <3>1. 1 .. iter' - 1 = (1 .. iter - 1) \union {iter}
          BY <1>1, <1>2 DEF Hooks
    <3>2. QED  BY <1>a, <1>1, <1>3, <3>1 DEF ChainSoFar
  <2>2. count' # 0 /\ Mine(handling)' # {}
        BY <1>a, <1>2, <1>5 DEF ServerTypeOK
  <2>3. \A n \in Mine(handling)' :
          /\ HookOf(n)' < iter'
          /\ \A k \in Entries' : n < k => RequestOf(k)' = handling
    <3>1. ASSUME NEW n \in Mine(handling)
          PROVE  /\ HookOf(n)' < iter'
                 /\ \A k \in Entries' : n < k => RequestOf(k)' = handling
      <4>1. n \in Entries
            BY DEF Mine
      <4>2. QED  BY <1>1, <1>2, <1>4, <1>8, <4>1
    <3>2. HookOf(last)' < iter' /\ \A k \in Entries' : ~(last < k)
          BY <1>1, <1>2, <1>4
    <3>3. QED  BY <1>5, <3>1, <3>2
  <2>4. QED  BY <1>2, <2>1, <2>2, <2>3 DEF ChainSoFar
<1>10. HooksFit'
      BY <1>a, <1>1, <1>2, <1>4 DEF HooksFit
<1>11. ChainOrder'
  <2> SUFFICES ASSUME NEW m \in Entries', NEW n \in Entries', m < n,
                      RequestOf(m)' = RequestOf(n)'
               PROVE  /\ HookOf(m)' < HookOf(n)'
                      /\ \A k \in m .. n : RequestOf(k)' = RequestOf(m)'
      BY DEF ChainOrder
  <2>1. m \in Entries
        BY <1>4
  <2>2. CASE n \in Entries
    <3>1. m .. n \subseteq Entries
          BY <1>4, <2>1, <2>2
    <3>2. QED  BY <1>4, <2>1, <2>2, <3>1, <1>a DEF ChainOrder
  <2>3. CASE n = last
    <3>1. m \in Mine(handling)
          BY <1>4, <2>1, <2>3 DEF Mine
    <3>2. HookOf(m)' < HookOf(n)'
          BY <1>4, <1>8, <2>1, <2>3, <3>1
    <3>3. ASSUME NEW k \in m .. n
          PROVE  RequestOf(k)' = RequestOf(m)'
      <4>1. k = m \/ k = last \/ (k \in Entries /\ m < k)
            BY <1>b, <1>4, <2>1, <2>3
      <4>2. k \in Entries /\ m < k => RequestOf(k) = handling
            BY <1>8, <3>1
      <4>3. RequestOf(m)' = handling
            BY <1>4, <2>3
      <4>4. QED  BY <1>4, <2>3, <4>1, <4>2, <4>3
    <3>4. QED  BY <3>2, <3>3
  <2>4. QED  BY <1>4, <2>2, <2>3
<1>12. Truthful'
  <2>1. queued'[handling] = 0
        BY <1>a, <1>1, <1>2 DEF Handled
  <2>2. QED  BY <1>a, <1>2, <1>3, <1>5, <2>1 DEF Truthful
<1>13. Counted'
  <2>1. Answered' = Answered /\ Entered' = Entered /\ Busy' = Busy
        BY <1>2 DEF Answered, Entered, Busy
  <2>2. QED  BY <1>a, <1>2, <1>4, <2>1 DEF Counted
<1>14. QED
      BY <1>0, <1>6, <1>7, <1>9, <1>10, <1>11, <1>12, <1>13 DEF ServerInv

LEMMA ServerStepInv ==
  ASSUME ServerInv, [ServerNext]_vars
  PROVE  ServerInv'
<1>1. CASE \E r \in Requests, h \in Headers :
             StaticResponse(r, h) \/ NoPeerAddress(r, h) \/ Refuse(r, h) \/ Accept(r, h)
      BY <1>1, AdmitInv
<1>2. CASE \E r \in Requests :
             \/ \E n \in Pieces : Content(r, n) \/ TooLarge(r, n)
             \/ WrongState(r) \/ BadBody(r) \/ Completed(r)
      BY <1>2, CallbackInv
<1>3. CASE \E r \in Requests : GoodBody(r)
      BY <1>3, GoodBodyInv
<1>4. CASE SkipHook \/ HookIgnores
      BY <1>4, PassInv
<1>5. CASE HookAccepts
      BY <1>5, ExecuteInv
<1>6. CASE (\E code \in {400, 500} : HookThrows(code)) \/ EndOfChain
      BY <1>6, ReturnInv
<1>7. CASE Rest \/ UNCHANGED vars
  <2>1. /\ schedule' = schedule /\ handling' = handling
        /\ UNCHANGED <<state, queued, matches, size, truncated, iter, count, asked,
                       requests, good, scheduled, aborted>>
        BY <1>7, Zenon DEF Rest, vars, body, chain
  <2>2. Counted'
        BY <2>1 DEF ServerInv, Counted, Answered, Entered, Busy
  <2>3. QED
        BY <2>1, <2>2, SameSchedule, SameChainOrder
        DEF ServerInv, ServerTypeOK, Handled, Quiet, ChainSoFar, HooksFit, BodyWhole, Truthful
<1>8. QED
      BY <1>1, <1>2, <1>3, <1>4, <1>5, <1>6, <1>7 DEF ServerNext

LEMMA ServerInvariant == ServerSpec => []ServerInv
<1>1. ServerInv /\ [ServerNext]_vars => ServerInv'
      BY ServerStepInv
<1>2. QED  BY <1>1, ServerInitInv, PTL DEF ServerSpec

-----------------------------------------------------------------------------
(* What follows from the invariant *)

\* Type correctness.
THEOREM ServerTypeCorrect == ServerSpec => []ServerTypeOK
<1>1. ServerInv => ServerTypeOK
      BY DEF ServerInv
<1>2. QED  BY <1>1, ServerInvariant, PTL

\* What a request schedules stays together and in the order of its chain.
THEOREM ServerChainOrder == ServerSpec => []ChainOrder
<1>1. ServerInv => ChainOrder
      BY DEF ServerInv
<1>2. QED  BY <1>1, ServerInvariant, PTL

\* "accepted" and "ignored" are answered when they are true; a refusal is not
\* answered to anything that was done.
THEOREM ServerAnswerIsTrue == ServerSpec => []AnswerIsTrue
<1>1. ServerInv => AnswerIsTrue
      BY DEF ServerInv, Truthful, AnswerIsTrue, Mine
<1>2. QED  BY <1>1, ServerInvariant, PTL

\* Only hooks that the request fits are scheduled.  That none of its body was
\* dropped needs the assertions of addContent() and completeRequest().
THEOREM ServerOnlyFittingHooksRun ==
  ServerSpec => [](HooksFit /\ (Asserts => OnlyFittingHooksRun))
<1>1. ASSUME ServerInv, Asserts PROVE OnlyFittingHooksRun
  <2> SUFFICES ASSUME NEW n \in Entries
               PROVE  HookOf(n) \in matches[RequestOf(n)] /\ ~truncated[RequestOf(n)]
      BY DEF OnlyFittingHooksRun
  <2>1. RequestOf(n) \in Requests /\ n \in Mine(RequestOf(n))
        BY <1>1, ElementOfSeq DEF ServerInv, ServerTypeOK, Entries, RequestOf, Mine
  <2>2. CASE truncated[RequestOf(n)]
    <3>1. queued[RequestOf(n)] = 0 /\ RequestOf(n) # handling
          BY <1>1, <2>1, <2>2 DEF ServerInv, BodyWhole, Handled
    <3>2. QED  BY <1>1, <2>1, <3>1 DEF ServerInv, Quiet
  <2>3. QED  BY <1>1, <2>2 DEF ServerInv, HooksFit
<1>2. ServerInv => HooksFit /\ (Asserts => OnlyFittingHooksRun)
      BY <1>1 DEF ServerInv
<1>3. QED  BY <1>2, ServerInvariant, PTL

\* The counters of the status page agree with the answers and the schedule.
THEOREM ServerCountersRight == ServerSpec => []ServerCounters
<1>1. ASSUME ServerInv PROVE ServerCounters
  <2>1. /\ IsFiniteSet(Entered) /\ Cardinality(Entered) <= requests
        /\ good = Cardinality(Answered) + Busy /\ scheduled = Len(schedule)
        /\ requests \in Nat
        BY <1>1 DEF ServerInv, Counted, ServerTypeOK
  <2>2. Cardinality(Entered) \in Nat
        BY <2>1, FS_CardinalityType
  <2>3. IsFiniteSet(Answered) /\ Cardinality(Answered) \in Nat
        /\ Cardinality(Answered) <= Cardinality(Entered)
    <3>1. Answered \in SUBSET Entered
          BY DEF Entered
    <3>2. QED  BY <2>1, <3>1, FS_Subset, FS_CardinalityType
  <2>4. good <= requests
    <3>1. CASE handling = NoRequest
          BY <2>1, <2>2, <2>3, <3>1 DEF Busy
    <3>2. CASE handling # NoRequest
      <4>1. handling \in Entered /\ handling \notin Answered
            BY <1>1, <3>2 DEF ServerInv, ServerTypeOK, Handled, Entered, Answered
      <4>2. /\ Answered \union {handling} \in SUBSET Entered
            BY <4>1 DEF Entered
      <4>3. Cardinality(Answered \union {handling}) = Cardinality(Answered) + 1
            BY <2>3, <4>1, FS_AddElement
      <4>4. Cardinality(Answered \union {handling}) <= Cardinality(Entered)
            BY <2>1, <4>2, FS_Subset
      <4>5. Busy = 1
            BY <3>2 DEF Busy
      <4>6. QED  BY <2>1, <2>2, <2>3, <4>3, <4>4, <4>5
    <3>3. QED  BY <3>1, <3>2
  <2>5. QED  BY <2>1, <2>4 DEF ServerCounters, Answered, Busy
<1>2. QED  BY <1>1, ServerInvariant, PTL

-----------------------------------------------------------------------------
(* The list behind the server *)

GateInv == ServerInv /\ List!SerialTypeOK /\ OrderedAsRequests

\* Every step of the gateway is one of the server: the composition adds nothing
\* to it and forbids nothing of it but what the list's guard may forbid.
LEMMA GateStepIsServerStep == [GateNext]_gateVars => [ServerNext]_vars
BY DEF GateNext, gateVars, Execute, Serve, GoesOn, Work, Sleep, ServerNext

\* What is scheduled next is new to the list.
LEMMA NextIsNew ==
  ASSUME GateInv, AtHook
  PROVE  /\ <<handling, iter>> \in Actions
         /\ \A n \in Entries : schedule[n] # <<handling, iter>>
         /\ <<handling, iter>> \notin over
         /\ <<handling, iter>> # running
         /\ \A n \in DOMAIN waiting : waiting[n] # <<handling, iter>>
<1>1. /\ handling \in Requests /\ handling # NoRequest /\ iter \in Hooks
      /\ schedule \in Seq(Requests \X Hooks) /\ iter \in Nat
      BY DEF GateInv, ServerInv, ServerTypeOK, AtHook, Hooks
<1>2. ASSUME NEW n \in Entries, schedule[n] = <<handling, iter>> PROVE FALSE
  <2>1. n \in Mine(handling) /\ HookOf(n) = iter
        BY <1>2 DEF Mine, RequestOf, HookOf
  <2>2. HookOf(n) < iter
        BY <1>1, <2>1 DEF GateInv, ServerInv, ChainSoFar
  <2>3. QED  BY <1>1, <2>1, <2>2
<1>3. PICK n \in 0 .. Len(schedule) :
        /\ Begun = {schedule[k] : k \in 1 .. n}
        /\ waiting = SubSeq(schedule, n + 1, Len(schedule))
      BY DEF GateInv, OrderedAsRequests
<1>4. Entries = 1 .. Len(schedule) /\ Len(schedule) \in Nat
      BY <1>1 DEF Entries
<1>5. <<handling, iter>> \notin Begun
      BY <1>2, <1>3, <1>4
<1>6. <<handling, iter>> # NoAction
      BY <1>1 DEF NoAction
<1>7. ASSUME NEW m \in DOMAIN waiting PROVE waiting[m] # <<handling, iter>>
  <2>1. /\ waiting \in Seq(Actions) /\ Len(waiting) = Len(schedule) - n
        /\ \A i \in 1 .. Len(schedule) - n : waiting[i] = schedule[n + i]
        BY <1>1, <1>3, RestOfSeq DEF Actions
  <2>2. m \in 1 .. Len(schedule) - n
        BY <2>1
  <2>3. n + m \in Entries
        BY <1>4, <2>2
  <2>4. QED  BY <1>2, <2>1, <2>2, <2>3
<1>8. QED  BY <1>1, <1>2, <1>5, <1>6, <1>7 DEF Begun, Actions

LEMMA GateInitInv == GateInit => GateInv
<1> SUFFICES ASSUME GateInit PROVE GateInv
    OBVIOUS
<1>1. ServerInv /\ schedule = <<>>
      BY ServerInitInv DEF GateInit, ServerInit
<1>2. waiting = <<>> /\ running = NoAction /\ over = {}
      BY DEF GateInit, List!SerialInit
<1>3. List!SerialTypeOK
      BY <1>2, EmptySeq DEF List!SerialTypeOK
<1>4. OrderedAsRequests
  <2>1. Len(schedule) = 0 /\ Begun = {}
        BY <1>1, <1>2, EmptySeq DEF Begun
  <2>2. SubSeq(schedule, 1, 0) = <<>>
        BY SubSeqEmpty
  <2>3. 0 \in 0 .. Len(schedule) /\ {schedule[k] : k \in 1 .. 0} = {}
        BY <2>1
  <2>4. QED  BY <1>2, <2>1, <2>2, <2>3 DEF OrderedAsRequests
<1>5. QED  BY <1>1, <1>3, <1>4 DEF GateInv

\* An action goes from the rest of the schedule to the part that has begun.
LEMMA TakeNext ==
  ASSUME GateInv, running = NoAction, waiting # <<>>,
         waiting' = Tail(waiting), schedule' = schedule,
         Begun' = Begun \union {Head(waiting)}
  PROVE  Head(waiting) \in Actions /\ Tail(waiting) \in Seq(Actions) /\ OrderedAsRequests'
<1>1. waiting \in Seq(Actions) /\ schedule \in Seq(Actions)
      BY DEF GateInv, List!SerialTypeOK, ServerInv, ServerTypeOK, Actions
<1>2. PICK n \in 0 .. Len(schedule) :
        /\ Begun = {schedule[k] : k \in 1 .. n}
        /\ waiting = SubSeq(schedule, n + 1, Len(schedule))
      BY DEF GateInv, OrderedAsRequests
<1>3. PICK l \in Nat : l = Len(schedule)
      BY <1>1
<1>4. n + 1 \in 1 .. l
  <2>1. n # l
    <3>1. n = l => SubSeq(schedule, n + 1, l) = <<>>
          BY <1>3, SubSeqEmpty
    <3>2. QED  BY <1>2, <1>3, <3>1
  <2>2. QED  BY <1>2, <1>3, <2>1
<1>5. Head(waiting) = schedule[n + 1] /\ Tail(waiting) = SubSeq(schedule, (n + 1) + 1, l)
      BY <1>1, <1>2, <1>3, <1>4, HeadTailOfSubSeq
<1>6. Begun' = {schedule[k] : k \in 1 .. n + 1}
  <2>1. 1 .. n + 1 = (1 .. n) \union {n + 1}
        BY <1>2, <1>3
  <2>2. QED  BY <1>2, <1>5, <2>1
<1>7. OrderedAsRequests'
  <2>1. PICK next \in Nat : next = n + 1
        BY <1>2, <1>3
  <2>2. /\ next \in 0 .. Len(schedule')
        /\ Begun' = {schedule'[k] : k \in 1 .. next}
        /\ waiting' = SubSeq(schedule', next + 1, Len(schedule'))
        BY <1>3, <1>4, <1>5, <1>6, <2>1
  <2>3. QED  BY <2>2, Zenon DEF OrderedAsRequests
<1>8. QED  BY <1>1, <1>7, HeadTailProperties

LEMMA GateStepInv ==
  ASSUME GateInv, [GateNext]_gateVars
  PROVE  GateInv'
<1>1. ServerInv'
      BY GateStepIsServerStep, ServerStepInv DEF GateInv
<1>2. /\ waiting \in Seq(Actions) /\ running \in Actions \union {NoAction}
      /\ over \in SUBSET Actions /\ schedule \in Seq(Actions)
      BY DEF GateInv, List!SerialTypeOK, ServerInv, ServerTypeOK, Actions
<1>3. NoAction \notin Actions
      BY ServerAssumption DEF NoAction, Actions
<1>4. CASE Execute
  <2>1. /\ waiting' = Append(waiting, <<handling, iter>>)
        /\ schedule' = Append(schedule, <<handling, iter>>)
        /\ UNCHANGED <<running, over>>
        BY <1>4 DEF Execute, HookAccepts, List!Submit
  <2>2. <<handling, iter>> \in Actions
        BY <1>4, NextIsNew DEF Execute, HookAccepts, Ask
  <2>3. PICK n \in 0 .. Len(schedule) :
          /\ Begun = {schedule[k] : k \in 1 .. n}
          /\ waiting = SubSeq(schedule, n + 1, Len(schedule))
        BY DEF GateInv, OrderedAsRequests
  <2>4. /\ Len(schedule) \in Nat /\ Len(schedule') = Len(schedule) + 1
        /\ \A k \in 1 .. Len(schedule) : schedule'[k] = schedule[k]
        BY <1>2, <2>1, <2>2, AppendProperties
  <2>5. waiting' = SubSeq(schedule', n + 1, Len(schedule'))
        BY <1>2, <2>1, <2>2, <2>3, <2>4, AppendToRest
  <2>6. Begun' = {schedule'[k] : k \in 1 .. n}
    <3>1. Begun' = Begun
          BY <2>1 DEF Begun
    <3>2. \A k \in 1 .. n : schedule'[k] = schedule[k]
          BY <2>3, <2>4
    <3>3. QED  BY <2>3, <3>1, <3>2
  <2>7. n \in 0 .. Len(schedule')
        BY <2>3, <2>4
  <2>8. OrderedAsRequests'
        BY <2>5, <2>6, <2>7 DEF OrderedAsRequests
  <2>9. List!SerialTypeOK'
        BY <1>2, <2>1, <2>2, AppendProperties DEF List!SerialTypeOK
  <2>10. QED  BY <1>1, <2>8, <2>9 DEF GateInv
<1>5. CASE Work
  <2>1. schedule' = schedule
        BY <1>5 DEF Work, vars
  <2>2. CASE List!Begin
    <3>1. /\ running = NoAction /\ waiting # <<>> /\ waiting' = Tail(waiting)
          /\ running' = Head(waiting) /\ over' = over
          BY <2>2 DEF List!Begin
    <3>2. Head(waiting) # NoAction
          BY <1>2, <1>3, <3>1, HeadTailProperties
    <3>3. Begun' = Begun \union {Head(waiting)}
          BY <3>1, <3>2 DEF Begun
    <3>4. QED
          BY <1>1, <1>2, <2>1, <3>1, <3>3, TakeNext DEF GateInv, List!SerialTypeOK
  <2>3. CASE List!End
    <3>1. /\ running # NoAction /\ over' = over \union {running}
          /\ running' = NoAction /\ waiting' = waiting
          BY <2>3 DEF List!End
    <3>2. Begun' = Begun
          BY <3>1 DEF Begun
    <3>3. OrderedAsRequests'
          BY <2>1, <3>1, <3>2 DEF GateInv, OrderedAsRequests
    <3>4. List!SerialTypeOK'
          BY <1>2, <3>1 DEF List!SerialTypeOK
    <3>5. QED  BY <1>1, <3>3, <3>4 DEF GateInv
  <2>4. CASE List!Pass
    <3>1. /\ running = NoAction /\ waiting # <<>> /\ waiting' = Tail(waiting)
          /\ running' = running /\ over' = over \union {Head(waiting)}
          BY <2>4 DEF List!Pass
    <3>2. Begun' = Begun \union {Head(waiting)}
          BY <3>1 DEF Begun
    <3>3. QED
          BY <1>1, <1>2, <2>1, <3>1, <3>2, TakeNext DEF GateInv, List!SerialTypeOK
  <2>5. QED  BY <1>5, <2>2, <2>3, <2>4 DEF Work
<1>6. CASE Serve \/ GoesOn \/ Sleep \/ UNCHANGED gateVars
  <2>1. schedule' = schedule
        BY <1>6, Zenon
        DEF Serve, GoesOn, Sleep, gateVars, vars, StaticResponse, NoPeerAddress, Refuse,
            Accept, Content, TooLarge, WrongState, BadBody, GoodBody, Completed,
            SkipHook, HookIgnores, HookThrows, EndOfChain, Rest
  <2>2. UNCHANGED listVars
        BY <1>6 DEF Serve, GoesOn, Sleep, gateVars
  <2>3. List!SerialTypeOK' /\ OrderedAsRequests'
        BY <2>1, <2>2 DEF GateInv, listVars, List!SerialTypeOK, OrderedAsRequests, Begun
  <2>4. QED  BY <1>1, <2>3 DEF GateInv
<1>7. QED  BY <1>4, <1>5, <1>6 DEF GateNext

LEMMA GateInvariant == GateSpec => []GateInv
<1>1. GateInv /\ [GateNext]_gateVars => GateInv'
      BY GateStepInv
<1>2. QED  BY <1>1, GateInitInv, PTL DEF GateSpec

\* The server behaves in the composition as it does alone, so what was proved of
\* it holds for the gateway.
THEOREM GateImplementsServer == GateSpec => ServerSpec
<1>1. GateInit => ServerInit
      BY DEF GateInit
<1>2. QED  BY <1>1, GateStepIsServerStep, PTL DEF GateSpec, ServerSpec

\* The list gets nothing but submissions, each item once.
THEOREM GateFeedsList == GateSpec => List!SerialSafety
<1>1. GateInit => List!SerialInit
      BY DEF GateInit
<1>2. ASSUME GateInv, [GateNext]_gateVars
      PROVE  [List!SerialNext]_(List!serialVars)
  <2>1. CASE Execute
    <3>1. <<handling, iter>> \in Actions
          BY <1>2, <2>1, NextIsNew DEF Execute, HookAccepts, Ask
    <3>2. QED  BY <2>1, <3>1 DEF Execute, List!SerialNext
  <2>2. CASE Work
        BY <2>2 DEF Work, List!SerialNext
  <2>3. CASE Serve \/ GoesOn \/ Sleep \/ UNCHANGED gateVars
        BY <2>3 DEF Serve, GoesOn, Sleep, gateVars, listVars, List!serialVars
  <2>4. QED  BY <1>2, <2>1, <2>2, <2>3 DEF GateNext
<1>3. QED  BY <1>1, <1>2, GateInvariant, PTL DEF GateSpec, List!SerialSafety

\* The guard of Submit() never keeps the server from a step: a hook that the loop
\* comes to may always append, so that the gateway does all that the server does.
THEOREM GateRefusesNothing ==
  GateSpec => [](AtHook => /\ <<handling, iter>> \notin over
                           /\ <<handling, iter>> # running
                           /\ \A n \in DOMAIN waiting : waiting[n] # <<handling, iter>>)
<1>1. GateInv => (AtHook => /\ <<handling, iter>> \notin over
                            /\ <<handling, iter>> # running
                            /\ \A n \in DOMAIN waiting : waiting[n] # <<handling, iter>>)
      BY NextIsNew
<1>2. QED  BY <1>1, GateInvariant, PTL

-----------------------------------------------------------------------------
(* What the run of Gateway checks *)

\* Type correctness of the composition.
THEOREM GateTypeCorrect == GateSpec => []GateTypeOK
<1>1. GateInv => GateTypeOK
      BY DEF GateInv, ServerInv, GateTypeOK
<1>2. QED  BY <1>1, GateInvariant, PTL

\* Commands begin in the order of the requests and of the configuration file.
THEOREM GateOrderedAsRequests == GateSpec => []OrderedAsRequests
<1>1. GateInv => OrderedAsRequests
      BY DEF GateInv
<1>2. QED  BY <1>1, GateInvariant, PTL

\* What was proved of the server, of the server with its list.
COROLLARY GateServes ==
  GateSpec => []ChainOrder /\ []AnswerIsTrue /\ []ServerCounters
BY GateImplementsServer, ServerChainOrder, ServerAnswerIsTrue, ServerCountersRight, PTL
=============================================================================
