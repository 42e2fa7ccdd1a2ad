----------------------------- MODULE HookServer -----------------------------
(***************************************************************************)
(* The life of HTTP requests to a path that has hooks: the callbacks that  *)
(* src/http_server.cpp gives to libmicrohttpd, and class hook of           *)
(* src/hook.cpp, which checks a request, takes its body and asks the chain *)
(* of hooks configured for the path.                                       *)
(*                                                                         *)
(* libmicrohttpd calls answerCb for the header of a request, once for each *)
(* piece of its body and once more at its end, and completedCb when the    *)
(* request is over or its connection breaks or times out.  It serves many  *)
(* requests at a time, from one thread: their callbacks interleave, the    *)
(* steps of one callback do not.  `handling' is the request whose last     *)
(* answerCb is going through the chain.                                    *)
(***************************************************************************)
EXTENDS Naturals, Sequences, FiniteSets

CONSTANTS
  Requests,      \* requests that clients may send
  NoRequest,     \* none of them
  ChainLength,   \* the hooks of the path, numbered in the order of their chain
  ContentLimit,  \* http::server's limit for the size of a body
  Pieces,        \* sizes of the pieces in which a body may arrive
  Asserts        \* is assert() compiled in? "cmake .." does, a release build not

ASSUME ServerAssumption ==
  /\ NoRequest \notin Requests
  /\ ChainLength \in Nat \ {0}
  /\ ContentLimit \in Nat
  /\ Pieces \subseteq Nat \ {0}
  /\ Asserts \in BOOLEAN

Hooks == 1 .. ChainLength

VARIABLES
  state,      \* request::impl::state; "new" before the header has come, "null"
              \* when there is no request object, "gone" after completedCb
  queued,     \* the status code of the response given to libmicrohttpd, or 0
  matches,    \* the hooks whose token and peer address the request fits
  size,       \* the size of request::impl::content
  truncated,  \* history: has a piece of the body been dropped?
  handling,   \* the request in completeRequest(), or NoRequest
  iter,       \* the loop variable of the lambda in hook::operator() ...
  count,      \* ... and its counter of accepting hooks
  asked,      \* history: the hooks whose process() was called
  schedule,   \* history: the calls of action_list::append()
  requests,   \* hooksRequests
  good,       \* hooksGoodRequests
  scheduled,  \* hooksScheduled
  aborted     \* has an assertion failed?

body == <<size, truncated>>
chain == <<handling, iter, count, asked>>
vars == <<state, queued, matches, body, chain, schedule, requests, good, scheduled, aborted>>

Codes == {202, 204, 400, 401, 403, 404, 405, 500}

ServerTypeOK ==
  /\ state \in [Requests -> {"new", "null", "accepted", "completed", "responded", "gone"}]
  /\ queued \in [Requests -> Codes \union {0}]
  /\ matches \in [Requests -> SUBSET Hooks]
  /\ size \in [Requests -> 0 .. ContentLimit]
  /\ truncated \in [Requests -> BOOLEAN]
  /\ handling \in Requests \union {NoRequest}
  /\ iter \in 1 .. ChainLength + 1
  /\ count \in 0 .. ChainLength
  /\ asked \in [Requests -> SUBSET Hooks]
  /\ schedule \in Seq(Requests \X Hooks)
  /\ requests \in Nat
  /\ good \in Nat
  /\ scheduled \in Nat
  /\ aborted \in BOOLEAN

ServerInit ==
  /\ state = [r \in Requests |-> "new"]
  /\ queued = [r \in Requests |-> 0]
  /\ matches = [r \in Requests |-> {}]
  /\ size = [r \in Requests |-> 0]
  /\ truncated = [r \in Requests |-> FALSE]
  /\ handling = NoRequest
  /\ iter = 1
  /\ count = 0
  /\ asked = [r \in Requests |-> {}]
  /\ schedule = <<>>
  /\ requests = 0
  /\ good = 0
  /\ scheduled = 0
  /\ aborted = FALSE

\* The thread is in the event loop, free to take the next callback.
Idle == handling = NoRequest /\ ~aborted

-----------------------------------------------------------------------------
(* newRequest(): the header of a request *)

\* What the header says; a token that fits no hook from this peer fits {}.
Headers == [method : {"POST", "GET", "DELETE"}, path : {"hook", "below", "elsewhere"},
            token : BOOLEAN, fits : SUBSET Hooks]

\* The server's own refusal, or 0: methodFrom() and findHandler(), for which a
\* path below a hook's path belongs to the hook.
ServerRefusal(h) == IF h.method = "DELETE" THEN 405
                    ELSE IF h.path = "elsewhere" THEN 404 ELSE 0

\* The hook's refusal, or 0.
HookRefusal(h) == IF h.method # "POST" THEN 405
                  ELSE IF h.path # "hook" THEN 404
                  ELSE IF ~h.token THEN 401
                  ELSE IF h.fits = {} THEN 403 ELSE 0

Arrives(r) == Idle /\ state[r] = "new"

StaticResponse(r, h) ==
  /\ Arrives(r)
  /\ ServerRefusal(h) # 0
  /\ state' = [state EXCEPT ![r] = "null"]
  /\ queued' = [queued EXCEPT ![r] = ServerRefusal(h)]
  /\ UNCHANGED <<matches, body, chain, schedule, requests, good, scheduled, aborted>>

\* The hook's handler throws: the request object is destroyed and libmicrohttpd
\* is told to close the connection.
NoPeerAddress(r, h) ==
  /\ Arrives(r)
  /\ ServerRefusal(h) = 0
  /\ requests' = requests + 1
  /\ state' = [state EXCEPT ![r] = "null"]
  /\ UNCHANGED <<queued, matches, body, chain, schedule, good, scheduled, aborted>>

Refuse(r, h) ==
  /\ Arrives(r)
  /\ ServerRefusal(h) = 0
  /\ HookRefusal(h) # 0
  /\ requests' = requests + 1
  /\ state' = [state EXCEPT ![r] = "responded"]
  /\ queued' = [queued EXCEPT ![r] = HookRefusal(h)]
  /\ UNCHANGED <<matches, body, chain, schedule, good, scheduled, aborted>>

Accept(r, h) ==
  /\ Arrives(r)
  /\ ServerRefusal(h) = 0
  /\ HookRefusal(h) = 0
  /\ requests' = requests + 1
  /\ state' = [state EXCEPT ![r] = "accepted"]
  /\ matches' = [matches EXCEPT ![r] = h.fits]
  /\ UNCHANGED <<queued, body, chain, schedule, good, scheduled, aborted>>

-----------------------------------------------------------------------------
(* addContent(): a piece of the body.  libmicrohttpd goes on delivering it until *)
(* a response is queued.                                                        *)

Receiving(r) == Idle /\ state[r] \in {"accepted", "responded"} /\ queued[r] = 0

Content_LimitExceeded(r, n) ==
  /\ Receiving(r)
  /\ size[r] <= ContentLimit
  /\ size' = [size EXCEPT ![r] = @ + n]
  /\ UNCHANGED <<state, queued, matches, truncated, chain, schedule,
                 requests, good, scheduled, aborted>>

Content(r, n) ==
  /\ Receiving(r)
  /\ size[r] + n <= ContentLimit
  /\ size' = [size EXCEPT ![r] = @ + n]
  /\ UNCHANGED <<state, queued, matches, truncated, chain, schedule,
                 requests, good, scheduled, aborted>>

\* The piece does not fit.  A response 413 is made but not queued; another such
\* piece finds the response already there, which is asserted not to happen.
TooLarge(r, n) ==
  /\ Receiving(r)
  /\ size[r] + n > ContentLimit
  /\ state' = [state EXCEPT ![r] = "responded"]
  /\ truncated' = [truncated EXCEPT ![r] = TRUE]
  /\ aborted' = (Asserts /\ state[r] = "responded")
  /\ UNCHANGED <<queued, matches, size, chain, schedule, requests, good, scheduled>>

-----------------------------------------------------------------------------
(* completeRequest(): the end of the body.  The handler given to accept() walks *)
(* through the chain of hooks.                                                  *)

\* The state is asserted to be "accepted", which it is not after addContent()
\* made a response.
WrongState(r) ==
  /\ Receiving(r)
  /\ Asserts
  /\ state[r] # "accepted"
  /\ aborted' = TRUE
  /\ UNCHANGED <<state, queued, matches, body, chain, schedule, requests, good, scheduled>>

Completes(r) == Receiving(r) /\ (Asserts => state[r] = "accepted")

\* The body is no JSON, or log_request() does not find in it what it wants.
BadBody_NotCounted(r) ==
  /\ Completes(r)
  /\ state' = [state EXCEPT ![r] = "responded"]
  /\ queued' = [queued EXCEPT ![r] = 400]
  /\ UNCHANGED <<matches, body, chain, schedule, requests, good, scheduled, aborted>>

BadBody(r) ==
  /\ Completes(r)
  /\ good' = good + 1
  /\ state' = [state EXCEPT ![r] = "responded"]
  /\ queued' = [queued EXCEPT ![r] = 400]
  /\ UNCHANGED <<matches, body, chain, schedule, requests, scheduled, aborted>>

\* JSON has a character at least.
GoodBody(r) ==
  /\ Completes(r)
  /\ size[r] > 0
  /\ good' = good + 1
  /\ state' = [state EXCEPT ![r] = "completed"]
  /\ handling' = r
  /\ iter' = 1
  /\ count' = 0
  /\ UNCHANGED <<queued, matches, body, asked, schedule, requests, scheduled, aborted>>

\* The lambda returns and the response it made is queued.
Respond(code) ==
  /\ state' = [state EXCEPT ![handling] = "responded"]
  /\ queued' = [queued EXCEPT ![handling] = code]
  /\ handling' = NoRequest
  /\ iter' = 1
  /\ count' = 0

\* The loop comes to a hook; it is asked if the request fits it.
AtHook == handling # NoRequest /\ iter \in Hooks

SkipHook ==
  /\ AtHook
  /\ iter \notin matches[handling]
  /\ iter' = iter + 1
  /\ UNCHANGED <<state, queued, matches, body, handling, count, asked, schedule,
                 requests, good, scheduled, aborted>>

Ask_Unchecked == AtHook /\ asked' = [asked EXCEPT ![handling] = @ \union {iter}]

Ask == AtHook /\ iter \in matches[handling]
       /\ asked' = [asked EXCEPT ![handling] = @ \union {iter}]

HookIgnores ==
  /\ Ask
  /\ iter' = iter + 1
  /\ UNCHANGED <<state, queued, matches, body, handling, count, schedule,
                 requests, good, scheduled, aborted>>

HookAccepts_AtFront ==
  /\ Ask
  /\ schedule' = <<<<handling, iter>>>> \o schedule
  /\ scheduled' = scheduled + 1
  /\ count' = count + 1
  /\ iter' = iter + 1
  /\ UNCHANGED <<state, queued, matches, body, handling, requests, good, aborted>>

HookAccepts_NotCounted ==
  /\ Ask
  /\ schedule' = Append(schedule, <<handling, iter>>)
  /\ scheduled' = scheduled + 1
  /\ iter' = iter + 1
  /\ UNCHANGED <<state, queued, matches, body, handling, count, requests, good, aborted>>

\* execute(): the hook's command or function is appended to the list of actions.
HookAccepts ==
  /\ Ask
  /\ schedule' = Append(schedule, <<handling, iter>>)
  /\ scheduled' = scheduled + 1
  /\ count' = count + 1
  /\ iter' = iter + 1
  /\ UNCHANGED <<state, queued, matches, body, handling, requests, good, aborted>>

\* The JSON lacks something that this hook needs, or another exception is thrown.
HookThrows(code) ==
  /\ Ask
  /\ Respond(code)
  /\ UNCHANGED <<matches, body, schedule, requests, good, scheduled, aborted>>

EndOfChain ==
  /\ handling # NoRequest
  /\ iter \notin Hooks
  /\ Respond(IF count # 0 THEN 202 ELSE 204)
  /\ UNCHANGED <<matches, body, asked, schedule, requests, good, scheduled, aborted>>

-----------------------------------------------------------------------------
\* completedCb(): the response is sent, or the client or the timeout of the
\* connection ended the request before.
Completed(r) ==
  /\ Idle
  /\ state[r] \notin {"new", "gone"}
  /\ state' = [state EXCEPT ![r] = "gone"]
  /\ UNCHANGED <<queued, matches, body, chain, schedule, requests, good, scheduled, aborted>>

\* Nothing is left to do, or nobody left to do it.
Rest == (aborted \/ \A r \in Requests : state[r] = "gone") /\ UNCHANGED vars

ServerNext ==
  \/ \E r \in Requests, h \in Headers :
       StaticResponse(r, h) \/ NoPeerAddress(r, h) \/ Refuse(r, h) \/ Accept(r, h)
  \/ \E r \in Requests, n \in Pieces : Content(r, n) \/ TooLarge(r, n)
  \/ \E r \in Requests : WrongState(r) \/ BadBody(r) \/ GoodBody(r) \/ Completed(r)
  \/ SkipHook
  \/ HookIgnores
  \/ HookAccepts
  \/ \E code \in {400, 500} : HookThrows(code)
  \/ EndOfChain
  \/ Rest

ServerSpec == ServerInit /\ [][ServerNext]_vars

-----------------------------------------------------------------------------
(* Properties *)

Entries == DOMAIN schedule
RequestOf(n) == schedule[n][1]
HookOf(n) == schedule[n][2]

\* Nothing is scheduled unless the request fits that very hook and its whole
\* body has arrived: that the header fitted some hook of the chain is not enough,
\* nor that the part of the body within the limit makes sense.
OnlyFittingHooksRun ==
  \A n \in Entries : HookOf(n) \in matches[RequestOf(n)] /\ ~truncated[RequestOf(n)]

\* Requests are served by turns, but what one request schedules stays together,
\* in the order of the configuration file, each hook once at most.
ChainOrder ==
  \A m, n \in Entries :
    m < n /\ RequestOf(m) = RequestOf(n) =>
      /\ HookOf(m) < HookOf(n)
      /\ \A k \in m .. n : RequestOf(k) = RequestOf(m)

\* "accepted" is answered if something was scheduled and "ignored" if nothing
\* was, both after the whole chain was asked; a refused request did nothing.
AnswerIsTrue ==
  \A r \in Requests :
    LET mine == {n \in Entries : RequestOf(n) = r} IN
    /\ queued[r] = 202 => mine # {} /\ asked[r] = matches[r]
    /\ queued[r] = 204 => mine = {} /\ asked[r] = matches[r]
    /\ queued[r] \in {401, 403, 404, 405} => mine = {} /\ asked[r] = {}

\* The counters of the status page: well-authorised requests are those that got
\* to the handler, and every call of append() is counted.
ServerCounters ==
  /\ good = Cardinality({r \in Requests : queued[r] \in {202, 204, 400, 500}})
            + (IF handling = NoRequest THEN 0 ELSE 1)
  /\ good <= requests
  /\ scheduled = Len(schedule)

\* http_server.cpp asserts that a request whose body has ended is still in the
\* state that accept() put it in, and that addContent() makes no second response.
AssertionsHold == ~aborted

\* README.md: a request to a path with several hooks "will check all matching
\* hooks".  Stated for a request that got to the first of them.
AllMatchingChecked ==
  \A r \in Requests :
    asked[r] # {} /\ handling # r => asked[r] = matches[r]
=============================================================================
