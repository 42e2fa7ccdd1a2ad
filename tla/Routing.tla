------------------------------ MODULE Routing ------------------------------
(***************************************************************************)
(* How requests find their hooks: main() reads the hooks from the          *)
(* configuration file, registers a handler for the path of each or chains  *)
(* it to an earlier hook with the same path, and http::server looks for    *)
(* the handler of a request's path.                                        *)
(*                                                                         *)
(* A path is the sequence of what stands behind its slashes: "/a/b" is     *)
(* <<a, b>>, "/a/" is <<a, Empty>> and "/" is <<Empty>>.  <<>> stands for  *)
(* a configured path that does not begin with a slash.                     *)
(***************************************************************************)
EXTENDS Naturals, Sequences, FiniteSets, SequencesExt

CONSTANTS
  Names,       \* of path segments
  Empty,       \* the empty segment
  StatusName,  \* "status"
  MaxDepth,    \* bound: segments of a path
  MaxHooks,    \* bound: hooks in the configuration file
  Asserts      \* is assert() compiled in?

ASSUME RoutingAssumption ==
  /\ Empty \notin Names
  /\ StatusName \in Names
  /\ MaxDepth \in Nat \ {0}
  /\ MaxHooks \in Nat
  /\ Asserts \in BOOLEAN

Root == <<Empty>>
StatusPath == <<StatusName>>
Paths == UNION {[1 .. n -> Names \union {Empty}] : n \in 1 .. MaxDepth}

VARIABLES
  uri_path,  \* the paths of the hooks configured so far, in their order
  heads,     \* main()'s vector of hooks: those that were not chained
  mChain,    \* the hook that follows a hook in its chain, or 0
  handlers,  \* http::server's handlers: path |-> hook, or 0 for the status page
  startup    \* "loading", "failed" with an exception, "aborted" by an assertion

vars == <<uri_path, heads, mChain, handlers, startup>>

RoutingTypeOK ==
  /\ uri_path \in Seq(Paths \union {<<>>})
  /\ heads \in Seq(DOMAIN uri_path)
  /\ mChain \in [DOMAIN uri_path -> 0 .. Len(uri_path)]
  /\ DOMAIN handlers \subseteq Paths
  /\ \A p \in DOMAIN handlers : handlers[p] \in 0 .. Len(uri_path)
  /\ startup \in {"loading", "failed", "aborted"}

RoutingInit ==
  /\ uri_path = <<>>
  /\ heads = <<>>
  /\ mChain = <<>>
  /\ handlers = [p \in {StatusPath} |-> 0]
  /\ startup = "loading"

-----------------------------------------------------------------------------
(* http::server *)

Trimmed_Always(p) == IF Len(p) >= 1 /\ Last(p) = Empty THEN Front(p) ELSE p

\* add_handler() cuts a slash off the end, but leaves "/" alone.
Trimmed(p) == IF Len(p) > 1 /\ Last(p) = Empty THEN Front(p) ELSE p

FindHandler_NoRoot(path) ==
  LET Find[n \in 1 .. Len(path)] ==
        IF SubSeq(path, 1, n) \in DOMAIN handlers THEN SubSeq(path, 1, n)
        ELSE IF n > 1 THEN Find[n - 1] ELSE <<>>
  IN  Find[Len(path)]

\* findHandler(): the path, then what remains of it before its last slash, and
\* so on; at last "/".  Returns the path under which there is a handler, or <<>>.
FindHandler(path) ==
  LET Find[n \in 1 .. Len(path)] ==
        IF SubSeq(path, 1, n) \in DOMAIN handlers THEN SubSeq(path, 1, n)
        ELSE IF n > 1 THEN Find[n - 1]
        ELSE IF Root \in DOMAIN handlers THEN Root ELSE <<>>
  IN  Find[Len(path)]

-----------------------------------------------------------------------------
(* main(): one pass of the loop over the configured hooks *)

New == Len(uri_path) + 1
SamePath(path) == {n \in DOMAIN heads : uri_path[heads[n]] = path}

Configure(path) ==
  /\ startup = "loading"
  /\ New <= MaxHooks
  /\ uri_path' = Append(uri_path, path)

\* A new path gets a handler.
AddHandler(path) ==
  /\ Configure(path)
  /\ SamePath(path) = {}
  /\ path # <<>>
  /\ Trimmed(path) \notin DOMAIN handlers
  /\ handlers' = [p \in DOMAIN handlers \union {Trimmed(path)} |->
                    IF p = Trimmed(path) THEN New ELSE handlers[p]]
  /\ heads' = Append(heads, New)
  /\ mChain' = Append(mChain, 0)
  /\ UNCHANGED startup

\* add_handler() throws at a path without slash or one that is taken already,
\* and the program does not start.
AddHandlerThrows(path) ==
  /\ Configure(path)
  /\ SamePath(path) = {}
  /\ path = <<>> \/ Trimmed(path) \in DOMAIN handlers
  /\ startup' = "failed"
  /\ mChain' = Append(mChain, 0)
  /\ UNCHANGED <<heads, handlers>>

ChainHook_Replaces(path) ==
  /\ Configure(path)
  /\ SamePath(path) # {}
  /\ LET same == heads[CHOOSE n \in SamePath(path) : \A m \in SamePath(path) : m <= n]
     IN  mChain' = Append([mChain EXCEPT ![same] = New], 0)
  /\ UNCHANGED <<heads, handlers, startup>>

\* A known path: the hook is chained to the last one of main()'s vector that has
\* it.  chain() asserts that there is no hook there yet; without the assertion
\* that one is replaced.
ChainHook(path) ==
  /\ Configure(path)
  /\ SamePath(path) # {}
  /\ LET same == heads[CHOOSE n \in SamePath(path) : \A m \in SamePath(path) : m <= n]
     IN  IF Asserts /\ mChain[same] # 0
         THEN startup' = "aborted" /\ mChain' = Append(mChain, 0)
         ELSE /\ mChain' = Append([mChain EXCEPT ![same] = New], 0)
              /\ UNCHANGED startup
  /\ UNCHANGED <<heads, handlers>>

\* io.run(), or the end of a program that did not get so far.
Started == (startup # "loading" \/ New > MaxHooks) /\ UNCHANGED vars

RoutingNext ==
  \/ \E path \in Paths \union {<<>>} :
       AddHandler(path) \/ AddHandlerThrows(path) \/ ChainHook(path)
  \/ Started

RoutingSpec == RoutingInit /\ [][RoutingNext]_vars

-----------------------------------------------------------------------------
(* Properties *)

Covers(p, path) == p = Root \/ IsPrefix(p, path)

\* "The handler will be invoked for all incoming requests that target path or a
\* sub-path of it, except if there is a more specified handler for that sub-path"
\* (http_server.h, add_handler()): the longest path with a handler that covers
\* the request's path is found, "/" counting as the shortest.
FindsMostSpecific ==
  \A path \in Paths :
    LET covering == {p \in DOMAIN handlers : Covers(p, path)}
        found == FindHandler(path)
    IN  IF covering = {} THEN found = <<>>
        ELSE /\ found \in covering
             /\ \A p \in covering : p # Root => found # Root /\ Len(p) <= Len(found)

\* The chain that begins with a hook, in its order.
ChainFrom(head) ==
  LET Walk[n \in 0 .. Len(uri_path)] ==
        IF n = 0 THEN <<>> ELSE <<n>> \o Walk[mChain[n]]
  IN  Walk[head]

\* A hook can be triggered whose chain contains it, for it refuses requests to any
\* path but its own.
ChainFor(n) == ChainFrom(handlers[FindHandler(uri_path[n])])

\* add_handler() cuts the slash off the path "/a//" of one hook, so that it takes the
\* requests to the path "/a/" of another: README.md's "URI-Path at which the hook can
\* be triggered" is not true of the latter.
Outdone(n) == Append(uri_path[n], Empty) \in ToSet(uri_path)

\* A request to the exact path of a configured hook that is not outdone comes to
\* a chain that the hook is in, all of whose hooks have this path, in the order of
\* the configuration file; a program that has started left no such hook aside.
EveryHookReachable ==
  startup = "loading" =>
    \A n \in DOMAIN uri_path : ~Outdone(n) =>
      LET chain == ChainFor(n)
      IN  /\ FindHandler(uri_path[n]) # <<>>
          /\ Contains(chain, n)
          /\ \A k \in DOMAIN chain : uri_path[chain[k]] = uri_path[n]
          /\ \A k, l \in DOMAIN chain : k < l => chain[k] < chain[l]
=============================================================================
