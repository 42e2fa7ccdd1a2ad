---------------------------- MODULE RoutingProofs ----------------------------
(***************************************************************************)
(* Proofs about Routing, for paths of any depth and any number of hooks:   *)
(* what findHandler() finds, and that the loop of main() leaves no hook    *)
(* without a way to it.                                                    *)
(*                                                                         *)
(* The search is a loop, here a recursive function; that there is such a   *)
(* function at all has to be proved before anything can be said of it.     *)
(***************************************************************************)
EXTENDS Routing, DataLemmas

-----------------------------------------------------------------------------
(* The loop of findHandler() *)

\* One pass of the loop: what the n-th place holds, if it is taken, else what has been
\* found for the places before it.
Search(k, taken, at, last, f) ==
  [n \in 1 .. k |-> IF n \in taken THEN at[n] ELSE IF n > 1 THEN f[n - 1] ELSE last]

\* There is a function that the loop computes ...
LEMMA SearchExists ==
  ASSUME NEW k \in Nat, NEW taken \in SUBSET (1 .. k), NEW at, NEW last
  PROVE  \E f : f = Search(k, taken, at, last, f)
<1>  DEFINE UpTo(n) == {m \in taken : m <= n}
            Top(T)  == CHOOSE m \in T : \A l \in T : l <= m
            g       == [n \in 1 .. k |-> IF UpTo(n) = {} THEN last ELSE at[Top(UpTo(n))]]
<1>1. ASSUME NEW n \in 1 .. k, n \in taken PROVE UpTo(n) # {} /\ Top(UpTo(n)) = n
  <2>1. n \in UpTo(n) /\ \A l \in UpTo(n) : l <= n
        BY <1>1
  <2>2. \A m \in UpTo(n) : (\A l \in UpTo(n) : l <= m) => m = n
        BY <2>1
  <2>3. QED  BY <2>1, <2>2
<1>0. \A m \in taken : m \in Nat /\ m >= 1
      OBVIOUS
<1>2. ASSUME NEW n \in 1 .. k, n \notin taken, n > 1 PROVE UpTo(n) = UpTo(n - 1)
  <2>1. \A m \in taken : m <= n <=> m <= n - 1
        BY <1>0, <1>2
  <2>2. QED  BY <2>1
<1>3. ASSUME 1 \notin taken PROVE UpTo(1) = {}
  <2>1. \A m \in taken : ~(m <= 1)
        BY <1>0, <1>3
  <2>2. QED  BY <2>1
<1>  HIDE DEF UpTo, Top
<1>4. ASSUME NEW n \in 1 .. k
      PROVE  g[n] = IF n \in taken THEN at[n] ELSE IF n > 1 THEN g[n - 1] ELSE last
  <2>1. CASE n \in taken
        BY <1>1, <2>1
  <2>2. CASE n \notin taken /\ n > 1
    <3>1. n - 1 \in 1 .. k
          BY <2>2
    <3>2. QED  BY <1>2, <2>2, <3>1
  <2>3. CASE n \notin taken /\ ~(n > 1)
    <3>1. n = 1
          BY <2>3
    <3>2. QED  BY <1>3, <2>3, <3>1
  <2>4. QED  BY <2>1, <2>2, <2>3
<1>5. g = Search(k, taken, at, last, g)
  <2>1. g = [n \in 1 .. k |-> g[n]]
        OBVIOUS
  <2>  HIDE DEF g
  <2>2. QED  BY <1>4, <2>1 DEF Search
<1>6. QED  BY <1>5, Zenon

\* What it has found when it comes from the n-th place: the last one that is taken.
Finds(n, taken, at, last, f) ==
  \/ \E m \in taken : m <= n /\ f[n] = at[m] /\ \A l \in taken : l <= n => l <= m
  \/ (\A m \in taken : m > n) /\ f[n] = last

\* ... and it finds the last place that is taken.
LEMMA SearchFinds ==
  ASSUME NEW k \in Nat, NEW taken \in SUBSET (1 .. k), NEW at, NEW last, NEW f,
         f = Search(k, taken, at, last, f), NEW n \in 1 .. k
  PROVE  Finds(n, taken, at, last, f)
<1>  DEFINE Found(j) ==
              \/ \E m \in taken : m <= j /\ f[j] = at[m] /\ \A l \in taken : l <= j => l <= m
              \/ (\A m \in taken : m > j) /\ f[j] = last
            Good == {j \in 0 .. k : j = 0 \/ Found(j)}
<1>1. ASSUME NEW j \in 0 .. k - 1, j \in Good PROVE j + 1 \in Good
  <2>1. j + 1 \in 1 .. k /\ j + 1 \in 0 .. k /\ j + 1 - 1 = j
        BY <1>1
  <2>2. f[j + 1] = IF j + 1 \in taken THEN at[j + 1] ELSE IF j + 1 > 1 THEN f[j + 1 - 1] ELSE last
        BY <2>1 DEF Search
  <2>3. CASE j + 1 \in taken
    <3>1. Found(j + 1)
          BY <2>1, <2>2, <2>3
    <3>2. QED  BY <2>1, <3>1
  <2>4. CASE j + 1 \notin taken /\ j # 0
    <3>1. f[j + 1] = f[j] /\ Found(j)
          BY <1>1, <2>1, <2>2, <2>4
    <3>2. \A l \in taken : l <= j + 1 <=> l <= j
          BY <2>4
    <3>3. \A l \in taken : l > j + 1 <=> l > j
          BY <2>4
    <3>4. Found(j + 1)
          BY <3>1, <3>2, <3>3
    <3>5. QED  BY <2>1, <3>4
  <2>5. CASE j + 1 \notin taken /\ j = 0
    <3>1. f[j + 1] = last /\ \A m \in taken : m > j + 1
          BY <2>2, <2>5
    <3>2. QED  BY <2>1, <3>1
  <2>6. QED  BY <2>3, <2>4, <2>5
<1>2. 0 \in Good
      OBVIOUS
<1>  HIDE DEF Found
<1>3. \A j \in 0 .. k : j \in Good
  <2>  HIDE DEF Good
  <2>1. QED  BY <1>1, <1>2, Induction
<1>4. n \in Good /\ n # 0
      BY <1>3
<1>5. QED  BY <1>4 DEF Found, Finds

-----------------------------------------------------------------------------
(* Paths *)

Segments == Names \union {Empty}

LEMMA PathFacts ==
  ASSUME NEW path \in Paths
  PROVE  path \in Seq(Segments) /\ Len(path) \in Nat /\ Len(path) >= 1 /\ Len(path) <= MaxDepth
<1>1. PICK n \in 1 .. MaxDepth : path \in [1 .. n -> Segments]
      BY DEF Paths, Segments
<1>2. n \in Nat
      BY <1>1, RoutingAssumption
<1>3. path \in Seq(Segments) /\ Len(path) = n
      BY <1>1, <1>2
<1>4. QED  BY <1>1, <1>2, <1>3, RoutingAssumption

LEMMA PathIs ==
  ASSUME NEW path \in Seq(Segments), Len(path) >= 1, Len(path) <= MaxDepth
  PROVE  path \in Paths
<1>1. path \in [1 .. Len(path) -> Segments] /\ Len(path) \in Nat
      BY LenProperties
<1>2. Len(path) \in 1 .. MaxDepth
      BY <1>1, RoutingAssumption
<1>3. QED  BY <1>1, <1>2 DEF Paths, Segments

\* The first segments of a path.
LEMMA Beginning ==
  ASSUME NEW S, NEW s \in Seq(S), NEW n \in 1 .. Len(s)
  PROVE  /\ SubSeq(s, 1, n) \in Seq(S) /\ Len(SubSeq(s, 1, n)) = n
         /\ \A i \in 1 .. n : SubSeq(s, 1, n)[i] = s[i]
<1>1. PICK k \in Nat : k = Len(s) /\ n \in 1 .. k
      BY LenProperties
<1>2. 1 \in Int /\ n \in Int /\ \A i \in 1 .. n : s[i] \in S
      BY <1>1, ElementOfSeq
<1>3. /\ SubSeq(s, 1, n) \in Seq(S)
      /\ Len(SubSeq(s, 1, n)) = IF 1 <= n THEN n - 1 + 1 ELSE 0
      /\ \A i \in 1 .. n - 1 + 1 : SubSeq(s, 1, n)[i] = s[1 + i - 1]
      BY <1>2, SubSeqProperties
<1>4. QED  BY <1>1, <1>3

\* add_handler() leaves a path or cuts one slash off its end.
LEMMA TrimmedPath ==
  ASSUME NEW path \in Paths
  PROVE  /\ Trimmed(path) \in Paths
         /\ \/ Trimmed(path) = path
            \/ /\ Len(path) > 1 /\ Trimmed(path) = SubSeq(path, 1, Len(path) - 1)
               /\ path = Append(Trimmed(path), Empty)
<1>1. PICK k \in Nat : k = Len(path) /\ k >= 1 /\ k <= MaxDepth
      BY PathFacts
<1>2. CASE k > 1 /\ Last(path) = Empty
  <2>1. Trimmed(path) = SubSeq(path, 1, k - 1)
        BY <1>1, <1>2 DEF Trimmed, Front
  <2>2. k - 1 \in 1 .. k /\ k - 1 + 1 = k
        BY <1>1, <1>2
  <2>3. /\ Trimmed(path) \in Seq(Segments) /\ Len(Trimmed(path)) = k - 1
        /\ \A i \in 1 .. k - 1 : Trimmed(path)[i] = path[i]
        BY <1>1, <2>1, <2>2, PathFacts, Beginning
  <2>4. Trimmed(path) \in Paths
        BY <1>1, <1>2, <2>3, PathIs, RoutingAssumption
  <2>5. path = Append(Trimmed(path), Empty)
    <3>  DEFINE t == Trimmed(path)
                u == Append(t, Empty)
    <3>1. Empty \in Segments
          BY DEF Segments
    <3>2. /\ u \in Seq(Segments) /\ Len(u) = k
          /\ \A i \in 1 .. k - 1 : u[i] = t[i]
          /\ u[k] = Empty
      <4>  HIDE DEF t
      <4>1. t \in Seq(Segments) /\ Len(t) = k - 1
            BY <2>3 DEF t
      <4>2. QED  BY <2>2, <3>1, <4>1, AppendProperties
    <3>3. \A i \in 1 .. k : i = k \/ i \in 1 .. k - 1
          OBVIOUS
    <3>4. path[k] = Empty
          BY <1>1, <1>2 DEF Last
    <3>5. \A i \in 1 .. k : path[i] = u[i]
          BY <2>3, <3>2, <3>3, <3>4
    <3>6. path \in Seq(Segments)
          BY PathFacts
    <3>  HIDE DEF t, u
    <3>7. path = u
          BY <1>1, <3>2, <3>5, <3>6, SeqEqual
    <3>8. QED  BY <3>7 DEF t, u
  <2>6. QED  BY <1>1, <1>2, <2>1, <2>4, <2>5
<1>3. CASE ~(k > 1 /\ Last(path) = Empty)
      BY <1>1, <1>3 DEF Trimmed
<1>4. QED  BY <1>2, <1>3

-----------------------------------------------------------------------------
(* findHandler() *)

\* The longest beginning of the path that has a handler is found, else "/".
LEMMA FindHandlerFinds ==
  ASSUME NEW path \in Paths
  PROVE  \/ \E n \in 1 .. Len(path) :
              /\ SubSeq(path, 1, n) \in DOMAIN handlers
              /\ FindHandler(path) = SubSeq(path, 1, n)
              /\ \A l \in 1 .. Len(path) : SubSeq(path, 1, l) \in DOMAIN handlers => l <= n
         \/ /\ \A l \in 1 .. Len(path) : SubSeq(path, 1, l) \notin DOMAIN handlers
            /\ FindHandler(path) = IF Root \in DOMAIN handlers THEN Root ELSE <<>>
<1>1. PICK k \in Nat : k = Len(path) /\ k >= 1
      BY PathFacts
<1>  DEFINE taken == {n \in 1 .. k : SubSeq(path, 1, n) \in DOMAIN handlers}
            at    == [n \in 1 .. k |-> SubSeq(path, 1, n)]
            last  == IF Root \in DOMAIN handlers THEN Root ELSE <<>>
            loop(f) == Search(k, taken, at, last, f)
            body(f) == [n \in 1 .. Len(path) |->
                          IF SubSeq(path, 1, n) \in DOMAIN handlers THEN SubSeq(path, 1, n)
                          ELSE IF n > 1 THEN f[n - 1]
                          ELSE IF Root \in DOMAIN handlers THEN Root ELSE <<>>]
            find    == CHOOSE f : f = body(f)
<1>2. FindHandler(path) = find[Len(path)]
      BY Zenon DEF FindHandler
<1>3. \A f : body(f) = loop(f)
      BY <1>1 DEF Search
<1>4. \E f : f = loop(f)
  <2>  HIDE DEF at, last
  <2>1. taken \in SUBSET (1 .. k)
        OBVIOUS
  <2>  HIDE DEF taken
  <2>2. QED  BY <2>1, SearchExists, Zenon
<1>5. find = loop(find)
  <2>  HIDE DEF loop, body
  <2>1. \E f : f = body(f)
        BY <1>3, <1>4
  <2>2. find = body(find)
        BY <2>1, Zenon
  <2>3. QED  BY <1>3, <2>2
<1>6. Finds(k, taken, at, last, find)
  <2>1. taken \in SUBSET (1 .. k) /\ k \in 1 .. k
        BY <1>1
  <2>2. find = Search(k, taken, at, last, find)
        BY <1>5
  <2>  HIDE DEF at, last, taken, find, loop
  <2>3. QED  BY <2>1, <2>2, SearchFinds, Zenon
<1>7. find[k] = FindHandler(path)
      BY <1>1, <1>2
<1>  HIDE DEF find
<1>8. CASE \E m \in taken : m <= k /\ find[k] = at[m] /\ \A l \in taken : l <= k => l <= m
      BY <1>1, <1>7, <1>8
<1>9. CASE (\A m \in taken : m > k) /\ find[k] = last
      BY <1>1, <1>7, <1>9
<1>10. QED  BY <1>6, <1>8, <1>9 DEF Finds

\* The paths above a path, apart from "/".
LEMMA Above ==
  ASSUME NEW path \in Paths, NEW p \in Paths
  PROVE  IsPrefix(p, path) <=> \E n \in 1 .. Len(path) : p = SubSeq(path, 1, n)
<1>1. PICK k \in Nat : k = Len(path)
      BY PathFacts
<1>2. PICK n \in Nat : n = Len(p) /\ n >= 1 /\ SubSeq(p, 1, n) = p
      BY PathFacts, SubSeqFull
<1>3. IsPrefix(p, path) <=> n <= k /\ p = SubSeq(path, 1, n)
      BY <1>1, <1>2 DEF IsPrefix
<1>4. \A m \in 1 .. k : Len(SubSeq(path, 1, m)) = m
      BY <1>1, PathFacts, Beginning
<1>5. n <= k => n \in 1 .. k
      BY <1>2
<1>6. \A m \in 1 .. k : p = SubSeq(path, 1, m) => m = n /\ n <= k
      BY <1>2, <1>4
<1>7. QED  BY <1>1, <1>3, <1>5, <1>6

\* Whatever handlers there are, that of the longest path is found.
LEMMA MostSpecific ==
  ASSUME DOMAIN handlers \subseteq Paths
  PROVE  FindsMostSpecific
<1> SUFFICES ASSUME NEW path \in Paths
             PROVE  LET covering == {p \in DOMAIN handlers : Covers(p, path)}
                        found == FindHandler(path)
                    IN  IF covering = {} THEN found = <<>>
                        ELSE /\ found \in covering
                             /\ \A p \in covering :
                                  p # Root => found # Root /\ Len(p) <= Len(found)
    BY DEF FindsMostSpecific
<1>  DEFINE covering == {p \in DOMAIN handlers : Covers(p, path)}
<1>1. PICK k \in Nat : k = Len(path)
      BY PathFacts
<1>2. \A n \in 1 .. k : Len(SubSeq(path, 1, n)) = n
      BY <1>1, PathFacts, Beginning
<1>3. \A p \in DOMAIN handlers :
        Covers(p, path) <=> p = Root \/ \E n \in 1 .. k : p = SubSeq(path, 1, n)
      BY <1>1, Above DEF Covers
<1>4. Len(Root) = 1 /\ Root # <<>>
      BY DEF Root
<1>5. CASE \E n \in 1 .. k :
             /\ SubSeq(path, 1, n) \in DOMAIN handlers
             /\ FindHandler(path) = SubSeq(path, 1, n)
             /\ \A l \in 1 .. k : SubSeq(path, 1, l) \in DOMAIN handlers => l <= n
  <2>1. PICK n \in 1 .. k :
             /\ SubSeq(path, 1, n) \in DOMAIN handlers
             /\ FindHandler(path) = SubSeq(path, 1, n)
             /\ \A l \in 1 .. k : SubSeq(path, 1, l) \in DOMAIN handlers => l <= n
        BY <1>5
  <2>2. FindHandler(path) \in covering /\ Len(FindHandler(path)) = n
        BY <1>2, <1>3, <2>1
  <2>3. ASSUME NEW p \in covering, p # Root
        PROVE  FindHandler(path) # Root /\ Len(p) <= n
    <3>1. PICK l \in 1 .. k : p = SubSeq(path, 1, l)
          BY <1>3, <2>3
    <3>2. l <= n /\ Len(p) = l
          BY <1>2, <2>1, <3>1
    <3>3. n # 1 \/ l = 1
          BY <3>2
    <3>4. QED  BY <1>4, <2>1, <2>2, <2>3, <3>1, <3>2, <3>3
  <2>4. QED  BY <2>2, <2>3
<1>6. CASE /\ \A l \in 1 .. k : SubSeq(path, 1, l) \notin DOMAIN handlers
           /\ FindHandler(path) = IF Root \in DOMAIN handlers THEN Root ELSE <<>>
  <2>1. covering = IF Root \in DOMAIN handlers THEN {Root} ELSE {}
        BY <1>3, <1>6
  <2>2. QED  BY <1>6, <2>1
<1>7. QED  BY <1>1, <1>5, <1>6, FindHandlerFinds

-----------------------------------------------------------------------------
(* What the loop of main() keeps *)

\* The hooks that were not chained to another one.
Heads == ToSet(heads)

HooksTyped ==
  /\ uri_path \in Seq(Paths \union {<<>>})
  /\ heads \in Seq(DOMAIN uri_path)
  /\ mChain \in [DOMAIN uri_path -> 0 .. Len(uri_path)]

\* So the search for the last of them with some path finds the only one.
HeadsDiffer ==
  /\ \A h \in Heads : uri_path[h] \in Paths
  /\ \A m, n \in DOMAIN heads : uri_path[heads[m]] = uri_path[heads[n]] => m = n

\* Behind a head there is a later hook with its path at most, and nothing behind it.
ChainsOfTwo ==
  \A h \in DOMAIN uri_path : mChain[h] # 0 =>
    /\ h \in Heads /\ mChain[h] \notin Heads
    /\ mChain[h] > h
    /\ uri_path[mChain[h]] = uri_path[h]

\* No hook is left aside.
AllChained ==
  Asserts /\ startup = "loading" =>
    \A n \in DOMAIN uri_path : \E h \in Heads : n = h \/ mChain[h] = n

\* Behind the server's handlers there are just the status page and the heads.
HandlersOfHeads ==
  /\ DOMAIN handlers \subseteq Paths
  /\ \A p \in DOMAIN handlers : handlers[p] \in 0 .. Len(uri_path)
  /\ \A h \in Heads :
       Trimmed(uri_path[h]) \in DOMAIN handlers /\ handlers[Trimmed(uri_path[h])] = h
  /\ \A p \in DOMAIN handlers : p = StatusPath \/ \E h \in Heads : p = Trimmed(uri_path[h])

RouteInv ==
  /\ HooksTyped
  /\ HeadsDiffer
  /\ ChainsOfTwo
  /\ AllChained
  /\ HandlersOfHeads

LEMMA StatusIsPath == StatusPath \in Paths
<1>1. StatusPath \in Seq(Segments) /\ Len(StatusPath) = 1
      BY RoutingAssumption DEF StatusPath, Segments
<1>2. Len(StatusPath) >= 1 /\ Len(StatusPath) <= MaxDepth
  <2>1. 1 <= MaxDepth
        BY RoutingAssumption
  <2>2. QED  BY <1>1, <2>1
<1>  HIDE DEF StatusPath
<1>3. QED  BY <1>1, <1>2, PathIs

\* No hooks yet.
LEMMA RouteInitInv ==
  ASSUME uri_path = <<>>, heads = <<>>, mChain = <<>>,
         DOMAIN handlers \subseteq {StatusPath},
         \A p \in DOMAIN handlers : handlers[p] = 0
  PROVE  RouteInv
<1>1. DOMAIN <<>> = {} /\ Len(<<>>) = 0 /\ Heads = {}
      BY EmptySeq DEF Heads, ToSet
<1>2. HooksTyped
      BY <1>1, EmptySeq DEF HooksTyped
<1>4. HandlersOfHeads
      BY <1>1, StatusIsPath DEF HandlersOfHeads
<1>5. HeadsDiffer /\ ChainsOfTwo /\ AllChained
      BY <1>1 DEF HeadsDiffer, ChainsOfTwo, AllChained
<1>6. QED  BY <1>2, <1>4, <1>5 DEF RouteInv

\* A chain begins with a head, ends there or with the hook behind it.
LEMMA ChainIs ==
  ASSUME HooksTyped, ChainsOfTwo, NEW h \in DOMAIN uri_path
  PROVE  ChainFrom(h) = IF mChain[h] = 0 THEN <<h>> ELSE <<h, mChain[h]>>
<1>1. PICK k \in Nat : k = Len(uri_path) /\ DOMAIN uri_path = 1 .. k
      BY LenProperties DEF HooksTyped
<1>2. /\ mChain \in [1 .. k -> 0 .. k]
      /\ \A n \in 1 .. k : mChain[n] # 0 =>
           mChain[n] \in 1 .. k /\ n \in Heads /\ mChain[n] \notin Heads
  <2>1. mChain \in [1 .. k -> 0 .. k]
        BY <1>1 DEF HooksTyped
  <2>2. \A n \in 1 .. k : mChain[n] # 0 => n \in Heads /\ mChain[n] \notin Heads
        BY <1>1 DEF ChainsOfTwo
  <2>3. \A n \in 1 .. k : mChain[n] # 0 => mChain[n] \in 1 .. k
    <3>1. ASSUME NEW n \in 1 .. k, mChain[n] # 0 PROVE mChain[n] \in 1 .. k
      <4>1. mChain[n] \in 0 .. k
            BY <2>1
      <4>2. QED  BY <3>1, <4>1
    <3>2. QED  BY <3>1
  <2>4. QED  BY <2>1, <2>2, <2>3
<1>3. \A n \in 1 .. k : mChain[n] # 0 => mChain[mChain[n]] = 0
      BY <1>2
<1>  DEFINE walk(f) == [n \in 0 .. Len(uri_path) |->
                          IF n = 0 THEN <<>> ELSE <<n>> \o f[mChain[n]]]
            rest(n) == IF mChain[n] = 0 THEN <<>> ELSE <<mChain[n]>>
            g == [n \in 0 .. k |-> IF n = 0 THEN <<>> ELSE <<n>> \o rest(n)]
            chain == CHOOSE f : f = walk(f)
<1>4. ChainFrom(h) = chain[h]
      BY Zenon DEF ChainFrom
<1>5. \A n \in 1 .. k : <<n>> \o <<>> = <<n>>
      OBVIOUS
<1>6. g = walk(g)
  <2>1. \A n \in 1 .. k : g[mChain[n]] = rest(n)
    <3>  TAKE n \in 1 .. k
    <3>1. CASE mChain[n] = 0
          BY <1>1, <3>1
    <3>2. CASE mChain[n] # 0
      <4>1. mChain[n] \in 0 .. k /\ mChain[n] \in 1 .. k /\ mChain[mChain[n]] = 0
            BY <1>2, <1>3, <3>2
      <4>2. g[mChain[n]] = <<mChain[n]>> \o <<>>
            BY <3>2, <4>1
      <4>3. QED  BY <1>5, <3>2, <4>1, <4>2
    <3>3. QED  BY <3>1, <3>2
  <2>2. \A n \in 0 .. k : n = 0 \/ n \in 1 .. k
        OBVIOUS
  <2>3. \A n \in 0 .. k : g[n] = IF n = 0 THEN <<>> ELSE <<n>> \o g[mChain[n]]
        BY <2>1, <2>2
  <2>4. g = [n \in 0 .. k |-> g[n]]
        OBVIOUS
  <2>  HIDE DEF g
  <2>5. QED  BY <1>1, <2>3, <2>4
<1>7. chain = walk(chain)
  <2>  HIDE DEF walk, g
  <2>1. \E f : f = walk(f)
        BY <1>6, Zenon
  <2>2. QED  BY <2>1, Zenon
<1>  HIDE DEF chain
<1>8. /\ chain[0] = <<>>
      /\ \A n \in 1 .. k : chain[n] = <<n>> \o chain[mChain[n]]
  <2>1. chain = [n \in 0 .. k |-> IF n = 0 THEN <<>> ELSE <<n>> \o chain[mChain[n]]]
        BY <1>1, <1>7
  <2>  HIDE DEF walk
  <2>2. \A n \in 0 .. k : chain[n] = IF n = 0 THEN <<>> ELSE <<n>> \o chain[mChain[n]]
        BY <2>1, Zenon
  <2>3. 0 \in 0 .. k /\ \A n \in 1 .. k : n \in 0 .. k /\ n # 0
        OBVIOUS
  <2>4. QED  BY <2>2, <2>3
<1>9. \A n \in 1 .. k : mChain[n] = 0 => chain[n] = <<n>>
      BY <1>5, <1>8
<1>10. CASE mChain[h] = 0
       BY <1>1, <1>4, <1>9, <1>10
<1>11. CASE mChain[h] # 0
  <2>1. PICK m \in 1 .. k : m = mChain[h] /\ mChain[m] = 0
        BY <1>1, <1>2, <1>3, <1>11
  <2>2. chain[h] = <<h>> \o <<m>>
        BY <1>1, <1>8, <1>9, <2>1
  <2>3. <<h>> \o <<m>> = <<h, m>>
        BY PairOfSingles
  <2>4. QED  BY <1>4, <1>11, <2>1, <2>2, <2>3
<1>12. QED  BY <1>10, <1>11
-----------------------------------------------------------------------------
(* One pass of the loop of main() *)

\* The hook's path is appended, and nothing is chained to it yet.
LEMMA Configured ==
  ASSUME RouteInv, NEW path \in Paths \union {<<>>}, Configure(path), NEW k \in Nat,
         k = Len(uri_path)
  PROVE  /\ DOMAIN uri_path = 1 .. k /\ DOMAIN uri_path' = 1 .. k + 1 /\ Len(uri_path') = k + 1
         /\ uri_path' \in Seq(Paths \union {<<>>})
         /\ \A n \in 1 .. k : n \in 1 .. k + 1 /\ n # k + 1 /\ uri_path'[n] = uri_path[n]
         /\ \A n \in 1 .. k + 1 : n = k + 1 \/ n \in 1 .. k
         /\ uri_path'[k + 1] = path /\ k + 1 \in 1 .. k + 1 /\ New = k + 1
<1>1. uri_path \in Seq(Paths \union {<<>>})
      BY DEF RouteInv, HooksTyped
<1>2. uri_path' = Append(uri_path, path)
      BY DEF Configure
<1>3. /\ Append(uri_path, path) \in Seq(Paths \union {<<>>})
      /\ Len(Append(uri_path, path)) = k + 1
      /\ \A n \in 1 .. k : Append(uri_path, path)[n] = uri_path[n]
      /\ Append(uri_path, path)[k + 1] = path
      BY <1>1, AppendProperties
<1>4. DOMAIN uri_path = 1 .. k /\ DOMAIN uri_path' = 1 .. k + 1
      BY <1>1, <1>2, <1>3, LenProperties
<1>5. /\ \A n \in 1 .. k : n \in 1 .. k + 1 /\ n # k + 1
      /\ \A n \in 1 .. k + 1 : n = k + 1 \/ n \in 1 .. k
      /\ k + 1 \in 1 .. k + 1
      OBVIOUS
<1>6. QED  BY <1>2, <1>3, <1>4, <1>5 DEF New

LEMMA ZeroAppended ==
  ASSUME NEW k \in Nat, NEW c \in [1 .. k -> 0 .. k + 1]
  PROVE  /\ Append(c, 0) \in [1 .. k + 1 -> 0 .. k + 1]
         /\ \A n \in 1 .. k : Append(c, 0)[n] = c[n]
         /\ Append(c, 0)[k + 1] = 0
<1>1. c \in Seq(0 .. k + 1) /\ Len(c) = k /\ 0 \in 0 .. k + 1
      OBVIOUS
<1>2. /\ Append(c, 0) \in Seq(0 .. k + 1) /\ Len(Append(c, 0)) = k + 1
      /\ \A n \in 1 .. k : Append(c, 0)[n] = c[n]
      /\ Append(c, 0)[k + 1] = 0
      BY <1>1, AppendProperties
<1>3. QED  BY <1>2, LenProperties

\* The heads, one by one.
LEMMA HeadsAre ==
  ASSUME HooksTyped
  PROVE  /\ Len(heads) \in Nat /\ DOMAIN heads = 1 .. Len(heads)
         /\ \A h : h \in Heads <=> \E m \in 1 .. Len(heads) : h = heads[m]
         /\ \A h \in Heads : h \in DOMAIN uri_path
<1>1. heads \in Seq(DOMAIN uri_path)
      BY DEF HooksTyped
<1>2. Len(heads) \in Nat /\ DOMAIN heads = 1 .. Len(heads)
      BY <1>1, LenProperties
<1>3. \A m \in 1 .. Len(heads) : heads[m] \in DOMAIN uri_path
      BY <1>1, ElementOfSeq
<1>4. \A h : h \in Heads <=> \E m \in DOMAIN heads : h = heads[m]
      BY DEF Heads, ToSet
<1>5. QED  BY <1>2, <1>3, <1>4

LEMMA AddHandlerStep ==
  ASSUME RouteInv, NEW path \in Paths \union {<<>>}, AddHandler(path)
  PROVE  RouteInv'
<1>0. Configure(path) /\ path \in Paths /\ SamePath(path) = {}
      BY DEF AddHandler
<1>1. PICK k \in Nat : k = Len(uri_path)
      BY LenProperties DEF RouteInv, HooksTyped
<1>2. /\ DOMAIN uri_path = 1 .. k /\ DOMAIN uri_path' = 1 .. k + 1 /\ Len(uri_path') = k + 1
      /\ uri_path' \in Seq(Paths \union {<<>>})
      /\ \A n \in 1 .. k : n \in 1 .. k + 1 /\ n # k + 1 /\ uri_path'[n] = uri_path[n]
      /\ \A n \in 1 .. k + 1 : n = k + 1 \/ n \in 1 .. k
      /\ uri_path'[k + 1] = path /\ k + 1 \in 1 .. k + 1 /\ New = k + 1
      BY <1>0, <1>1, Configured
<1>3. PICK j \in Nat : j = Len(heads) /\ DOMAIN heads = 1 .. j
      BY HeadsAre DEF RouteInv
<1>4. /\ \A h : h \in Heads <=> \E m \in 1 .. j : h = heads[m]
      /\ \A h \in Heads : h \in 1 .. k
      /\ \A m \in 1 .. j : heads[m] \in 1 .. k
      BY <1>2, <1>3, HeadsAre DEF RouteInv
<1>5. /\ heads' \in Seq(1 .. k + 1) /\ Len(heads') = j + 1 /\ DOMAIN heads' = 1 .. j + 1
      /\ \A m \in 1 .. j : heads'[m] = heads[m] /\ m \in 1 .. j + 1
      /\ \A m \in 1 .. j + 1 : m \in 1 .. j \/ m = j + 1
      /\ heads'[j + 1] = k + 1
  <2>1. heads' = Append(heads, k + 1)
        BY <1>2 DEF AddHandler
  <2>2. heads \in Seq(1 .. k + 1)
    <3>1. heads \in Seq(1 .. k)
          BY <1>2 DEF RouteInv, HooksTyped
    <3>2. QED  BY <1>2, <3>1
  <2>3. /\ Append(heads, k + 1) \in Seq(1 .. k + 1) /\ Len(Append(heads, k + 1)) = j + 1
        /\ \A m \in 1 .. j : Append(heads, k + 1)[m] = heads[m]
        /\ Append(heads, k + 1)[j + 1] = k + 1
        BY <1>2, <1>3, <2>2, AppendProperties
  <2>4. DOMAIN heads' = 1 .. j + 1
        BY <2>1, <2>3, LenProperties
  <2>5. /\ \A m \in 1 .. j : m \in 1 .. j + 1
        /\ \A m \in 1 .. j + 1 : m \in 1 .. j \/ m = j + 1
        OBVIOUS
  <2>6. QED  BY <2>1, <2>3, <2>4, <2>5
<1>6. \A h : h \in Heads' <=> h = k + 1 \/ h \in Heads
  <2>1. \A h : h \in Heads' <=> \E m \in DOMAIN heads' : h = heads'[m]
        BY DEF Heads, ToSet
  <2>2. j + 1 \in 1 .. j + 1
        OBVIOUS
  <2>3. QED  BY <1>4, <1>5, <2>1, <2>2
<1>7. /\ mChain \in [1 .. k -> 0 .. k]
      /\ mChain' \in [1 .. k + 1 -> 0 .. k + 1]
      /\ \A n \in 1 .. k : mChain'[n] = mChain[n]
      /\ mChain'[k + 1] = 0
  <2>1. mChain \in [1 .. k -> 0 .. k] /\ mChain' = Append(mChain, 0)
        BY <1>1, <1>2 DEF RouteInv, HooksTyped, AddHandler
  <2>2. mChain \in [1 .. k -> 0 .. k + 1]
        BY <2>1
  <2>3. QED  BY <2>1, <2>2, ZeroAppended
<1>8. Trimmed(path) \in Paths /\ Trimmed(path) \notin DOMAIN handlers
      BY <1>0, TrimmedPath DEF AddHandler
<1>9. /\ \A p : p \in DOMAIN handlers' <=> p \in DOMAIN handlers \/ p = Trimmed(path)
      /\ \A p \in DOMAIN handlers : handlers'[p] = handlers[p]
      /\ handlers'[Trimmed(path)] = k + 1
      BY <1>2, <1>8 DEF AddHandler
<1>10. HooksTyped'
       BY <1>2, <1>5, <1>7 DEF HooksTyped
<1>11. HeadsDiffer'
  <2>1. ASSUME NEW h \in Heads' PROVE uri_path'[h] \in Paths
        BY <1>0, <1>2, <1>4, <1>6, <2>1 DEF RouteInv, HeadsDiffer
  <2>2. \A m \in 1 .. j : uri_path[heads[m]] # path
        BY <1>0, <1>3 DEF SamePath
  <2>3. \A m \in 1 .. j : uri_path'[heads'[m]] = uri_path[heads[m]]
        BY <1>2, <1>4, <1>5
  <2>4. uri_path'[heads'[j + 1]] = path
        BY <1>2, <1>5
  <2>5. \A m, n \in 1 .. j : uri_path[heads[m]] = uri_path[heads[n]] => m = n
        BY <1>3 DEF RouteInv, HeadsDiffer
  <2>6. \A m, n \in 1 .. j + 1 : uri_path'[heads'[m]] = uri_path'[heads'[n]] => m = n
        BY <1>5, <2>2, <2>3, <2>4, <2>5
  <2>7. QED  BY <1>5, <2>1, <2>6 DEF HeadsDiffer
<1>12. ChainsOfTwo'
  <2>1. SUFFICES ASSUME NEW h \in 1 .. k + 1, mChain'[h] # 0
                 PROVE  /\ h \in Heads' /\ mChain'[h] \notin Heads'
                        /\ mChain'[h] > h /\ uri_path'[mChain'[h]] = uri_path'[h]
        BY <1>2 DEF ChainsOfTwo
  <2>2. h \in 1 .. k /\ mChain'[h] = mChain[h]
        BY <1>2, <1>7, <2>1
  <2>3. mChain[h] \in 1 .. k /\ mChain[h] # k + 1
        BY <1>7, <2>1, <2>2
  <2>4. /\ h \in Heads /\ mChain[h] \notin Heads
        /\ mChain[h] > h /\ uri_path[mChain[h]] = uri_path[h]
        BY <1>2, <2>1, <2>2 DEF RouteInv, ChainsOfTwo
  <2>5. QED  BY <1>2, <1>6, <2>2, <2>3, <2>4
<1>13. AllChained'
  <2>1. SUFFICES ASSUME Asserts, NEW n \in 1 .. k + 1
                 PROVE  \E h \in Heads' : n = h \/ mChain'[h] = n
        BY <1>2 DEF AllChained
  <2>2. CASE n = k + 1
        BY <1>6, <2>2
  <2>3. CASE n \in 1 .. k
    <3>1. PICK h \in Heads : n = h \/ mChain[h] = n
          BY <1>2, <2>1, <2>3 DEF RouteInv, AllChained, AddHandler, Configure
    <3>2. QED  BY <1>4, <1>6, <1>7, <3>1
  <2>4. QED  BY <1>2, <2>2, <2>3
<1>14. HandlersOfHeads'
  <2>1. DOMAIN handlers' \subseteq Paths
        BY <1>8, <1>9 DEF RouteInv, HandlersOfHeads
  <2>2. \A p \in DOMAIN handlers' : handlers'[p] \in 0 .. k + 1
    <3>1. \A p \in DOMAIN handlers : handlers[p] \in 0 .. k
          BY <1>1 DEF RouteInv, HandlersOfHeads
    <3>2. QED  BY <1>9, <3>1
  <2>3. ASSUME NEW h \in Heads'
        PROVE  Trimmed(uri_path'[h]) \in DOMAIN handlers' /\ handlers'[Trimmed(uri_path'[h])] = h
    <3>1. CASE h = k + 1
          BY <1>2, <1>9, <3>1
    <3>2. CASE h \in Heads
      <4>1. Trimmed(uri_path[h]) \in DOMAIN handlers /\ handlers[Trimmed(uri_path[h])] = h
            BY <3>2 DEF RouteInv, HandlersOfHeads
      <4>2. QED  BY <1>2, <1>4, <1>9, <3>2, <4>1
    <3>3. QED  BY <1>6, <3>1, <3>2
  <2>4. ASSUME NEW p \in DOMAIN handlers', p # StatusPath
        PROVE  \E h \in Heads' : p = Trimmed(uri_path'[h])
    <3>1. CASE p = Trimmed(path)
          BY <1>2, <1>6, <3>1
    <3>2. CASE p \in DOMAIN handlers
      <4>1. PICK h \in Heads : p = Trimmed(uri_path[h])
            BY <2>4, <3>2 DEF RouteInv, HandlersOfHeads
      <4>2. uri_path'[h] = uri_path[h] /\ h \in Heads'
            BY <1>2, <1>4, <1>6, <4>1
      <4>3. QED  BY <4>1, <4>2
    <3>3. QED  BY <1>9, <3>1, <3>2
  <2>5. QED  BY <1>2, <2>1, <2>2, <2>3, <2>4 DEF HandlersOfHeads
<1>15. QED  BY <1>10, <1>11, <1>12, <1>13, <1>14 DEF RouteInv
\* A pass that adds no head leaves the heads and the handlers fitting each other.
LEMMA HandlersStay ==
  ASSUME RouteInv, NEW k \in Nat, k = Len(uri_path), Len(uri_path') = k + 1,
         heads' = heads, handlers' = handlers,
         \A h \in Heads : h \in 1 .. k,
         \A n \in 1 .. k : uri_path'[n] = uri_path[n]
  PROVE  HeadsDiffer' /\ HandlersOfHeads'
<1>1. Heads' = Heads /\ \A h \in Heads : uri_path'[h] = uri_path[h]
      BY DEF Heads
<1>2. \A m \in DOMAIN heads : uri_path'[heads[m]] = uri_path[heads[m]]
      BY <1>1 DEF Heads, ToSet
<1>3. HeadsDiffer'
  <2>1. \A h \in Heads : uri_path'[h] \in Paths
        BY <1>1 DEF RouteInv, HeadsDiffer
  <2>2. \A m, n \in DOMAIN heads : uri_path'[heads[m]] = uri_path'[heads[n]] => m = n
        BY <1>2 DEF RouteInv, HeadsDiffer
  <2>3. QED  BY <1>1, <2>1, <2>2 DEF HeadsDiffer
<1>4. HandlersOfHeads'
  <2>1. \A p \in DOMAIN handlers : handlers[p] \in 0 .. k + 1
    <3>1. \A p \in DOMAIN handlers : handlers[p] \in 0 .. k
          BY DEF RouteInv, HandlersOfHeads
    <3>2. QED  BY <3>1
  <2>2. \A h \in Heads :
          Trimmed(uri_path'[h]) \in DOMAIN handlers /\ handlers[Trimmed(uri_path'[h])] = h
        BY <1>1 DEF RouteInv, HandlersOfHeads
  <2>3. \A p \in DOMAIN handlers : p = StatusPath \/ \E h \in Heads : p = Trimmed(uri_path'[h])
        BY <1>1 DEF RouteInv, HandlersOfHeads
  <2>4. DOMAIN handlers \subseteq Paths
        BY DEF RouteInv, HandlersOfHeads
  <2>5. QED  BY <1>1, <2>1, <2>2, <2>3, <2>4 DEF HandlersOfHeads
<1>5. QED  BY <1>3, <1>4

\* A pass that ends the program chains nothing.
LEMMA NothingChained ==
  ASSUME RouteInv, NEW path \in Paths \union {<<>>}, Configure(path),
         heads' = heads, handlers' = handlers, mChain' = Append(mChain, 0),
         startup' # "loading"
  PROVE  RouteInv'
<1>1. PICK k \in Nat : k = Len(uri_path)
      BY LenProperties DEF RouteInv, HooksTyped
<1>2. /\ DOMAIN uri_path = 1 .. k /\ DOMAIN uri_path' = 1 .. k + 1 /\ Len(uri_path') = k + 1
      /\ uri_path' \in Seq(Paths \union {<<>>})
      /\ \A n \in 1 .. k : n \in 1 .. k + 1 /\ n # k + 1 /\ uri_path'[n] = uri_path[n]
      /\ \A n \in 1 .. k + 1 : n = k + 1 \/ n \in 1 .. k
      /\ uri_path'[k + 1] = path /\ k + 1 \in 1 .. k + 1 /\ New = k + 1
      BY <1>1, Configured
<1>3. \A h \in Heads : h \in 1 .. k
      BY <1>2, HeadsAre DEF RouteInv
<1>4. /\ mChain \in [1 .. k -> 0 .. k]
      /\ mChain' \in [1 .. k + 1 -> 0 .. k + 1]
      /\ \A n \in 1 .. k : mChain'[n] = mChain[n]
      /\ mChain'[k + 1] = 0
  <2>1. mChain \in [1 .. k -> 0 .. k]
        BY <1>1, <1>2 DEF RouteInv, HooksTyped
  <2>2. mChain \in [1 .. k -> 0 .. k + 1]
        BY <2>1
  <2>3. QED  BY <2>1, <2>2, ZeroAppended
<1>5. HeadsDiffer' /\ HandlersOfHeads'
      BY <1>1, <1>2, <1>3, HandlersStay
<1>6. HooksTyped'
  <2>1. heads' \in Seq(1 .. k + 1)
    <3>1. heads \in Seq(1 .. k)
          BY <1>2 DEF RouteInv, HooksTyped
    <3>2. QED  BY <1>2, <3>1
  <2>2. QED  BY <1>2, <1>4, <2>1 DEF HooksTyped
<1>7. ChainsOfTwo'
  <2>1. Heads' = Heads
        BY DEF Heads
  <2>2. SUFFICES ASSUME NEW h \in 1 .. k + 1, mChain'[h] # 0
                 PROVE  /\ h \in Heads /\ mChain'[h] \notin Heads
                        /\ mChain'[h] > h /\ uri_path'[mChain'[h]] = uri_path'[h]
        BY <1>2, <2>1 DEF ChainsOfTwo
  <2>3. h \in 1 .. k /\ mChain'[h] = mChain[h]
        BY <1>2, <1>4, <2>2
  <2>4. mChain[h] \in 1 .. k
        BY <1>4, <2>2, <2>3
  <2>5. /\ h \in Heads /\ mChain[h] \notin Heads
        /\ mChain[h] > h /\ uri_path[mChain[h]] = uri_path[h]
        BY <1>2, <2>2, <2>3 DEF RouteInv, ChainsOfTwo
  <2>6. QED  BY <1>2, <2>3, <2>4, <2>5
<1>8. AllChained'
      BY DEF AllChained
<1>9. QED  BY <1>5, <1>6, <1>7, <1>8 DEF RouteInv
\* When the program does not start, no handler and no head is added.
LEMMA AddHandlerThrowsStep ==
  ASSUME RouteInv, NEW path \in Paths \union {<<>>}, AddHandlerThrows(path)
  PROVE  RouteInv'
<1>0. /\ Configure(path) /\ heads' = heads /\ handlers' = handlers
      /\ mChain' = Append(mChain, 0) /\ startup' # "loading"
      BY DEF AddHandlerThrows
<1>1. QED  BY <1>0, NothingChained

LEMMA ChainHookStep ==
  ASSUME RouteInv, NEW path \in Paths \union {<<>>}, ChainHook(path)
  PROVE  RouteInv'
<1>0. Configure(path) /\ heads' = heads /\ handlers' = handlers /\ SamePath(path) # {}
      BY DEF ChainHook
<1>1. PICK k \in Nat : k = Len(uri_path)
      BY LenProperties DEF RouteInv, HooksTyped
<1>2. /\ DOMAIN uri_path = 1 .. k /\ DOMAIN uri_path' = 1 .. k + 1 /\ Len(uri_path') = k + 1
      /\ uri_path' \in Seq(Paths \union {<<>>})
      /\ \A n \in 1 .. k : n \in 1 .. k + 1 /\ n # k + 1 /\ uri_path'[n] = uri_path[n]
      /\ \A n \in 1 .. k + 1 : n = k + 1 \/ n \in 1 .. k
      /\ uri_path'[k + 1] = path /\ k + 1 \in 1 .. k + 1 /\ New = k + 1
      BY <1>0, <1>1, Configured
<1>3. PICK i \in DOMAIN heads : SamePath(path) = {i} /\ uri_path[heads[i]] = path
  <2>1. PICK i \in DOMAIN heads : uri_path[heads[i]] = path
        BY <1>0 DEF SamePath
  <2>2. SamePath(path) = {i}
        BY <2>1 DEF SamePath, RouteInv, HeadsDiffer
  <2>3. QED  BY <2>1, <2>2
<1>4. PICK same : same = heads[i]
      OBVIOUS
<1>5. heads[CHOOSE n \in SamePath(path) : \A m \in SamePath(path) : m <= n] = same
  <2>1. i \in Nat /\ i <= i
        BY <1>3, HeadsAre DEF RouteInv
  <2>2. (CHOOSE n \in {i} : \A m \in {i} : m <= n) = i
        BY <2>1
  <2>3. QED  BY <1>3, <1>4, <2>2
<1>6. /\ same \in Heads /\ same \in 1 .. k /\ uri_path[same] = path
      /\ \A h \in Heads : h \in 1 .. k
      BY <1>2, <1>3, <1>4, HeadsAre DEF RouteInv, Heads, ToSet
<1>7. \A h \in Heads : uri_path[h] = path => h = same
  <2>1. \A h \in Heads : \E m \in DOMAIN heads : h = heads[m]
        BY DEF Heads, ToSet
  <2>2. QED  BY <1>3, <1>4, <2>1 DEF RouteInv, HeadsDiffer
<1>8. CASE Asserts /\ mChain[same] # 0
  <2>1. startup' # "loading" /\ mChain' = Append(mChain, 0)
        BY <1>5, <1>8 DEF ChainHook
  <2>2. QED  BY <1>0, <2>1, NothingChained
<1>9. CASE ~(Asserts /\ mChain[same] # 0)
  <2>1. mChain' = Append([mChain EXCEPT ![same] = k + 1], 0) /\ startup' = startup
        BY <1>2, <1>5, <1>9 DEF ChainHook
  <2>2. mChain \in [1 .. k -> 0 .. k]
        BY <1>1, <1>2 DEF RouteInv, HooksTyped
  <2>3. PICK c \in [1 .. k -> 0 .. k + 1] :
             c = [mChain EXCEPT ![same] = k + 1]
    <3>1. \A n \in 1 .. k : mChain[n] \in 0 .. k + 1
          BY <2>2
    <3>2. k + 1 \in 0 .. k + 1
          OBVIOUS
    <3>3. [mChain EXCEPT ![same] = k + 1] \in [1 .. k -> 0 .. k + 1]
          BY <2>2, <3>1, <3>2
    <3>4. QED  BY <3>3
  <2>4. c[same] = k + 1 /\ \A n \in 1 .. k : n # same => c[n] = mChain[n]
        BY <1>6, <2>2, <2>3
  <2>5. /\ mChain' \in [1 .. k + 1 -> 0 .. k + 1]
        /\ \A n \in 1 .. k : mChain'[n] = c[n]
        /\ mChain'[k + 1] = 0
        BY <2>1, <2>3, ZeroAppended
  <2>6. Heads' = Heads
        BY <1>0 DEF Heads
  <2>7. HooksTyped'
    <3>1. heads' \in Seq(1 .. k + 1)
      <4>1. heads \in Seq(1 .. k)
            BY <1>2 DEF RouteInv, HooksTyped
      <4>2. QED  BY <1>0, <1>2, <4>1
    <3>2. QED  BY <1>2, <2>5, <3>1 DEF HooksTyped
  <2>8. HeadsDiffer' /\ HandlersOfHeads'
        BY <1>0, <1>1, <1>2, <1>6, HandlersStay
  <2>9. ChainsOfTwo'
    <3>1. SUFFICES ASSUME NEW h \in 1 .. k + 1, mChain'[h] # 0
                   PROVE  /\ h \in Heads /\ mChain'[h] \notin Heads
                          /\ mChain'[h] > h /\ uri_path'[mChain'[h]] = uri_path'[h]
          BY <1>2, <2>6 DEF ChainsOfTwo
    <3>2. h \in 1 .. k
          BY <1>2, <2>5, <3>1
    <3>3. CASE h = same
      <4>1. mChain'[h] = k + 1 /\ k + 1 > h /\ k + 1 \notin Heads
            BY <1>2, <1>6, <2>4, <2>5, <3>2, <3>3
      <4>2. QED  BY <1>2, <1>6, <3>3, <4>1
    <3>4. CASE h # same
      <4>1. mChain'[h] = mChain[h] /\ mChain[h] # 0
            BY <2>4, <2>5, <3>1, <3>2, <3>4
      <4>2. mChain[h] \in 1 .. k
            BY <2>2, <3>2, <4>1
      <4>3. /\ h \in Heads /\ mChain[h] \notin Heads
            /\ mChain[h] > h /\ uri_path[mChain[h]] = uri_path[h]
            BY <1>2, <3>2, <4>1 DEF RouteInv, ChainsOfTwo
      <4>4. QED  BY <1>2, <3>2, <4>1, <4>2, <4>3
    <3>5. QED  BY <3>3, <3>4
  <2>10. AllChained'
    <3>1. SUFFICES ASSUME Asserts, NEW n \in 1 .. k + 1
                   PROVE  \E h \in Heads : n = h \/ mChain'[h] = n
          BY <1>2, <2>6 DEF AllChained
    <3>2. mChain[same] = 0
          BY <1>9, <3>1
    <3>3. CASE n = k + 1
          BY <1>6, <2>4, <2>5, <3>3
    <3>4. CASE n \in 1 .. k
      <4>1. PICK h \in Heads : n = h \/ mChain[h] = n
            BY <1>0, <1>2, <3>1, <3>4 DEF RouteInv, AllChained, Configure
      <4>2. CASE n = h
            BY <4>2
      <4>3. CASE mChain[h] = n /\ h # same
            BY <1>6, <2>4, <2>5, <4>3
      <4>4. CASE mChain[h] = n /\ h = same
            BY <3>2, <3>4, <4>4
      <4>5. QED  BY <4>1, <4>2, <4>3, <4>4
    <3>5. QED  BY <1>2, <3>3, <3>4
  <2>11. QED  BY <2>7, <2>8, <2>9, <2>10 DEF RouteInv
<1>10. QED  BY <1>8, <1>9

LEMMA RouteStep ==
  ASSUME RouteInv, NEW path \in Paths \union {<<>>},
         AddHandler(path) \/ AddHandlerThrows(path) \/ ChainHook(path)
  PROVE  RouteInv'
BY AddHandlerStep, AddHandlerThrowsStep, ChainHookStep

\* While there are no more hooks and no more handlers.
LEMMA RouteStays ==
  ASSUME RouteInv, UNCHANGED <<uri_path, heads, mChain, handlers>>,
         startup' = "loading" => startup = "loading"
  PROVE  RouteInv'
<1>1. Heads' = Heads
      BY DEF Heads
<1>2. HooksTyped' /\ HeadsDiffer' /\ ChainsOfTwo'
      BY <1>1 DEF RouteInv, HooksTyped, HeadsDiffer, ChainsOfTwo
<1>3. AllChained' /\ HandlersOfHeads'
      BY <1>1 DEF RouteInv, AllChained, HandlersOfHeads
<1>4. QED  BY <1>2, <1>3 DEF RouteInv

-----------------------------------------------------------------------------
(* Every hook is found that is not outdone *)

\* The handler for the path of a head is the one that was added for it.
LEMMA HeadFound ==
  ASSUME RouteInv, NEW h \in Heads, Append(uri_path[h], Empty) \notin ToSet(uri_path)
  PROVE  FindHandler(uri_path[h]) # <<>> /\ handlers[FindHandler(uri_path[h])] = h
<1>0. h \in DOMAIN uri_path
      BY HeadsAre DEF RouteInv
<1>  DEFINE path == uri_path[h]
            trim == Trimmed(path)
<1>1. path \in Paths
      BY DEF RouteInv, HeadsDiffer
<1>2. trim \in DOMAIN handlers /\ handlers[trim] = h /\ DOMAIN handlers \subseteq Paths
      BY DEF RouteInv, HandlersOfHeads
<1>3. PICK k \in Nat : k = Len(path) /\ k >= 1
      BY <1>1, PathFacts
<1>4. SubSeq(path, 1, k) = path
      BY <1>1, <1>3, PathFacts, SubSeqFull
<1>5. \A n \in 1 .. k : SubSeq(path, 1, n) # <<>>
  <2>1. \A n \in 1 .. k : Len(SubSeq(path, 1, n)) = n
        BY <1>1, <1>3, PathFacts, Beginning
  <2>2. Len(<<>>) = 0 /\ 0 \notin 1 .. k
        OBVIOUS
  <2>  HIDE DEF path
  <2>3. QED  BY <2>1, <2>2, Zenon
<1>6. SUFFICES \E n \in 1 .. k :
                 /\ SubSeq(path, 1, n) = trim
                 /\ \A l \in n + 1 .. k : SubSeq(path, 1, l) \notin DOMAIN handlers
  <2>  HIDE DEF path, trim
  <2>1. PICK n \in 1 .. k :
                 /\ SubSeq(path, 1, n) = trim
                 /\ \A l \in n + 1 .. k : SubSeq(path, 1, l) \notin DOMAIN handlers
        BY <1>6
  <2>2. PICK m \in 1 .. k :
                 /\ SubSeq(path, 1, m) \in DOMAIN handlers
                 /\ FindHandler(path) = SubSeq(path, 1, m)
                 /\ \A l \in 1 .. k : SubSeq(path, 1, l) \in DOMAIN handlers => l <= m
        BY <1>1, <1>2, <1>3, <2>1, FindHandlerFinds
  <2>3. m = n
    <3>1. n <= m
          BY <1>2, <2>1, <2>2
    <3>2. m \notin n + 1 .. k
          BY <2>1, <2>2
    <3>3. QED  BY <3>1, <3>2
  <2>4. FindHandler(path) = trim /\ trim # <<>> /\ handlers[trim] = h
        BY <1>2, <1>5, <2>1, <2>2, <2>3
  <2>5. QED  BY <2>4 DEF path
<1>7. CASE trim = path
  <2>1. k \in 1 .. k /\ \A l \in k + 1 .. k : FALSE
        BY <1>3
  <2>2. QED  BY <1>4, <1>7, <2>1
<1>8. CASE k > 1 /\ trim = SubSeq(path, 1, k - 1) /\ path = Append(trim, Empty)
  <2>1. path \notin DOMAIN handlers
    <3>1. ASSUME path \in DOMAIN handlers PROVE FALSE
      <4>1. path # StatusPath
        <5>1. Len(StatusPath) = 1
              BY DEF StatusPath
        <5>2. QED  BY <1>3, <1>8, <5>1
      <4>2. PICK g \in Heads : path = Trimmed(uri_path[g])
            BY <3>1, <4>1 DEF RouteInv, HandlersOfHeads
      <4>3. uri_path[g] \in Paths /\ uri_path[g] \in ToSet(uri_path)
        <5>1. g \in DOMAIN uri_path
              BY HeadsAre DEF RouteInv
        <5>2. uri_path[g] \in ToSet(uri_path)
              BY <5>1 DEF ToSet
        <5>3. QED  BY <5>2 DEF RouteInv, HeadsDiffer
      <4>4. Trimmed(uri_path[g]) = uri_path[g] \/ uri_path[g] = Append(path, Empty)
            BY <4>2, <4>3, TrimmedPath
      <4>5. Trimmed(uri_path[g]) = uri_path[g]
            BY <4>3, <4>4
      <4>6. handlers[path] = g
            BY <4>2 DEF RouteInv, HandlersOfHeads
      <4>7. g = h
        <5>1. uri_path[g] = uri_path[h]
              BY <4>2, <4>5
        <5>2. QED  BY <5>1 DEF RouteInv, HeadsDiffer, Heads, ToSet
      <4>8. trim = path
            BY <4>5, <4>7
      <4>9. Len(trim) = k - 1
        <5>1. k - 1 \in 1 .. k
              BY <1>8
        <5>2. QED  BY <1>1, <1>3, <1>8, <5>1, PathFacts, Beginning
      <4>10. QED  BY <1>3, <4>8, <4>9
    <3>2. QED  BY <3>1
  <2>2. k - 1 \in 1 .. k /\ \A l \in k - 1 + 1 .. k : l = k
        BY <1>8
  <2>3. QED  BY <1>4, <1>8, <2>1, <2>2
<1>9. QED  BY <1>1, <1>3, <1>7, <1>8, TrimmedPath

LEMMA Reachable ==
  ASSUME RouteInv, Asserts
  PROVE  EveryHookReachable
<1>1. SUFFICES ASSUME startup = "loading", NEW n \in DOMAIN uri_path, ~Outdone(n)
               PROVE  /\ FindHandler(uri_path[n]) # <<>>
                      /\ Contains(ChainFor(n), n)
                      /\ \A k \in DOMAIN ChainFor(n) : uri_path[ChainFor(n)[k]] = uri_path[n]
                      /\ \A k, l \in DOMAIN ChainFor(n) :
                           k < l => ChainFor(n)[k] < ChainFor(n)[l]
      BY DEF EveryHookReachable
<1>2. PICK h \in Heads : n = h \/ mChain[h] = n
      BY <1>1 DEF RouteInv, AllChained
<1>3. h \in DOMAIN uri_path /\ DOMAIN uri_path \subseteq Nat \ {0}
  <2>1. h \in DOMAIN uri_path
        BY HeadsAre DEF RouteInv
  <2>2. uri_path \in Seq(Paths \union {<<>>})
        BY DEF RouteInv, HooksTyped
  <2>3. DOMAIN uri_path = 1 .. Len(uri_path) /\ Len(uri_path) \in Nat
        BY <2>2, LenProperties
  <2>4. QED  BY <2>1, <2>3
<1>4. mChain[h] # 0 => mChain[h] > h /\ uri_path[mChain[h]] = uri_path[h]
      BY <1>3 DEF RouteInv, ChainsOfTwo
<1>5. n # 0 /\ uri_path[n] = uri_path[h] /\ (n # h => mChain[h] = n)
      BY <1>1, <1>2, <1>3, <1>4
<1>6. FindHandler(uri_path[n]) # <<>> /\ handlers[FindHandler(uri_path[n])] = h
      BY <1>1, <1>5, HeadFound DEF Outdone
<1>7. ChainFor(n) = IF mChain[h] = 0 THEN <<h>> ELSE <<h, mChain[h]>>
      BY <1>3, <1>6, ChainIs DEF ChainFor, RouteInv
<1>8. CASE mChain[h] = 0
  <2>1. n = h
        BY <1>5, <1>8
  <2>2. PICK c : c = ChainFor(n) /\ c = <<h>>
        BY <1>7, <1>8
  <2>3. DOMAIN c = {1} /\ c[1] = h
        BY <2>2
  <2>4. Contains(c, n)
        BY <2>1, <2>3 DEF Contains
  <2>5. QED  BY <1>5, <1>6, <2>2, <2>3, <2>4
<1>9. CASE mChain[h] # 0
  <2>1. PICK c, m : c = ChainFor(n) /\ m = mChain[h] /\ c = <<h, m>>
        BY <1>7, <1>9
  <2>2. DOMAIN c = {1, 2} /\ c[1] = h /\ c[2] = m
        BY <2>1
  <2>3. Contains(c, n)
        BY <1>5, <2>1, <2>2 DEF Contains
  <2>4. m > h /\ uri_path[m] = uri_path[n]
        BY <1>4, <1>5, <1>9, <2>1
  <2>5. \A i \in DOMAIN c : uri_path[c[i]] = uri_path[n]
        BY <1>5, <2>2, <2>4
  <2>6. \A i, l \in DOMAIN c : i < l => c[i] < c[l]
    <3>1. \A i, l \in {1, 2} : i < l => i = 1 /\ l = 2
          OBVIOUS
    <3>2. h < m
      <4>1. mChain[h] \in Nat
            BY <1>3, <1>9, <2>1 DEF RouteInv, HooksTyped
      <4>2. QED  BY <1>3, <2>1, <2>4, <4>1
    <3>3. QED  BY <2>2, <3>1, <3>2
  <2>7. QED  BY <1>6, <2>1, <2>3, <2>5, <2>6
<1>10. QED  BY <1>8, <1>9
=============================================================================
