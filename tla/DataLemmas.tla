----------------------------- MODULE DataLemmas -----------------------------
(***************************************************************************)
(* Facts about numbers and sequences that the proofs about several modules *)
(* need.  Induction is stated for a set of numbers instead of a predicate: *)
(* to show that all numbers have a property, take the set of those that    *)
(* have not; if it has an element, it has a least one.                     *)
(***************************************************************************)
EXTENDS Naturals, Sequences, WellFoundedInduction, SequenceTheorems, TLAPS

LEMMA LeastElement ==
  ASSUME NEW T \in SUBSET Nat, T # {}
  PROVE  \E n \in T : \A m \in T : n <= m
<1>1. PICK n \in T : \A m \in T : ~(<<m, n>> \in OpToRel(<, Nat))
      BY NatLessThanWellFounded, WFMin, Zenon
<1>2. \A m \in T : ~(m < n)
      BY <1>1, Zenon DEF OpToRel
<1>3. QED  BY <1>2

\* What holds of 0, and of n + 1 whenever it holds of n, holds of all up to a bound.
LEMMA Induction ==
  ASSUME NEW bound \in Nat, NEW Good, 0 \in Good,
         \A n \in 0 .. bound - 1 : n \in Good => n + 1 \in Good
  PROVE  \A n \in 0 .. bound : n \in Good
<1>   DEFINE Bad == {n \in 0 .. bound : n \notin Good}
<1>1. SUFFICES ASSUME Bad # {} PROVE FALSE
      OBVIOUS
<1>2. PICK n \in Bad : \A m \in Bad : n <= m
  <2>1. Bad \in SUBSET Nat
        OBVIOUS
  <2>2. QED  BY <1>1, <2>1, LeastElement
<1>3. n # 0 /\ n \in 1 .. bound
      OBVIOUS
<1>4. n - 1 \in 0 .. bound - 1 /\ n - 1 \notin Bad
      BY <1>2, <1>3
<1>5. QED  BY <1>3, <1>4

-----------------------------------------------------------------------------
\* What is left of a sequence after its first n elements.
LEMMA RestOfSeq ==
  ASSUME NEW S, NEW s \in Seq(S), NEW n \in 0 .. Len(s)
  PROVE  /\ SubSeq(s, n + 1, Len(s)) \in Seq(S)
         /\ Len(SubSeq(s, n + 1, Len(s))) = Len(s) - n
         /\ \A i \in 1 .. Len(s) - n : SubSeq(s, n + 1, Len(s))[i] = s[n + i]
<1>1. PICK k \in Nat : k = Len(s)
      OBVIOUS
<1>2. \A i \in n + 1 .. k : s[i] \in S
      BY <1>1
<1>3. /\ SubSeq(s, n + 1, k) \in Seq(S)
      /\ Len(SubSeq(s, n + 1, k)) = IF n + 1 <= k THEN k - (n + 1) + 1 ELSE 0
      /\ \A i \in 1 .. k - (n + 1) + 1 : SubSeq(s, n + 1, k)[i] = s[n + 1 + i - 1]
      BY <1>1, <1>2, SubSeqProperties
<1>4. /\ (IF n + 1 <= k THEN k - (n + 1) + 1 ELSE 0) = k - n
      /\ 1 .. k - (n + 1) + 1 = 1 .. k - n
      /\ \A i \in 1 .. k - n : n + 1 + i - 1 = n + i
      BY <1>1
<1>5. QED  BY <1>1, <1>3, <1>4

\* An element appended to a sequence is appended to what is left of it.
LEMMA AppendToRest ==
  ASSUME NEW S, NEW s \in Seq(S), NEW e \in S, NEW n \in 0 .. Len(s)
  PROVE  SubSeq(Append(s, e), n + 1, Len(s) + 1) = Append(SubSeq(s, n + 1, Len(s)), e)
<1>  DEFINE rest == SubSeq(s, n + 1, Len(s))
            more == SubSeq(Append(s, e), n + 1, Len(Append(s, e)))
<1>1. PICK k \in Nat : k = Len(s) - n /\ Len(s) \in Nat /\ Len(s) = n + k
      OBVIOUS
<1>2. /\ Append(s, e) \in Seq(S) /\ Len(Append(s, e)) = Len(s) + 1
      /\ \A i \in 1 .. Len(s) : Append(s, e)[i] = s[i]
      /\ Append(s, e)[Len(s) + 1] = e
      BY AppendProperties
<1>3. /\ more \in Seq(S) /\ Len(more) = k + 1
      /\ \A i \in 1 .. k + 1 : more[i] = Append(s, e)[n + i]
  <2>1. n \in 0 .. Len(Append(s, e)) /\ Len(Append(s, e)) - n = k + 1
        BY <1>1, <1>2
  <2>2. QED  BY <1>2, <2>1, RestOfSeq
<1>4. /\ rest \in Seq(S) /\ Len(rest) = k
      /\ \A i \in 1 .. k : rest[i] = s[n + i]
      BY <1>1, RestOfSeq
<1>5. /\ Append(rest, e) \in Seq(S) /\ Len(Append(rest, e)) = k + 1
      /\ \A i \in 1 .. k : Append(rest, e)[i] = rest[i]
      /\ Append(rest, e)[k + 1] = e
      BY <1>4, AppendProperties
<1>6. ASSUME NEW i \in 1 .. k + 1 PROVE more[i] = Append(rest, e)[i]
  <2>1. CASE i = k + 1
    <3>1. n + i = Len(s) + 1
          BY <1>1, <2>1
    <3>2. QED  BY <1>2, <1>3, <1>5, <2>1, <3>1
  <2>2. CASE i \in 1 .. k
    <3>1. n + i \in 1 .. Len(s)
          BY <1>1, <2>2
    <3>2. QED  BY <1>2, <1>3, <1>4, <1>5, <2>2, <3>1
  <2>3. QED  BY <1>1, <2>1, <2>2
<1> HIDE DEF rest, more
<1>7. more = Append(rest, e)
      BY <1>3, <1>5, <1>6, SeqEqual
<1>8. QED  BY <1>2, <1>7 DEF rest, more

\* <<a>> \o <<b>> is <<a, b>>.
LEMMA PairOfSingles ==
  ASSUME NEW a, NEW b
  PROVE  <<a>> \o <<b>> = <<a, b>>
<1>  DEFINE S == {a, b}
            s == <<a>>
            t == <<b>>
            u == <<a, b>>
<1>1. /\ s \in Seq(S) /\ Len(s) = 1 /\ s[1] = a
      /\ t \in Seq(S) /\ Len(t) = 1 /\ t[1] = b
      /\ u \in Seq(S) /\ Len(u) = 2 /\ u[1] = a /\ u[2] = b
      OBVIOUS
<1>  HIDE DEF S, s, t, u
<1>2. /\ s \o t \in Seq(S) /\ Len(s \o t) = 2
      /\ (s \o t)[1] = a /\ (s \o t)[2] = b
  <2>1. /\ s \o t \in Seq(S) /\ Len(s \o t) = Len(s) + Len(t)
        /\ \A i \in 1 .. Len(s) + Len(t) :
             (s \o t)[i] = IF i <= Len(s) THEN s[i] ELSE t[i - Len(s)]
        BY <1>1, ConcatProperties
  <2>2. QED  BY <1>1, <2>1
<1>3. \A i \in 1 .. 2 : i = 1 \/ i = 2
      OBVIOUS
<1>4. s \o t = u
  <2>1. \A i \in 1 .. Len(s \o t) : (s \o t)[i] = u[i]
        BY <1>1, <1>2, <1>3
  <2>2. QED  BY <1>1, <1>2, <2>1, SeqEqual
<1>5. QED  BY <1>4 DEF s, t, u
=============================================================================
