-------------------------- MODULE GatewayParts_proofs --------------------------
(***************************************************************************)
(* Proofs about four parts of the gateway that run on their own:           *)
(* Scheduler, for any jobs, requests, instances and restarts; Delivery,    *)
(* for answers of any length and any number of turns, failures and         *)
(* retries; Inbound, for any people, conversations and addresses;          *)
(* Lifecycle, for any failures and any interleaving of the stop functions. *)
(***************************************************************************)
EXTENDS Scheduler, Delivery, Inbound, Lifecycle, SequenceTheorems, WellFoundedInduction, TLAPS

(***************************************************************************)
(* Delivery: the typing reaction.                                          *)
(***************************************************************************)

DeliverySpec == DeliveryInit /\ [][DeliveryNext]_deliveryVars

\* A reaction that is still shown belongs to the turn under way, whose session
\* has the typing flag, unless something met its turn.
ReactionsAreFlagged ==
    \A t \in reaction \ disturbed : t = turn /\ stage = "running" /\ typingSent

\* Only Slack shows reactions, and a broadcast never looks at the flag.
OnlySlackReacts == reaction # {} => via = "slack"

\* A turn without a context will end without a look at the flag.
LostContextsAreNoted == stage = "running" /\ ~known => turn \in disturbed

TypingIInv == ReactionsAreFlagged /\ OnlySlackReacts /\ LostContextsAreNoted

\* Every step keeps the three facts about reactions.
LEMMA TypingStep == TypingIInv /\ [DeliveryNext]_deliveryVars => TypingIInv'
<1> SUFFICES ASSUME TypingIInv, [DeliveryNext]_deliveryVars PROVE TypingIInv'
  OBVIOUS
<1> USE DEF TypingIInv, ReactionsAreFlagged, OnlySlackReacts, LostContextsAreNoted, Disturb
<1>1. CASE TurnStarts
  BY <1>1 DEF TurnStarts
<1>2. CASE ContextGone \/ EvictStaleAccumulators
  BY <1>2 DEF ContextGone, EvictStaleAccumulators
<1>3. CASE MaybeSendTypingIndicator
  BY <1>3 DEF MaybeSendTypingIndicator
<1>4. CASE HandleDelta
  BY <1>4 DEF HandleDelta
<1>5. CASE HandleDone
  <2>1. CASE via = "broadcast"
    BY <1>5, <2>1 DEF HandleDone, Deliver
  <2>2. CASE via # "broadcast"
    BY <1>5, <2>2 DEF HandleDone, Deliver, ClearTypingSent
  <2>3. QED
    BY <2>1, <2>2
<1>6. CASE HandleError
  BY <1>6 DEF HandleError, Deliver, ClearTypingSent
<1>7. CASE NoContext
  BY <1>7 DEF NoContext
<1>8. CASE PostOK \/ PostFails \/ Retry
  BY <1>8 DEF PostOK, PostFails, Retry, AttemptOver
<1>9. CASE DeliveryEnds
  BY <1>9 DEF DeliveryEnds, AttemptOver, Deliver
<1>10. CASE UNCHANGED deliveryVars
  BY <1>10 DEF deliveryVars
<1>11. QED
  BY <1>1, <1>2, <1>3, <1>4, <1>5, <1>6, <1>7, <1>8, <1>9, <1>10 DEF DeliveryNext

\* However many turns, retries and cleanups there are, the typing reaction of
\* a turn is gone when the turn is over, unless Slack refused the call, the
\* context was lost or the cleanup loop dropped the flag
\* (maybeSendTypingIndicator, clearTypingSent, evictStaleAccumulators).
THEOREM ReactionsAreRemoved == DeliverySpec => []TypingEnds
<1>1. DeliveryInit => TypingIInv
  BY DEF DeliveryInit, TypingIInv, ReactionsAreFlagged, OnlySlackReacts, LostContextsAreNoted
<1>2. TypingIInv => TypingEnds
  BY DEF TypingIInv, ReactionsAreFlagged, TypingEnds
<1>3. QED
  BY <1>1, <1>2, TypingStep, PTL DEF DeliverySpec

(***************************************************************************)
(* Induction over numbers, and what the recursive functions compute.       *)
(***************************************************************************)

\* A set of numbers has a least one.
LEMMA LeastOne ==
  ASSUME NEW S, S \subseteq Nat, S # {}
  PROVE  \E x \in S : \A y \in S : x <= y
<1> DEFINE R == OpToRel(<, Nat)
<1>1. PICK x \in S : \A y \in S : ~(<<y, x>> \in R)
  BY WFMin, NatLessThanWellFounded
<1>2. \A a, b \in Nat : <<b, a>> \in R <=> b < a
  BY DEF OpToRel
<1> HIDE DEF R
<1>3. ASSUME NEW y \in S PROVE x <= y
  <2>1. x \in Nat /\ y \in Nat /\ ~(y < x)
    BY <1>1, <1>2
  <2>2. QED
    BY <2>1
<1>4. QED
  BY <1>3

\* Induction up to n, on a set of numbers.
LEMMA UpTo ==
  ASSUME NEW n \in Nat, NEW T, 0 \in T, \A i \in 1 .. n : i - 1 \in T => i \in T
  PROVE  0 .. n \subseteq T
<1> DEFINE Bad == (0 .. n) \ T
<1>1. SUFFICES ASSUME Bad # {} PROVE FALSE
  OBVIOUS
<1>2. Bad \subseteq Nat
  OBVIOUS
<1> HIDE DEF Bad
<1>3. PICK m \in Bad : \A y \in Bad : m <= y
  BY <1>1, <1>2, LeastOne
<1>4. m \in 1 .. n /\ m \notin T /\ m - 1 \in 0 .. n /\ ~(m <= m - 1)
  BY <1>3 DEF Bad
<1>5. m - 1 \in T
  BY <1>3, <1>4 DEF Bad
<1>6. QED
  BY <1>4, <1>5

\* f starts at a, and its i-th step is g[i].
Steps(n, S) == [1 .. n -> [S -> S]]
Built(f, n, S, a, g) ==
    f \in [0 .. n -> S] /\ f[0] = a /\ \A i \in 1 .. n : f[i] = g[i][f[i - 1]]

\* There is a function for every start and steps.
LEMMA StepByStep ==
  ASSUME NEW S, NEW a \in S, NEW n \in Nat, NEW g \in Steps(n, S)
  PROVE  \E f : Built(f, n, S, a, g)
<1> USE DEF Steps, Built
<1> DEFINE Good(f, m) == f[0] = a /\ \A i \in 1 .. m : f[i] = g[i][f[i - 1]]
           T == {m \in 0 .. n : \E f \in [0 .. n -> S] : Good(f, m)}
<1>1. 0 \in T
  <2> DEFINE e == [i \in 0 .. n |-> a]
  <2>1. e \in [0 .. n -> S] /\ Good(e, 0) /\ 0 \in 0 .. n
    OBVIOUS
  <2>2. QED
    BY <2>1
<1>2. ASSUME NEW m \in 1 .. n, m - 1 \in T PROVE m \in T
  <2>1. PICK f \in [0 .. n -> S] : Good(f, m - 1)
    BY <1>2
  <2> DEFINE y == g[m][f[m - 1]]
             e == [f EXCEPT ![m] = y]
  <2>2. m \in 0 .. n /\ m - 1 \in 0 .. n /\ m # 0 /\ f[m - 1] \in S
    OBVIOUS
  <2>3. y \in S
    BY <2>2
  <2>4. e \in [0 .. n -> S] /\ e[0] = a /\ e[m] = y /\ \A i \in 0 .. m - 1 : e[i] = f[i]
    <3> HIDE DEF y
    <3>1. QED
      BY <2>1, <2>2, <2>3
  <2> HIDE DEF e
  <2>5. ASSUME NEW i \in 1 .. m PROVE e[i] = g[i][e[i - 1]]
    <3>1. CASE i = m
      <4>1. e[m - 1] = f[m - 1]
        BY <2>4
      <4>2. QED
        BY <2>4, <3>1, <4>1
    <3>2. CASE i # m
      <4>1. i \in 1 .. m - 1 /\ i \in 0 .. m - 1 /\ i - 1 \in 0 .. m - 1
        BY <3>2
      <4>2. f[i] = g[i][f[i - 1]]
        BY <2>1, <4>1
      <4>3. QED
        BY <2>4, <4>1, <4>2
    <3>3. QED
      BY <3>1, <3>2
  <2>6. QED
    BY <2>2, <2>4, <2>5
<1> HIDE DEF T
<1>3. 0 .. n \subseteq T
  BY <1>1, <1>2, UpTo
<1>4. n \in T
  BY <1>3
<1>5. QED
  BY <1>4 DEF T

\* Two functions with the same start and the same steps are the same.
SameSteps(f, h, n) == f[0] = h[0] /\ \A i \in 1 .. n : f[i - 1] = h[i - 1] => f[i] = h[i]
Same(f, h, n) == \A i \in 0 .. n : f[i] = h[i]
LEMMA StepsAgree ==
  ASSUME NEW n \in Nat, NEW f, NEW h, SameSteps(f, h, n)
  PROVE  Same(f, h, n)
<1> USE DEF SameSteps, Same
<1> DEFINE T == {i \in 0 .. n : f[i] = h[i]}
<1>1. 0 \in T
  OBVIOUS
<1>2. ASSUME NEW i \in 1 .. n, i - 1 \in T PROVE i \in T
  BY <1>2
<1> HIDE DEF T
<1>3. 0 .. n \subseteq T
  BY <1>1, <1>2, UpTo
<1>4. QED
  BY <1>3 DEF T

\* A letter is added, a newline is not.
Lettered(x, c) == IF c = 0 THEN x ELSE Append(x, c)

\* f has the letters of every prefix of s.
LettersBy(f, s) ==
    /\ f \in [0 .. Len(s) -> Seq(Nat)] /\ f[0] = <<>>
    /\ \A i \in 1 .. Len(s) : f[i] = Lettered(f[i - 1], s[i])

\* Letters is built character by character.
LEMMA LettersBuilt ==
  ASSUME NEW s \in Seq(Nat)
  PROVE  \E f : LettersBy(f, s) /\ Letters(s) = f[Len(s)]
<1> DEFINE n == Len(s)
           g == [i \in 1 .. n |-> [x \in Seq(Nat) |-> Lettered(x, s[i])]]
<1>1. n \in Nat /\ n \in 0 .. n /\ 0 \in 0 .. n /\ \A i \in 1 .. n : i \in 0 .. n /\ i - 1 \in 0 .. n
  OBVIOUS
<1>2. \A i \in 1 .. n, x \in Seq(Nat) : Lettered(x, s[i]) \in Seq(Nat)
  BY DEF Lettered
<1>3. g \in [1 .. n -> [Seq(Nat) -> Seq(Nat)]]
  BY <1>2
<1>4. PICK f \in [0 .. n -> Seq(Nat)] : f[0] = <<>> /\ \A i \in 1 .. n : f[i] = g[i][f[i - 1]]
  <2> DEFINE a == <<>>
             S == Seq(Nat)
  <2>1. n \in Nat /\ a \in S /\ g \in Steps(n, S)
    BY <1>1, <1>3 DEF Steps
  <2> HIDE DEF g, n, a, S
  <2>2. \E f : Built(f, n, S, a, g)
    BY <2>1, StepByStep
  <2>3. QED
    BY <2>2 DEF a, S, Built
<1>5. \A i \in 1 .. n : f[i] = Lettered(f[i - 1], s[i])
  BY <1>1, <1>4
<1> DEFINE Is(h) == h = [i \in 0 .. Len(s) |->
                           IF i = 0 THEN <<>> ELSE IF s[i] = 0 THEN h[i - 1] ELSE Append(h[i - 1], s[i])]
           k == CHOOSE h : Is(h)
<1>6. Is(f)
  <2>1. \A i \in 0 .. n : i = 0 \/ i \in 1 .. n
    BY <1>1
  <2>2. \A i \in 0 .. n : f[i] = IF i = 0 THEN <<>> ELSE IF s[i] = 0 THEN f[i - 1] ELSE Append(f[i - 1], s[i])
    BY <1>4, <1>5, <2>1 DEF Lettered
  <2>3. QED
    BY <2>2
<1>7. Letters(s) = k[n]
  BY DEF Letters
<1>8. Is(k)
  BY <1>6
<1> HIDE DEF k, g
<1>9. k[0] = <<>> /\ \A i \in 1 .. n : k[i] = Lettered(k[i - 1], s[i])
  <2>1. k[0] = <<>>
    BY <1>1, <1>8
  <2>2. ASSUME NEW i \in 1 .. n PROVE k[i] = Lettered(k[i - 1], s[i])
    <3>1. i \in 0 .. Len(s) /\ i # 0
      BY <1>1
    <3>2. k[i] = IF s[i] = 0 THEN k[i - 1] ELSE Append(k[i - 1], s[i])
      BY <1>8, <3>1
    <3>3. QED
      BY <3>2 DEF Lettered
  <2>3. QED
    BY <2>1, <2>2
<1>10. \A i \in 1 .. n : f[i - 1] = k[i - 1] => f[i] = k[i]
  BY <1>5, <1>9
<1>11. f[n] = k[n]
  <2>1. n \in Nat /\ SameSteps(f, k, n) /\ n \in 0 .. n
    BY <1>1, <1>4, <1>9, <1>10 DEF SameSteps
  <2> HIDE DEF n
  <2>2. Same(f, k, n)
    BY <2>1, StepsAgree
  <2>3. QED
    BY <2>1, <2>2 DEF Same
<1>12. QED
  BY <1>4, <1>5, <1>7, <1>11 DEF LettersBy

\* A set of numbers up to n that is not empty has a greatest one.
LEMMA GreatestOne ==
  ASSUME NEW n \in Nat, NEW S, S \subseteq 0 .. n, S # {}
  PROVE  \E x \in S : \A y \in S : y <= x
<1> DEFINE R == {n - x : x \in S}
<1>1. R \subseteq Nat /\ R # {}
  <2>1. ASSUME NEW x \in S PROVE n - x \in Nat
    <3>1. x \in 0 .. n
      OBVIOUS
    <3>2. QED
      BY <3>1
  <2>2. PICK x \in S : TRUE
    OBVIOUS
  <2>3. n - x \in R
    OBVIOUS
  <2>4. QED
    BY <2>1, <2>3
<1>2. PICK r \in R : \A y \in R : r <= y
  <2> HIDE DEF R
  <2>1. QED
    BY <1>1, LeastOne
<1>3. PICK x \in S : r = n - x
  BY <1>2
<1>4. ASSUME NEW y \in S PROVE y <= x
  <2>1. n - y \in R /\ y \in Int /\ x \in Int
    OBVIOUS
  <2>2. n - x <= n - y
    BY <1>2, <1>3, <2>1
  <2>3. QED
    BY <2>1, <2>2
<1>5. QED
  BY <1>4

\* No text has no letters.
LEMMA LettersEmpty == Letters(<<>>) = <<>>
<1>1. <<>> \in Seq(Nat) /\ Len(<<>>) = 0
  OBVIOUS
<1>2. PICK f : LettersBy(f, <<>>) /\ Letters(<<>>) = f[Len(<<>>)]
  BY <1>1, LettersBuilt
<1>3. QED
  BY <1>1, <1>2 DEF LettersBy

\* A character at the end is added or left out.
LEMMA LettersAppend ==
  ASSUME NEW s \in Seq(Nat), NEW c \in Nat
  PROVE  Letters(s) \in Seq(Nat) /\ Letters(Append(s, c)) = Lettered(Letters(s), c)
<1> DEFINE p == Append(s, c)
           n == Len(s)
<1>1. /\ p \in Seq(Nat) /\ Len(p) = n + 1 /\ n \in Nat /\ n \in 0 .. n /\ n + 1 \in 1 .. n + 1
      /\ p[n + 1] = c /\ \A i \in 1 .. n : p[i] = s[i] /\ i \in 1 .. n + 1
  OBVIOUS
<1>2. PICK f : LettersBy(f, s) /\ Letters(s) = f[n]
  BY LettersBuilt
<1> HIDE DEF p
<1>3. PICK h : LettersBy(h, p) /\ Letters(p) = h[Len(p)]
  BY <1>1, LettersBuilt
<1>a. /\ f[0] = <<>> /\ f[n] \in Seq(Nat)
      /\ \A i \in 1 .. n : f[i] = Lettered(f[i - 1], s[i])
  BY <1>1, <1>2 DEF LettersBy
<1>b. /\ h[0] = <<>> /\ Letters(p) = h[n + 1]
      /\ \A i \in 1 .. n + 1 : h[i] = Lettered(h[i - 1], p[i])
  BY <1>1, <1>3 DEF LettersBy
<1> HIDE DEF n
<1>4. SameSteps(f, h, n)
  <2>1. ASSUME NEW i \in 1 .. n, f[i - 1] = h[i - 1] PROVE f[i] = h[i]
    <3>1. f[i] = Lettered(f[i - 1], s[i]) /\ h[i] = Lettered(h[i - 1], p[i]) /\ p[i] = s[i]
      BY <1>1, <1>a, <1>b
    <3>2. QED
      BY <2>1, <3>1
  <2>2. QED
    BY <1>a, <1>b, <2>1 DEF SameSteps
<1>5. Same(f, h, n)
  BY <1>1, <1>4, StepsAgree
<1>6. f[n] = h[n] /\ n + 1 - 1 = n
  BY <1>1, <1>5 DEF Same
<1>7. h[n + 1] = Lettered(h[n + 1 - 1], p[n + 1])
  BY <1>1, <1>b
<1>8. h[n + 1] = Lettered(f[n], c)
  BY <1>1, <1>6, <1>7
<1>9. QED
  BY <1>2, <1>a, <1>b, <1>8 DEF p

\* Putting texts together is associative.
LEMMA TextAssociative ==
  ASSUME NEW a \in Seq(Nat), NEW b \in Seq(Nat), NEW c \in Seq(Nat)
  PROVE  (a \o b) \o c = a \o (b \o c)
BY ConcatAssociative, SMTT(40)

\* Appending goes through a concatenation.
LEMMA TextAppend ==
  ASSUME NEW p \in Seq(Nat), NEW q \in Seq(Nat), NEW c \in Nat
  PROVE  p \o Append(q, c) = Append(p \o q, c)
<1>1. <<c>> \in Seq(Nat) /\ p \o q \in Seq(Nat)
  OBVIOUS
<1>2. Append(q, c) = q \o <<c>> /\ Append(p \o q, c) = (p \o q) \o <<c>>
  BY <1>1, AppendIsConcat
<1>3. QED
  BY <1>1, <1>2, ConcatAssociative

\* The letters of two texts, one after the other.
LEMMA LettersConcat ==
  ASSUME NEW p \in Seq(Nat), NEW q \in Seq(Nat)
  PROVE  Letters(p \o q) = Letters(p) \o Letters(q)
<1> DEFINE Prefix(i) == SubSeq(q, 1, i)
           T == {i \in 0 .. Len(q) : Letters(p \o Prefix(i)) = Letters(p) \o Letters(Prefix(i))}
<1>1. Len(q) \in Nat /\ Len(q) \in 0 .. Len(q) /\ 0 \in 0 .. Len(q) /\ 0 \in Nat
  OBVIOUS
<1>2. \A x \in Seq(Nat) : Letters(x) \in Seq(Nat)
  BY <1>1, LettersAppend
<1>3. Prefix(0) = <<>>
  BY SubSeqEmpty
<1>4. 0 \in T
  <2> HIDE DEF Prefix
  <2>1. p \o <<>> = p /\ Letters(p) \o <<>> = Letters(p)
    BY <1>2, ConcatEmptySeq
  <2>2. Letters(p \o Prefix(0)) = Letters(p) \o Letters(Prefix(0))
    BY <1>3, <2>1, LettersEmpty, Zenon
  <2>3. QED
    BY <1>1, <2>2
<1>5. ASSUME NEW i \in 1 .. Len(q), i - 1 \in T PROVE i \in T
  <2> DEFINE x == Prefix(i - 1)
             c == q[i]
             a == Letters(p)
             b == Letters(x)
  <2>1. c \in Nat /\ i \in 0 .. Len(q) /\ 1 \in 1 .. Len(q)
    OBVIOUS
  <2>2. x \in Seq(Nat)
    OBVIOUS
  <2>3. Prefix(i) = Append(x, c)
    <3>1. Prefix(i) = x \o <<c>>
      BY <2>1, SubSeqRecursiveSecond
    <3>2. QED
      BY <2>1, <2>2, <3>1, AppendIsConcat
  <2>4. Letters(p \o x) = a \o b
    BY <1>5
  <2> HIDE DEF Prefix, x, c
  <2>5. p \o x \in Seq(Nat) /\ p \o Append(x, c) = Append(p \o x, c)
    <3>1. p \o x \in Seq(Nat)
      BY <2>2
    <3>2. p \o Append(x, c) = Append(p \o x, c)
      BY <2>1, <2>2, TextAppend, Zenon
    <3>3. QED
      BY <3>1, <3>2
  <2>6. /\ Letters(p \o Prefix(i)) = Lettered(a \o b, c)
        /\ Letters(Prefix(i)) = Lettered(b, c)
    <3>1. Letters(Append(x, c)) = Lettered(Letters(x), c)
      BY <2>1, <2>2, LettersAppend, Zenon
    <3>2. Letters(Append(p \o x, c)) = Lettered(Letters(p \o x), c)
      BY <2>1, <2>5, LettersAppend, Zenon
    <3>3. QED
      BY <2>3, <2>4, <2>5, <3>1, <3>2, Zenon
  <2>7. a \in Seq(Nat) /\ b \in Seq(Nat)
    BY <1>2, <2>2
  <2> HIDE DEF a, b
  <2>8. Lettered(a \o b, c) = a \o Lettered(b, c)
    BY <2>1, <2>7, TextAppend DEF Lettered
  <2>9. QED
    BY <2>1, <2>6, <2>8 DEF a
<1> HIDE DEF T
<1>6. 0 .. Len(q) \subseteq T
  BY <1>1, <1>4, <1>5, UpTo
<1>7. Prefix(Len(q)) = q
  BY SubSeqFull
<1>8. QED
  BY <1>1, <1>6, <1>7 DEF T

\* f has every prefix of the chunks s put together.
FlattenBy(f, s) ==
    /\ f \in [0 .. Len(s) -> Seq(Nat)] /\ f[0] = <<>>
    /\ \A i \in 1 .. Len(s) : f[i] = f[i - 1] \o s[i]

\* FlattenSeq is built text by text.
LEMMA FlattenBuilt ==
  ASSUME NEW s \in Seq(Seq(Nat))
  PROVE  \E f : FlattenBy(f, s) /\ FlattenSeq(s) = f[Len(s)]
<1> DEFINE n == Len(s)
           g == [i \in 1 .. n |-> [x \in Seq(Nat) |-> x \o s[i]]]
<1>1. n \in Nat /\ n \in 0 .. n /\ 0 \in 0 .. n /\ \A i \in 1 .. n : i \in 0 .. n /\ i - 1 \in 0 .. n
  OBVIOUS
<1>2. \A i \in 1 .. n, x \in Seq(Nat) : x \o s[i] \in Seq(Nat)
  OBVIOUS
<1>3. g \in [1 .. n -> [Seq(Nat) -> Seq(Nat)]]
  BY <1>2
<1>4. PICK f \in [0 .. n -> Seq(Nat)] : f[0] = <<>> /\ \A i \in 1 .. n : f[i] = g[i][f[i - 1]]
  <2> DEFINE a == <<>>
             S == Seq(Nat)
  <2>1. n \in Nat /\ a \in S /\ g \in Steps(n, S)
    BY <1>1, <1>3 DEF Steps
  <2> HIDE DEF g, n, a, S
  <2>2. \E f : Built(f, n, S, a, g)
    BY <2>1, StepByStep
  <2>3. QED
    BY <2>2 DEF a, S, Built
<1>5. \A i \in 1 .. n : f[i] = f[i - 1] \o s[i]
  BY <1>1, <1>4
<1>6. CASE n = 0
  <2>1. FlattenSeq(s) = <<>>
    BY <1>6 DEF FlattenSeq
  <2>2. QED
    BY <1>4, <1>5, <1>6, <2>1 DEF FlattenBy
<1>7. CASE n # 0
  <2> DEFINE Is(h) == h = [i \in 1 .. Len(s) |-> IF i = 1 THEN s[i] ELSE h[i - 1] \o s[i]]
             k == CHOOSE h : Is(h)
             e == [i \in 1 .. n |-> f[i]]
  <2>1. 1 \in 1 .. n /\ n \in 1 .. n
    BY <1>1, <1>7
  <2>2. f[1] = s[1]
    <3>1. f[1] = f[1 - 1] \o s[1]
      BY <1>5, <2>1
    <3>2. f[1 - 1] = <<>>
      BY <1>4
    <3>3. s[1] \in Seq(Nat)
      BY <2>1
    <3>4. QED
      BY <3>1, <3>2, <3>3, ConcatEmptySeq
  <2>3. Is(e)
    <3>1. ASSUME NEW i \in 1 .. n PROVE e[i] = IF i = 1 THEN s[i] ELSE e[i - 1] \o s[i]
      <4>1. CASE i = 1
        BY <2>1, <2>2, <4>1
      <4>2. CASE i # 1
        <5>1. i - 1 \in 1 .. n
          BY <1>1, <4>2
        <5>2. e[i - 1] = f[i - 1] /\ e[i] = f[i]
          BY <5>1
        <5>3. QED
          BY <1>5, <4>2, <5>2
      <4>3. QED
        BY <4>1, <4>2
    <3>2. e = [i \in 1 .. n |-> e[i]]
      OBVIOUS
    <3> HIDE DEF e
    <3>3. QED
      BY <3>1, <3>2
  <2>4. FlattenSeq(s) = k[n]
    BY <1>7 DEF FlattenSeq
  <2>5. Is(k)
    BY <2>3
  <2> HIDE DEF k, g
  <2>6. \A i \in 1 .. n : k[i] = IF i = 1 THEN s[i] ELSE k[i - 1] \o s[i]
    BY <2>5
  <2> DEFINE T == {i \in 0 .. n : i = 0 \/ f[i] = k[i]}
  <2>7. 0 \in T
    BY <1>1
  <2>8. ASSUME NEW i \in 1 .. n, i - 1 \in T PROVE i \in T
    <3>1. CASE i = 1
      BY <1>1, <2>1, <2>2, <2>6, <3>1
    <3>2. CASE i # 1
      <4>1. f[i - 1] = k[i - 1]
        BY <2>8, <3>2
      <4>2. QED
        BY <1>1, <1>5, <2>6, <3>2, <4>1
    <3>3. QED
      BY <3>1, <3>2
  <2>9. 0 .. n \subseteq T
    <3> HIDE DEF T, n
    <3>1. QED
      BY <1>1, <2>7, <2>8, UpTo
  <2>10. f[n] = k[n]
    BY <1>1, <1>7, <2>9
  <2>11. QED
    BY <1>4, <1>5, <2>4, <2>10 DEF FlattenBy
<1>8. QED
  BY <1>6, <1>7

\* No chunks make no text.
LEMMA FlattenEmpty == FlattenSeq(<<>>) = <<>>
BY DEF FlattenSeq

\* A text at the end is added at the end.
LEMMA FlattenAppend ==
  ASSUME NEW s \in Seq(Seq(Nat)), NEW c \in Seq(Nat)
  PROVE  FlattenSeq(s) \in Seq(Nat) /\ FlattenSeq(Append(s, c)) = FlattenSeq(s) \o c
<1> DEFINE p == Append(s, c)
           n == Len(s)
<1>1. /\ p \in Seq(Seq(Nat)) /\ Len(p) = n + 1 /\ n \in Nat /\ n \in 0 .. n /\ n + 1 \in 1 .. n + 1
      /\ p[n + 1] = c /\ \A i \in 1 .. n : p[i] = s[i] /\ i \in 1 .. n + 1
  OBVIOUS
<1>2. PICK f : FlattenBy(f, s) /\ FlattenSeq(s) = f[n]
  BY FlattenBuilt
<1> HIDE DEF p
<1>3. PICK h : FlattenBy(h, p) /\ FlattenSeq(p) = h[Len(p)]
  BY <1>1, FlattenBuilt
<1>a. /\ f[0] = <<>> /\ f[n] \in Seq(Nat)
      /\ \A i \in 1 .. n : f[i] = f[i - 1] \o s[i]
  BY <1>1, <1>2 DEF FlattenBy
<1>b. /\ h[0] = <<>> /\ FlattenSeq(p) = h[n + 1]
      /\ \A i \in 1 .. n + 1 : h[i] = h[i - 1] \o p[i]
  BY <1>1, <1>3 DEF FlattenBy
<1> HIDE DEF n
<1>4. SameSteps(f, h, n)
  <2>1. ASSUME NEW i \in 1 .. n, f[i - 1] = h[i - 1] PROVE f[i] = h[i]
    <3>1. f[i] = f[i - 1] \o s[i] /\ h[i] = h[i - 1] \o p[i] /\ p[i] = s[i]
      BY <1>1, <1>a, <1>b
    <3>2. QED
      BY <2>1, <3>1
  <2>2. QED
    BY <1>a, <1>b, <2>1 DEF SameSteps
<1>5. Same(f, h, n)
  BY <1>1, <1>4, StepsAgree
<1>6. f[n] = h[n] /\ n + 1 - 1 = n
  BY <1>1, <1>5 DEF Same
<1> DEFINE j == n + 1
<1>7. j \in 1 .. n + 1 /\ j - 1 = n /\ p[j] = c
  BY <1>1
<1> HIDE DEF j
<1>c. h[j] = h[j - 1] \o p[j]
  BY <1>b, <1>7
<1>8. h[n + 1] = f[n] \o c
  BY <1>6, <1>7, <1>c DEF j
<1>9. QED
  BY <1>2, <1>a, <1>b, <1>8 DEF p

\* One chunk is its own text.
LEMMA FlattenOne ==
  ASSUME NEW c \in Seq(Nat)
  PROVE  FlattenSeq(<<c>>) = c
<1> DEFINE e == <<>>
<1>1. e \in Seq(Seq(Nat)) /\ Append(e, c) = <<c>>
  OBVIOUS
<1> HIDE DEF e
<1>2. FlattenSeq(Append(e, c)) = FlattenSeq(e) \o c
  BY <1>1, FlattenAppend, Zenon
<1>3. FlattenSeq(e) = <<>>
  BY FlattenEmpty DEF e
<1>4. QED
  BY <1>1, <1>2, <1>3, ConcatEmptySeq

(***************************************************************************)
(* Delivery: the chunks of an answer.                                      *)
(***************************************************************************)

Char == 0 .. MaxTurns

\* A text is a sequence of numbers, and so are its parts.
LEMMA TextsAreNumbers ==
  /\ \A x \in Seq(Char) : x \in Seq(Nat)
  /\ \A x \in Seq(Seq(Char)) : x \in Seq(Seq(Nat))
<1>1. Char \subseteq Nat
  BY DeliveryAssumption DEF Char
<1>2. Seq(Char) \subseteq Seq(Nat)
  BY <1>1, SeqMonotonic
<1>3. Seq(Seq(Char)) \subseteq Seq(Seq(Nat))
  BY <1>2, SeqMonotonic
<1>4. QED
  BY <1>2, <1>3

\* No text is the mark of the picture.
LEMMA PictureIsNoText == \A x \in Seq(Char) : x # Picture
<1>1. MaxTurns \in Nat
  BY DeliveryAssumption
<1>2. ASSUME NEW x \in Seq(Char), x = Picture PROVE FALSE
  <2>1. Len(x) = 1 /\ x[1] = MaxTurns + 1
    BY <1>2 DEF Picture
  <2>2. x[1] \in Char
    BY <2>1
  <2>3. QED
    BY <1>1, <2>1, <2>2 DEF Char
<1>3. QED
  BY <1>2

\* A newline has no letters.
LEMMA LettersOfNewline == Letters(<<0>>) = <<>>
<1>1. <<>> \in Seq(Nat) /\ 0 \in Nat /\ Append(<<>>, 0) = <<0>>
  OBVIOUS
<1>2. Letters(Append(<<>>, 0)) = Lettered(Letters(<<>>), 0)
  BY <1>1, LettersAppend, Zenon
<1>3. QED
  BY <1>1, <1>2, LettersEmpty DEF Lettered

\* A text cut in two has the letters of its parts, with or without a newline
\* at the cut.
LEMMA LettersOfCut ==
  ASSUME NEW t \in Seq(Nat), NEW cut \in Nat, cut >= 1, cut < Len(t)
  PROVE  /\ Letters(t) = Letters(SubSeq(t, 1, cut)) \o Letters(SubSeq(t, cut + 1, Len(t)))
         /\ t[cut + 1] = 0 =>
              Letters(t) = Letters(SubSeq(t, 1, cut)) \o Letters(SubSeq(t, cut + 2, Len(t)))
<1> DEFINE a == SubSeq(t, 1, cut)
           b == SubSeq(t, cut + 1, Len(t))
           c == SubSeq(t, cut + 2, Len(t))
<1>1. a \in Seq(Nat) /\ b \in Seq(Nat) /\ c \in Seq(Nat) /\ Len(t) \in Nat
  OBVIOUS
<1>2. a \o b = t
  <2>1. SubSeq(t, 1, Len(t)) = t
    BY SubSeqFull
  <2>2. 1 \in 1 .. Len(t) + 1 /\ cut \in 1 - 1 .. Len(t) /\ Len(t) \in cut .. Len(t)
    BY <1>1
  <2>3. SubSeq(t, 1, cut) \o SubSeq(t, cut + 1, Len(t)) = SubSeq(t, 1, Len(t))
    BY <2>2, ConcatAdjacentSubSeq
  <2>4. QED
    BY <2>1, <2>3
<1>3. b = <<t[cut + 1]>> \o c
  <2>1. cut + 1 \in 1 .. Len(t) /\ Len(t) \in cut + 1 .. Len(t) /\ cut + 1 + 1 = cut + 2
    BY <1>1
  <2>2. SubSeq(t, cut + 1, Len(t)) = <<t[cut + 1]>> \o SubSeq(t, cut + 1 + 1, Len(t))
    BY <2>1, SubSeqRecursiveFirst
  <2>3. QED
    BY <2>1, <2>2
<1>4. Letters(t) = Letters(a) \o Letters(b)
  <2> HIDE DEF a, b
  <2>1. Letters(a \o b) = Letters(a) \o Letters(b)
    BY <1>1, LettersConcat, Zenon
  <2>2. QED
    BY <1>2, <2>1
<1>5. ASSUME t[cut + 1] = 0 PROVE Letters(b) = Letters(c)
  <2> DEFINE z == <<0>>
  <2>1. z \in Seq(Nat) /\ b = z \o c
    BY <1>3, <1>5
  <2>2. Letters(z) = <<>>
    BY LettersOfNewline
  <2>3. Letters(c) \in Seq(Nat)
    <3> HIDE DEF c
    <3>1. 0 \in Nat
      OBVIOUS
    <3>2. QED
      BY <1>1, <3>1, LettersAppend, Zenon
  <2> HIDE DEF b, c, z
  <2>4. Letters(z \o c) = Letters(z) \o Letters(c)
    BY <1>1, <2>1, LettersConcat, Zenon
  <2>5. <<>> \o Letters(c) = Letters(c)
    BY <2>3, ConcatEmptySeq
  <2>6. QED
    BY <2>1, <2>2, <2>4, <2>5
<1>6. QED
  BY <1>4, <1>5

\* The chunks cut off so far and the text that is left.
SplitState == [chunks : Seq(Seq(Char)), text : Seq(Char)]

\* What an iteration of splitTextChunks does: it adds one chunk within the
\* limit, which has the letters that the text then lacks.
LEMMA CutEffect ==
  ASSUME NEW s \in SplitState, s.text # <<>>
  PROVE  /\ CutChunk(s) \in SplitState
         /\ Len(CutChunk(s).text) < Len(s.text)
         /\ \E c \in Seq(Char) : /\ CutChunk(s).chunks = Append(s.chunks, c)
                                 /\ Len(c) <= ChunkLen
                                 /\ Letters(s.text) = Letters(c) \o Letters(CutChunk(s).text)
<1> DEFINE t == s.text
           newlines == {i \in 2 .. ChunkLen : s.text[i] = 0}
           cut == IF newlines = {} THEN ChunkLen
                  ELSE (CHOOSE i \in newlines : \A j \in newlines : j <= i) - 1
           next == IF s.text[cut + 1] = 0 THEN cut + 2 ELSE cut + 1
           c == SubSeq(t, 1, cut)
           rest == SubSeq(t, next, Len(t))
<1>1. t \in Seq(Char) /\ s.chunks \in Seq(Seq(Char)) /\ Len(t) \in Nat /\ ChunkLen \in Nat /\ ChunkLen >= 1
  BY DeliveryAssumption DEF SplitState
<1>2. t \in Seq(Nat)
  BY <1>1, TextsAreNumbers
<1>3. CASE Len(t) <= ChunkLen
  <2>1. CutChunk(s) = [chunks |-> Append(s.chunks, t), text |-> <<>>]
    BY <1>3 DEF CutChunk
  <2>2. CutChunk(s) \in SplitState /\ CutChunk(s).text = <<>> /\ CutChunk(s).chunks = Append(s.chunks, t)
    BY <1>1, <2>1 DEF SplitState
  <2>3. Len(t) > 0
    BY <1>1
  <2>4. Letters(t) = Letters(t) \o Letters(<<>>)
    <3> HIDE DEF t
    <3>1. 0 \in Nat
      OBVIOUS
    <3>2. Letters(t) \in Seq(Nat)
      BY <1>2, <3>1, LettersAppend, Zenon
    <3>3. QED
      BY <3>2, LettersEmpty, ConcatEmptySeq
  <2>5. QED
    BY <1>1, <1>3, <2>2, <2>3, <2>4
<1>4. CASE ~(Len(t) <= ChunkLen)
  <2>1. CutChunk(s) = [chunks |-> Append(s.chunks, c), text |-> rest]
    BY <1>4 DEF CutChunk
  <2>2. cut \in Nat /\ cut >= 1 /\ cut <= ChunkLen /\ cut < Len(t)
    <3>1. CASE newlines = {}
      BY <1>1, <1>4, <3>1
    <3>2. CASE newlines # {}
      <4>1. PICK m \in newlines : \A j \in newlines : j <= m
        <5>1. newlines \subseteq 0 .. ChunkLen
          BY <1>1
        <5> HIDE DEF newlines
        <5>2. QED
          BY <1>1, <3>2, <5>1, GreatestOne
      <4>2. (CHOOSE i \in newlines : \A j \in newlines : j <= i) \in newlines
        <5> HIDE DEF newlines
        <5>1. QED
          BY <4>1
      <4>3. cut + 1 \in newlines /\ cut \in Int
        <5> DEFINE e == CHOOSE i \in newlines : \A j \in newlines : j <= i
        <5>1. e \in newlines /\ e \in Int /\ cut = e - 1
          BY <1>1, <3>2, <4>2
        <5> HIDE DEF e, cut
        <5>2. QED
          BY <5>1
      <4> HIDE DEF cut
      <4>4. QED
        BY <1>1, <1>4, <4>3
    <3>3. QED
      BY <3>1, <3>2
  <2> HIDE DEF cut
  <2>3. next \in {cut + 1, cut + 2} /\ next \in Nat /\ next >= 2
    BY <2>2
  <2>4. c \in Seq(Char) /\ Len(c) = cut
    BY <1>1, <2>2
  <2>5. rest \in Seq(Char) /\ Len(rest) < Len(t)
    <3> HIDE DEF next
    <3>1. QED
      BY <1>1, <1>4, <2>3
  <2>6. Letters(t) = Letters(c) \o Letters(rest)
    <3> HIDE DEF t
    <3>1. CASE t[cut + 1] = 0
      <4>1. rest = SubSeq(t, cut + 2, Len(t))
        BY <3>1 DEF t
      <4>2. QED
        BY <1>2, <2>2, <3>1, <4>1, LettersOfCut
    <3>2. CASE t[cut + 1] # 0
      <4>1. rest = SubSeq(t, cut + 1, Len(t))
        BY <3>2 DEF t
      <4>2. QED
        BY <1>2, <2>2, <4>1, LettersOfCut
    <3>3. QED
      BY <3>1, <3>2
  <2>7. /\ CutChunk(s) \in SplitState /\ CutChunk(s).text = rest
        /\ CutChunk(s).chunks = Append(s.chunks, c)
    <3> HIDE DEF rest, c
    <3>1. QED
      BY <1>1, <2>1, <2>4, <2>5 DEF SplitState
  <2> HIDE DEF rest, c
  <2>8. QED
    BY <2>2, <2>4, <2>5, <2>6, <2>7
<1>5. QED
  BY <1>3, <1>4

\* Where the loop of splitTextChunks is after i iterations over x.
SplitSoFar(s, x, i) ==
    /\ s \in SplitState /\ (s.text = <<>> \/ Len(s.text) <= Len(x) - i)
    /\ s.chunks # <<>> \/ (i = 0 /\ s.text = x)
    /\ \A j \in 1 .. Len(s.chunks) : Len(s.chunks[j]) <= ChunkLen
    /\ Letters(FlattenSeq(s.chunks)) \o Letters(s.text) = Letters(x)
Iterated(s) == IF s.text = <<>> THEN s ELSE CutChunk(s)

\* Letters are a text again.
LEMMA LettersType == \A x \in Seq(Nat) : Letters(x) \in Seq(Nat)
<1>1. 0 \in Nat
  OBVIOUS
<1>2. QED
  BY <1>1, LettersAppend

\* The loop of splitTextChunks begins with all the text left.
LEMMA SplitStarts ==
  ASSUME NEW x \in Seq(Char)
  PROVE  SplitSoFar([chunks |-> <<>>, text |-> x], x, 0)
<1> DEFINE s == [chunks |-> <<>>, text |-> x]
<1>1. s \in SplitState /\ s.chunks = <<>> /\ s.text = x /\ Len(x) \in Nat /\ Len(<<>>) = 0
  BY DEF SplitState
<1>2. Letters(x) \in Seq(Nat)
  BY TextsAreNumbers, LettersType
<1>3. <<>> \o Letters(x) = Letters(x)
  BY <1>2, ConcatEmptySeq
<1>4. Letters(FlattenSeq(s.chunks)) = <<>>
  BY <1>1, FlattenEmpty, LettersEmpty
<1> HIDE DEF s
<1>5. SplitSoFar(s, x, 0)
  <2>1. Letters(FlattenSeq(s.chunks)) \o Letters(s.text) = Letters(x)
    BY <1>1, <1>3, <1>4, Zenon
  <2>2. \A j \in 1 .. Len(s.chunks) : Len(s.chunks[j]) <= ChunkLen
    BY <1>1
  <2>3. s.text = <<>> \/ Len(s.text) <= Len(x) - 0
    BY <1>1
  <2>4. QED
    BY <1>1, <2>1, <2>2, <2>3 DEF SplitSoFar
<1>6. QED
  BY <1>5 DEF s

\* An iteration of the loop loses no letter.
LEMMA SplitGoesOn ==
  ASSUME NEW x \in Seq(Char), NEW s, NEW i \in 1 .. Len(x), SplitSoFar(s, x, i - 1)
  PROVE  SplitSoFar(Iterated(s), x, i)
<1>0. Len(x) \in Nat /\ Len(x) # 0 /\ i \in Nat
  OBVIOUS
<1>1. CASE s.text = <<>>
  <2>1. s.chunks # <<>>
    BY <1>0, <1>1 DEF SplitSoFar
  <2>2. Iterated(s) = s
    BY <1>1 DEF Iterated
  <2>3. QED
    BY <1>1, <2>1, <2>2 DEF SplitSoFar
<1>2. CASE s.text # <<>>
  <2> DEFINE r == CutChunk(s)
             cs == s.chunks
  <2>1. Iterated(s) = r
    BY <1>2 DEF Iterated
  <2>2. s \in SplitState
    BY DEF SplitSoFar
  <2>3. PICK c \in Seq(Char) : /\ r.chunks = Append(cs, c) /\ Len(c) <= ChunkLen
                               /\ Letters(s.text) = Letters(c) \o Letters(r.text)
    BY <1>2, <2>2, CutEffect
  <2>4. r \in SplitState /\ Len(r.text) < Len(s.text)
    BY <1>2, <2>2, CutEffect
  <2> HIDE DEF r
  <2>5. Len(s.text) <= Len(x) - (i - 1) /\ Len(s.text) \in Nat /\ Len(r.text) \in Nat
    BY <1>2, <2>4 DEF SplitSoFar, SplitState
  <2>6. r.text = <<>> \/ Len(r.text) <= Len(x) - i
    BY <1>0, <2>4, <2>5
  <2>7. cs \in Seq(Seq(Char)) /\ c \in Seq(Nat) /\ r.text \in Seq(Nat) /\ cs \in Seq(Seq(Nat))
    BY <2>2, <2>4, TextsAreNumbers DEF SplitState
  <2>8. r.chunks # <<>> /\ \A j \in 1 .. Len(r.chunks) : Len(r.chunks[j]) <= ChunkLen
    <3>1. \A j \in 1 .. Len(cs) : Len(cs[j]) <= ChunkLen
      BY DEF SplitSoFar
    <3> HIDE DEF cs
    <3>2. Len(r.chunks) = Len(cs) + 1 /\ Len(cs) \in Nat
      BY <2>3, <2>7
    <3>3. ASSUME NEW j \in 1 .. Len(r.chunks) PROVE Len(r.chunks[j]) <= ChunkLen
      <4>1. CASE j = Len(cs) + 1
        BY <2>3, <2>7, <4>1
      <4>2. CASE j # Len(cs) + 1
        <5>1. j \in 1 .. Len(cs)
          BY <3>2, <4>2
        <5>2. r.chunks[j] = cs[j]
          BY <2>3, <2>7, <5>1
        <5>3. QED
          BY <3>1, <5>1, <5>2
      <4>3. QED
        BY <4>1, <4>2
    <3>4. QED
      BY <3>2, <3>3
  <2>9. Letters(FlattenSeq(r.chunks)) \o Letters(r.text) = Letters(x)
    <3> DEFINE a == FlattenSeq(cs)
    <3>1. a \in Seq(Nat) /\ FlattenSeq(r.chunks) = a \o c
      <4> HIDE DEF cs
      <4>1. FlattenSeq(cs) \in Seq(Nat) /\ FlattenSeq(Append(cs, c)) = FlattenSeq(cs) \o c
        BY <2>7, FlattenAppend
      <4>2. QED
        BY <2>3, <4>1
    <3>2. Letters(a) \o Letters(s.text) = Letters(x)
      BY DEF SplitSoFar
    <3> HIDE DEF a, cs
    <3>3. Letters(a \o c) = Letters(a) \o Letters(c)
      BY <2>7, <3>1, LettersConcat, Zenon
    <3> DEFINE la == Letters(a)
               lc == Letters(c)
               lr == Letters(r.text)
    <3>4. la \in Seq(Nat) /\ lc \in Seq(Nat) /\ lr \in Seq(Nat)
      BY <2>7, <3>1, LettersType
    <3>5. Letters(FlattenSeq(r.chunks)) = la \o lc /\ la \o (lc \o lr) = Letters(x)
      BY <2>3, <3>1, <3>2, <3>3
    <3> HIDE DEF la, lc, lr
    <3>6. (la \o lc) \o lr = la \o (lc \o lr)
      BY <3>4, TextAssociative, Zenon
    <3>7. QED
      BY <3>5, <3>6 DEF lr
  <2>10. QED
    BY <2>1, <2>4, <2>6, <2>8, <2>9 DEF SplitSoFar
<1>3. QED
  BY <1>1, <1>2

\* The loop of splitTextChunks ends in such a state.
LEMMA SplitEnds ==
  ASSUME NEW x \in Seq(Char), ~(Len(x) <= ChunkLen)
  PROVE  \E s : SplitSoFar(s, x, Len(x)) /\ SplitTextChunks(x) = s.chunks
<1> DEFINE n == Len(x)
           first == [chunks |-> <<>>, text |-> x]
           g == [i \in 1 .. n |-> [s \in SplitState |-> Iterated(s)]]
<1>1. n \in Nat /\ n \in 0 .. n /\ 0 \in 0 .. n /\ \A i \in 1 .. n : i \in 0 .. n /\ i - 1 \in 0 .. n
  OBVIOUS
<1>2. \A s \in SplitState : Iterated(s) \in SplitState
  BY CutEffect DEF Iterated
<1>3. g \in Steps(n, SplitState) /\ first \in SplitState
  BY <1>2 DEF Steps, SplitState
<1>4. PICK f : Built(f, n, SplitState, first, g)
  <2> HIDE DEF g, n, first
  <2>1. QED
    BY <1>1, <1>3, StepByStep
<1>5. f \in [0 .. n -> SplitState] /\ f[0] = first /\ \A i \in 1 .. n : f[i] = Iterated(f[i - 1])
  <2>1. f \in [0 .. n -> SplitState] /\ f[0] = first
    BY <1>4 DEF Built
  <2>2. ASSUME NEW i \in 1 .. n PROVE f[i] = Iterated(f[i - 1])
    <3>1. f[i] = g[i][f[i - 1]] /\ f[i - 1] \in SplitState
      BY <1>1, <1>4, <2>1 DEF Built
    <3>2. QED
      BY <3>1
  <2>3. QED
    BY <2>1, <2>2
<1> HIDE DEF g
<1> DEFINE Is(h) == h = [i \in 0 .. Len(x) |->
                           IF i = 0 THEN [chunks |-> <<>>, text |-> x]
                           ELSE IF h[i - 1].text = <<>> THEN h[i - 1]
                           ELSE CutChunk(h[i - 1])]
           k == CHOOSE h : Is(h)
<1>6. Is(f)
  <2>1. \A i \in 0 .. n : i = 0 \/ i \in 1 .. n
    BY <1>1
  <2>2. \A i \in 0 .. n : f[i] = IF i = 0 THEN [chunks |-> <<>>, text |-> x]
                                 ELSE IF f[i - 1].text = <<>> THEN f[i - 1]
                                 ELSE CutChunk(f[i - 1])
    BY <1>5, <2>1 DEF Iterated
  <2>3. QED
    BY <1>5, <2>2
<1>7. SplitTextChunks(x) = k[n].chunks
  BY DEF SplitTextChunks
<1>8. Is(k)
  BY <1>6
<1> HIDE DEF k
<1>9. k[0] = first /\ \A i \in 1 .. n : k[i] = Iterated(k[i - 1])
  <2>1. k[0] = first
    BY <1>1, <1>8
  <2>2. ASSUME NEW i \in 1 .. n PROVE k[i] = Iterated(k[i - 1])
    <3>1. i \in 0 .. Len(x) /\ i # 0
      BY <1>1
    <3>2. k[i] = IF k[i - 1].text = <<>> THEN k[i - 1] ELSE CutChunk(k[i - 1])
      BY <1>8, <3>1
    <3>3. QED
      BY <3>2 DEF Iterated
  <2>3. QED
    BY <2>1, <2>2
<1> HIDE DEF Is
<1> DEFINE T == {i \in 0 .. n : SplitSoFar(k[i], x, i)}
<1>10. 0 \in T
  BY <1>1, <1>9, SplitStarts
<1>11. ASSUME NEW i \in 1 .. n, i - 1 \in T PROVE i \in T
  <2>1. SplitSoFar(k[i - 1], x, i - 1) /\ i \in 1 .. Len(x) /\ i \in 0 .. n
    BY <1>1, <1>11
  <2>2. SplitSoFar(Iterated(k[i - 1]), x, i)
    BY <2>1, SplitGoesOn
  <2>3. QED
    BY <1>9, <2>1, <2>2
<1>12. 0 .. n \subseteq T
  <2> HIDE DEF T, n
  <2>1. QED
    BY <1>1, <1>10, <1>11, UpTo
<1>13. SplitSoFar(k[n], x, n)
  BY <1>1, <1>12
<1>14. QED
  BY <1>7, <1>13

\* splitTextChunks returns chunks within the limit, at least one, that have
\* together the letters of the text.
LEMMA ChunksAddUp ==
  ASSUME NEW x \in Seq(Char)
  PROVE  LET cs == SplitTextChunks(x)
         IN /\ cs \in Seq(Seq(Char)) /\ cs # <<>>
            /\ \A j \in 1 .. Len(cs) : Len(cs[j]) <= ChunkLen
            /\ Letters(FlattenSeq(cs)) = Letters(x)
<1>1. CASE Len(x) <= ChunkLen
  <2>1. SplitTextChunks(x) = <<x>>
    BY <1>1 DEF SplitTextChunks
  <2>2. FlattenSeq(<<x>>) = x
    BY FlattenOne, TextsAreNumbers
  <2>3. QED
    BY <1>1, <2>1, <2>2
<1>2. CASE ~(Len(x) <= ChunkLen)
  <2>1. PICK s : SplitSoFar(s, x, Len(x)) /\ SplitTextChunks(x) = s.chunks
    BY <1>2, SplitEnds
  <2>2. Len(x) \in Nat /\ Len(x) # 0 /\ s \in SplitState
    BY <1>2, <2>1, DeliveryAssumption DEF SplitSoFar
  <2>3. s.text = <<>> /\ s.chunks # <<>>
    <3>1. s.text \in Seq(Char)
      BY <2>2 DEF SplitState
    <3>2. s.text = <<>> \/ Len(s.text) <= 0
      BY <2>1, <2>2 DEF SplitSoFar
    <3>3. QED
      BY <2>1, <2>2, <3>1, <3>2 DEF SplitSoFar
  <2>4. s.chunks \in Seq(Seq(Char)) /\ s.chunks \in Seq(Seq(Nat))
    BY <2>2, TextsAreNumbers DEF SplitState
  <2>5. FlattenSeq(s.chunks) \in Seq(Nat)
    <3>1. <<>> \in Seq(Nat)
      OBVIOUS
    <3>2. QED
      BY <2>4, <3>1, FlattenAppend
  <2>6. Letters(FlattenSeq(s.chunks)) \o <<>> = Letters(FlattenSeq(s.chunks))
    BY <2>5, LettersType, ConcatEmptySeq
  <2>7. Letters(FlattenSeq(s.chunks)) \o <<>> = Letters(x)
    BY <2>1, <2>3, LettersEmpty DEF SplitSoFar
  <2>8. QED
    BY <2>1, <2>3, <2>4, <2>6, <2>7 DEF SplitSoFar
<1>3. QED
  BY <1>1, <1>2

\* What a client posts for a text adds up to it, the returned image apart.
LEMMA PostsAddUp ==
  ASSUME NEW channel, NEW x \in Seq(Char), NEW cs, cs = Posts(channel, x)
  PROVE  /\ cs \in Seq(Seq(Nat)) /\ Len(cs) >= 1
         /\ Letters(FlattenSeq(TextChunks(cs))) = Letters(x)
         /\ channel = "whatsapp" =>
               \A i \in 1 .. Len(TextChunks(cs)) : Len(TextChunks(cs)[i]) <= ChunkLen
<1>1. CASE channel # "whatsapp"
  <2>1. cs = <<x>>
    BY <1>1 DEF Posts
  <2>2. x \in Seq(Nat) /\ x # Picture
    BY TextsAreNumbers, PictureIsNoText
  <2>3. cs \in Seq(Seq(Nat)) /\ Len(cs) = 1 /\ cs[Len(cs)] # Picture
    BY <2>1, <2>2
  <2>4. FlattenSeq(cs) = x
    BY <2>1, <2>2, FlattenOne
  <2>5. QED
    BY <1>1, <2>3, <2>4 DEF TextChunks
<1>2. CASE channel = "whatsapp"
  <2> DEFINE sp == SplitTextChunks(x)
             n == Len(sp)
  <2>1. /\ sp \in Seq(Seq(Char)) /\ sp # <<>>
        /\ \A j \in 1 .. n : Len(sp[j]) <= ChunkLen
        /\ Letters(FlattenSeq(sp)) = Letters(x)
    BY ChunksAddUp
  <2>2. sp \in Seq(Seq(Nat)) /\ n \in Nat /\ n >= 1
    BY <2>1, TextsAreNumbers
  <2>3. cs = sp \o <<Picture>> \/ cs = sp \o <<>>
    BY <1>2 DEF Posts
  <2> HIDE DEF sp
  <2>4. CASE cs = sp \o <<Picture>>
    <3>1. Picture \in Seq(Nat)
      BY DeliveryAssumption DEF Picture
    <3>2. cs \in Seq(Seq(Nat)) /\ Len(cs) = n + 1 /\ cs[Len(cs)] = Picture
      <4> DEFINE e == Picture
      <4>1. e \in Seq(Nat) /\ cs = sp \o <<e>>
        BY <2>4, <3>1
      <4> HIDE DEF e
      <4>2. cs = Append(sp, e)
        BY <2>2, <4>1, AppendIsConcat
      <4>3. cs \in Seq(Seq(Nat)) /\ Len(cs) = n + 1 /\ cs[Len(cs)] = e
        BY <2>2, <4>1, <4>2
      <4>4. QED
        BY <4>3 DEF e
    <3>3. SubSeq(cs, 1, Len(cs) - 1) = sp
      <4> DEFINE e == <<Picture>>
      <4>1. e \in Seq(Seq(Nat))
        BY <3>1
      <4>2. SubSeq(sp \o e, 1, Len(sp)) = sp
        <5> HIDE DEF e
        <5>1. QED
          BY <2>2, <4>1, SubSeqOfConcat1
      <4>3. Len(cs) - 1 = Len(sp)
        BY <2>2, <3>2
      <4>4. QED
        BY <2>4, <4>2, <4>3
    <3>4. TextChunks(cs) = sp
      BY <3>2, <3>3 DEF TextChunks
    <3>5. QED
      BY <2>1, <2>2, <3>2, <3>4
  <2>5. CASE cs = sp \o <<>>
    <3>1. cs = sp
      BY <2>2, <2>5, ConcatEmptySeq
    <3>2. sp[n] # Picture
      <4>1. sp[n] \in Seq(Char)
        BY <2>1, <2>2
      <4>2. QED
        BY <4>1, PictureIsNoText
    <3>3. TextChunks(cs) = sp
      BY <3>1, <3>2 DEF TextChunks
    <3>4. QED
      BY <2>1, <2>2, <3>1, <3>3
  <2>6. QED
    BY <2>3, <2>4, <2>5
<1>3. QED
  BY <1>1, <1>2

(***************************************************************************)
(* Delivery: answers.                                                      *)
(***************************************************************************)

Channel == {"slack", "whatsapp", "mqtt", "rabbitmq", "broadcast"}
\* A delivery job of deliverWithRetry.
JobState == [to : Seq(Channel), text : Seq(Char), chunks : Seq(Seq(Nat)), next : Nat, attempt : Nat,
             failed : BOOLEAN]

\* The types of what an answer passes through.
AnswerTypes ==
    /\ via \in Channel
    /\ turn \in Char /\ stage \in {"idle", "running", "delivering"}
    /\ said \in Seq(Char) /\ sent \in 0 .. Len(said) /\ acc \in Seq(Char)
    /\ job \in JobState /\ view \in Seq(Nat)

\* The accumulator has what was sent of this turn's answer, unless something
\* met the turn; what is left in it between turns taints the next one.
AccumulatedIsSaid ==
    /\ via = "slack" => acc = <<>>
    /\ stage = "idle" /\ acc # <<>> => turn + 1 \in disturbed
    /\ stage = "running" /\ turn \notin disturbed /\ via # "slack" => acc = SubSeq(said, 1, sent)

\* What a client posts, by what it depends on.
PostsGiven(c, x, img, v) ==
    IF c # "whatsapp" THEN <<x>>
    ELSE SplitTextChunks(x) \o (IF img /\ v = "whatsapp" THEN <<Picture>> ELSE <<>>)

\* A delivery under way, or the last one, is of this turn's answer.
Sending == stage = "delivering" \/ ended = "delivered"
JobIsAnswer ==
    Sending =>
        /\ job.to # <<>> /\ job.chunks = PostsGiven(Head(job.to), job.text, image, via)
        /\ turn \notin disturbed => job.text = said

\* In an attempt without a failure the user has seen the posts up to the next
\* one, in order.
InOrder(v) == \A i \in 1 .. Len(v) - 1 : v[i + 1] \in {v[i], v[i] + 1}
SeenUpTo(v, n) ==
    /\ InOrder(v)
    /\ IF n = 0 THEN v = <<>> ELSE v # <<>> /\ v[1] = 1 /\ v[Len(v)] = n
ViewFollows ==
    Sending /\ ~job.failed => job.next \in 1 .. Len(job.chunks) + 1 /\ SeenUpTo(view, job.next - 1)

\* A delivery counts as delivered when its last attempt made every post.
DeliveredIsOver == ended = "delivered" => stage = "idle" /\ ~job.failed /\ job.next > Len(job.chunks)

AnswerIInv ==
    /\ AnswerTypes /\ LostContextsAreNoted /\ AccumulatedIsSaid /\ JobIsAnswer /\ ViewFollows
    /\ DeliveredIsOver

\* One more post seen, once or twice.
LEMMA SeesNext ==
  ASSUME NEW v \in Seq(Nat), NEW n \in Nat, SeenUpTo(v, n)
  PROVE  SeenUpTo(Append(v, n + 1), n + 1) /\ SeenUpTo(v \o <<n + 1, n + 1>>, n + 1)
<1>1. Len(v) \in Nat /\ n + 1 # 0 /\ n + 1 \in Nat
  OBVIOUS
<1>2. n = 0 => Len(v) = 0
  BY DEF SeenUpTo
<1>3. n # 0 => Len(v) > 0 /\ v[1] = 1 /\ v[Len(v)] = n
  BY <1>1 DEF SeenUpTo
<1>4. \A i \in 1 .. Len(v) - 1 : v[i + 1] \in {v[i], v[i] + 1}
  BY DEF SeenUpTo, InOrder
<1>5. SeenUpTo(Append(v, n + 1), n + 1)
  <2> DEFINE w == Append(v, n + 1)
  <2>1. /\ w \in Seq(Nat) /\ Len(w) = Len(v) + 1 /\ w[Len(v) + 1] = n + 1
        /\ \A i \in 1 .. Len(v) : w[i] = v[i]
    BY <1>1
  <2> HIDE DEF w
  <2>2. w # <<>> /\ w[Len(w)] = n + 1
    BY <1>1, <2>1
  <2>3. w[1] = 1
    <3>1. CASE n = 0
      BY <1>2, <2>1, <3>1
    <3>2. CASE n # 0
      BY <1>1, <1>3, <2>1, <3>2
    <3>3. QED
      BY <3>1, <3>2
  <2>4. ASSUME NEW i \in 1 .. Len(w) - 1 PROVE w[i + 1] \in {w[i], w[i] + 1}
    <3>1. i \in 1 .. Len(v) /\ i \in Nat
      BY <1>1, <2>1
    <3>2. CASE i = Len(v)
      <4>1. n # 0
        BY <1>2, <3>1
      <4>2. w[i] = n /\ w[i + 1] = n + 1
        BY <1>3, <2>1, <3>1, <3>2, <4>1
      <4>3. QED
        BY <4>2
    <3>3. CASE i # Len(v)
      <4>1. i \in 1 .. Len(v) - 1 /\ i + 1 \in 1 .. Len(v)
        BY <1>1, <3>1, <3>3
      <4>2. QED
        BY <1>4, <2>1, <3>1, <4>1
    <3>4. QED
      BY <3>2, <3>3
  <2>5. QED
    BY <1>1, <2>2, <2>3, <2>4 DEF SeenUpTo, InOrder, w
<1>6. SeenUpTo(v \o <<n + 1, n + 1>>, n + 1)
  <2> DEFINE w == v \o <<n + 1, n + 1>>
  <2>1. /\ w \in Seq(Nat) /\ Len(w) = Len(v) + 2 /\ w[Len(v) + 1] = n + 1 /\ w[Len(v) + 2] = n + 1
        /\ \A i \in 1 .. Len(v) : w[i] = v[i]
    BY <1>1
  <2> HIDE DEF w
  <2>2. w # <<>> /\ w[Len(w)] = n + 1
    BY <1>1, <2>1
  <2>3. w[1] = 1
    <3>1. CASE n = 0
      BY <1>2, <2>1, <3>1
    <3>2. CASE n # 0
      BY <1>1, <1>3, <2>1, <3>2
    <3>3. QED
      BY <3>1, <3>2
  <2>4. ASSUME NEW i \in 1 .. Len(w) - 1 PROVE w[i + 1] \in {w[i], w[i] + 1}
    <3>1. i \in 1 .. Len(v) + 1 /\ i \in Nat
      BY <1>1, <2>1
    <3>2. CASE i = Len(v) + 1
      BY <1>1, <2>1, <3>2
    <3>3. CASE i = Len(v)
      <4>1. n # 0 /\ i \in 1 .. Len(v)
        BY <1>1, <1>2, <3>1, <3>3
      <4>2. w[i] = n /\ w[i + 1] = n + 1
        BY <1>3, <2>1, <3>3, <4>1
      <4>3. QED
        BY <4>2
    <3>4. CASE i # Len(v) /\ i # Len(v) + 1
      <4>1. i \in 1 .. Len(v) - 1 /\ i + 1 \in 1 .. Len(v) /\ i \in 1 .. Len(v)
        BY <1>1, <3>1, <3>4
      <4>2. QED
        BY <1>4, <2>1, <4>1
    <3>5. QED
      BY <3>2, <3>3, <3>4
  <2>5. QED
    BY <1>1, <2>2, <2>3, <2>4 DEF SeenUpTo, InOrder, w
<1>7. QED
  BY <1>5, <1>6

\* A delivery that begins has shown nothing.
LEMMA NothingSeen ==
  ASSUME job' \in JobState, job'.next = 1, view' = <<>>
  PROVE  ViewFollows'
<1>1. Len(job'.chunks) \in Nat /\ job'.next - 1 = 0 /\ Len(view') = 0
  BY DEF JobState
<1>2. SeenUpTo(view', 0)
  BY <1>1 DEF SeenUpTo, InOrder
<1>3. QED
  BY <1>1, <1>2 DEF ViewFollows

\* Of more than one something is left after the first.
LEMMA MoreAfterHead ==
  ASSUME NEW S, NEW q \in Seq(S), Len(q) > 1
  PROVE  Tail(q) \in Seq(S) /\ Tail(q) # <<>>
<1>1. q # <<>> /\ Len(q) \in Nat
  OBVIOUS
<1>2. Tail(q) \in Seq(S) /\ Len(Tail(q)) = Len(q) - 1
  BY <1>1, HeadTailProperties
<1> DEFINE t == Tail(q)
<1>3. Len(t) # 0
  BY <1>1, <1>2
<1> HIDE DEF t
<1>4. t # <<>>
  BY <1>3
<1>5. QED
  BY <1>2, <1>4 DEF t

\* The job that deliverWithRetry begins.
LEMMA DeliverEffect ==
  ASSUME NEW to \in Seq(Channel), to # <<>>, NEW x \in Seq(Char), Deliver(to, x), UNCHANGED <<image, via>>
  PROVE  /\ job' \in JobState /\ job'.to = to /\ job'.text = x /\ ~job'.failed /\ job'.next = 1
         /\ job'.chunks = PostsGiven(Head(to), x, image, via)
         /\ view' = <<>> /\ stage' = "delivering"
<1> DEFINE cs == Posts(Head(to), x)
<1>1. cs \in Seq(Seq(Nat))
  BY PostsAddUp
<1>2. job' = [NoJob EXCEPT !.to = to, !.text = x, !.chunks = cs] /\ view' = <<>> /\ stage' = "delivering"
  BY DEF Deliver
<1>3. cs = PostsGiven(Head(to), x, image, via)
  BY DEF Posts, PostsGiven
<1> HIDE DEF cs
<1>4. /\ job'.to = to /\ job'.text = x /\ job'.chunks = cs /\ job'.next = 1 /\ job'.attempt = 1
      /\ job'.failed = FALSE /\ job' \in JobState
  BY <1>1, <1>2 DEF NoJob, JobState
<1>5. QED
  BY <1>2, <1>3, <1>4

\* What an agent says in turn t is a text.
LEMMA TurnTexts ==
  ASSUME NEW t \in Char, NEW s \in Texts(t)
  PROVE  s \in Seq(Char) /\ Len(s) \in Nat
<1>1. PICK n \in 1 .. MaxText : s \in [1 .. n -> {0, t}]
  BY DEF Texts
<1>2. {0, t} \subseteq Char /\ n \in Nat
  BY DeliveryAssumption DEF Char
<1>3. s \in [1 .. n -> Char]
  BY <1>1, <1>2
<1>4. QED
  BY <1>2, <1>3

\* A call that succeeds, one that fails, and the beginning of a new attempt.
LEMMA PostEffects ==
  ASSUME job \in JobState, view \in Seq(Nat)
  PROVE  /\ PostOK => /\ job' \in JobState /\ view' \in Seq(Nat) /\ job'.next = job.next + 1
                      /\ job'.to = job.to /\ job'.text = job.text /\ job'.chunks = job.chunks
                      /\ job'.failed = job.failed
                      /\ job.next <= Len(job.chunks)
                      /\ view' = Append(view, job.next) \/ view' = view \o <<job.next, job.next>>
         /\ PostFails => /\ job' \in JobState /\ view' \in Seq(Nat) /\ job'.failed
                         /\ job'.to = job.to /\ job'.text = job.text /\ job'.chunks = job.chunks
         /\ Retry => /\ job' \in JobState /\ view' = <<>> /\ job'.next = 1
                     /\ job'.to = job.to /\ job'.text = job.text /\ job'.chunks = job.chunks
<1>1. job.next \in Nat /\ Len(job.chunks) \in Nat /\ job.attempt \in Nat
  BY DEF JobState
<1>n. /\ Append(view, job.next) \in Seq(Nat) /\ view \in Seq(Nat)
      /\ <<job.next, job.next>> \in Seq(Nat)
  <2> DEFINE n == job.next
  <2>1. n \in Nat
    BY <1>1
  <2> HIDE DEF n
  <2>2. Append(view, n) \in Seq(Nat) /\ <<n, n>> \in Seq(Nat)
    BY <2>1
  <2>3. QED
    BY <2>2 DEF n
<1>2. ASSUME PostOK
      PROVE  /\ job' \in JobState /\ view' \in Seq(Nat) /\ job'.next = job.next + 1
             /\ job'.to = job.to /\ job'.text = job.text /\ job'.chunks = job.chunks
             /\ job'.failed = job.failed
             /\ job.next <= Len(job.chunks)
             /\ view' = Append(view, job.next) \/ view' = view \o <<job.next, job.next>>
  <2>1. /\ job' = [job EXCEPT !.next = job.next + 1] /\ job.next <= Len(job.chunks)
        /\ view' = Append(view, job.next) \/ view' = view \o <<job.next, job.next>>
    BY <1>2 DEF PostOK
  <2>2. view' \in Seq(Nat)
    <3>1. Append(view, job.next) \in Seq(Nat) /\ <<job.next, job.next>> \in Seq(Nat)
      BY <1>n
    <3>2. view \o <<job.next, job.next>> \in Seq(Nat)
      BY <3>1, ConcatProperties
    <3>3. QED
      BY <2>1, <3>1, <3>2
  <2>3. job.next + 1 \in Nat
    BY <1>1
  <2>4. QED
    BY <2>1, <2>2, <2>3 DEF JobState
<1>3. ASSUME PostFails
      PROVE  /\ job' \in JobState /\ view' \in Seq(Nat) /\ job'.failed
             /\ job'.to = job.to /\ job'.text = job.text /\ job'.chunks = job.chunks
  <2>1. PICK n \in {Len(job.chunks), Len(job.chunks) + 1} : job' = [job EXCEPT !.failed = TRUE, !.next = n]
    BY <1>3 DEF PostFails
  <2>2. n \in Nat
    BY <1>1
  <2>3. view' \in {view, Append(view, job.next)}
    BY <1>3 DEF PostFails
  <2>4. view' \in Seq(Nat)
    BY <1>n, <2>3
  <2>5. QED
    BY <2>1, <2>2, <2>4 DEF JobState
<1>4. ASSUME Retry
      PROVE  /\ job' \in JobState /\ view' = <<>> /\ job'.next = 1
             /\ job'.to = job.to /\ job'.text = job.text /\ job'.chunks = job.chunks
  <2>1. job' = [job EXCEPT !.attempt = job.attempt + 1, !.next = 1, !.failed = FALSE] /\ view' = <<>>
    BY <1>4 DEF Retry
  <2>2. job.attempt + 1 \in Nat
    BY <1>1
  <2>3. QED
    BY <2>1, <2>2 DEF JobState
<1>5. QED
  BY <1>2, <1>3, <1>4

\* What a delivery that begins does to the invariant.
LEMMA BeginsDelivery ==
  ASSUME AnswerIInv, NEW to \in Seq(Channel), to # <<>>, NEW x \in Seq(Char), Deliver(to, x),
         UNCHANGED <<image, via, turn>>, acc' = acc, ended' = ended, stage # "idle",
         said' \in Seq(Char), sent' \in 0 .. Len(said'),
         turn \notin disturbed' => x = said'
  PROVE  AnswerIInv'
<1>1. /\ job' \in JobState /\ job'.to = to /\ job'.text = x /\ ~job'.failed /\ job'.next = 1
      /\ job'.chunks = PostsGiven(Head(to), x, image, via) /\ view' = <<>> /\ stage' = "delivering"
  BY DeliverEffect
<1>2. AnswerTypes'
  BY <1>1 DEF AnswerIInv, AnswerTypes
<1>3. LostContextsAreNoted' /\ AccumulatedIsSaid'
  BY <1>1 DEF AnswerIInv, LostContextsAreNoted, AccumulatedIsSaid
<1>4. JobIsAnswer'
  <2>1. to = job'.to /\ x = job'.text /\ image' = image /\ via' = via /\ turn' = turn
    BY <1>1
  <2>2. QED
    BY <1>1, <2>1 DEF JobIsAnswer
<1>5. ViewFollows'
  BY <1>1, NothingSeen
<1>6. DeliveredIsOver'
  BY DEF AnswerIInv, DeliveredIsOver
<1>7. QED
  BY <1>2, <1>3, <1>4, <1>5, <1>6 DEF AnswerIInv

\* Every step keeps the inductive invariant of the answers.
LEMMA AnswerStep == AnswerIInv /\ [DeliveryNext]_deliveryVars => AnswerIInv'
<1> SUFFICES ASSUME AnswerIInv, [DeliveryNext]_deliveryVars PROVE AnswerIInv'
  OBVIOUS
<1>0. MaxTurns \in Nat /\ turn \in Nat /\ turn \in Char
  BY DeliveryAssumption DEF AnswerIInv, AnswerTypes, Char
<1>t. AnswerTypes /\ LostContextsAreNoted /\ AccumulatedIsSaid /\ JobIsAnswer /\ ViewFollows /\ DeliveredIsOver
  BY DEF AnswerIInv
<1>j. job \in JobState /\ view \in Seq(Nat) /\ job.next \in Nat /\ Len(job.chunks) \in Nat
  BY <1>t DEF AnswerTypes, JobState
<1>1. CASE TurnStarts
  <2>1. /\ turn' = turn + 1 /\ turn' \in Char /\ stage' = "running" /\ sent' = 0 /\ ended' = "none"
        /\ said' \in Texts(turn') /\ job' = NoJob /\ view' = <<>> /\ UNCHANGED <<via, acc>>
        /\ disturbed \subseteq disturbed' /\ (~known' => turn' \in disturbed') /\ stage = "idle"
    BY <1>0, <1>1 DEF TurnStarts, Char
  <2>2. said' \in Seq(Char) /\ Len(said') \in Nat
    BY <2>1, TurnTexts
  <2>3. NoJob \in JobState
    BY DEF NoJob, JobState
  <2>4. SubSeq(said', 1, sent') = <<>>
    BY <2>1, SubSeqEmpty
  <2>5. AnswerTypes'
    BY <1>t, <2>1, <2>2, <2>3 DEF AnswerTypes
  <2>6. AccumulatedIsSaid'
    BY <1>t, <2>1, <2>4 DEF AccumulatedIsSaid
  <2>7. QED
    BY <2>1, <2>5, <2>6 DEF AnswerIInv, LostContextsAreNoted, JobIsAnswer, ViewFollows, DeliveredIsOver, Sending
<1>2. CASE ContextGone \/ MaybeSendTypingIndicator \/ NoContext \/ EvictStaleAccumulators
  <2>1. /\ UNCHANGED <<via, turn, said, sent, image, job, view>> /\ disturbed \subseteq disturbed'
        /\ acc' \in {acc, <<>>}
    BY <1>2 DEF ContextGone, MaybeSendTypingIndicator, NoContext, EvictStaleAccumulators, Disturb
  <2>2. \/ stage' = stage /\ ended' = ended
        \/ stage = "running" /\ stage' = "idle" /\ ended' = "dropped"
    BY <1>2 DEF ContextGone, MaybeSendTypingIndicator, NoContext, EvictStaleAccumulators
  <2>3. LostContextsAreNoted'
    BY <1>2, <1>t DEF ContextGone, MaybeSendTypingIndicator, NoContext, EvictStaleAccumulators, Disturb,
       LostContextsAreNoted
  <2>4. AnswerTypes'
    <3>1. acc' \in Seq(Char)
      <4>1. acc \in Seq(Char) /\ (acc' = acc \/ acc' = <<>>)
        BY <1>t, <2>1 DEF AnswerTypes
      <4>2. <<>> \in Seq(Char)
        OBVIOUS
      <4>3. QED
        BY <4>1, <4>2, Zenon
    <3>2. QED
      BY <1>t, <2>1, <2>2, <3>1 DEF AnswerTypes
  <2>5. AccumulatedIsSaid'
    BY <1>2, <1>t, <2>1 DEF ContextGone, MaybeSendTypingIndicator, NoContext, EvictStaleAccumulators, Disturb,
       AccumulatedIsSaid
  <2>6. JobIsAnswer'
    <3>1. Sending' => Sending
      BY <2>2 DEF Sending
    <3>2. QED
      BY <1>t, <2>1, <3>1 DEF JobIsAnswer
  <2>7. ViewFollows'
    BY <1>t, <2>1, <2>2 DEF ViewFollows, Sending
  <2>8. DeliveredIsOver'
    BY <1>t, <2>1, <2>2 DEF DeliveredIsOver
  <2>9. QED
    BY <2>3, <2>4, <2>5, <2>6, <2>7, <2>8 DEF AnswerIInv
<1>3. CASE HandleDelta
  <2>1. /\ stage = "running" /\ sent < Len(said) /\ sent' = sent + 1
        /\ acc' = IF known /\ via # "slack" THEN Append(acc, said[sent']) ELSE acc
        /\ UNCHANGED <<via, turn, stage, said, known, image, job, view, ended, disturbed>>
    BY <1>3 DEF HandleDelta
  <2>2. said \in Seq(Char) /\ sent \in 0 .. Len(said) /\ acc \in Seq(Char)
    BY <1>t DEF AnswerTypes
  <2>3. sent' \in 1 .. Len(said) /\ said[sent'] \in Char /\ 1 \in 1 .. Len(said) /\ sent' - 1 = sent
    BY <2>1, <2>2
  <2>4. acc' \in Seq(Char)
    BY <2>1, <2>2, <2>3
  <2>5. ASSUME turn \notin disturbed, via # "slack" PROVE acc' = SubSeq(said, 1, sent')
    <3>1. known /\ acc = SubSeq(said, 1, sent)
      BY <1>t, <2>1, <2>5 DEF LostContextsAreNoted, AccumulatedIsSaid
    <3>2. SubSeq(said, 1, sent') = SubSeq(said, 1, sent' - 1) \o <<said[sent']>>
      BY <2>2, <2>3, SubSeqRecursiveSecond
    <3>3. Append(acc, said[sent']) = acc \o <<said[sent']>>
      BY <2>2, <2>3, AppendIsConcat
    <3>4. acc' = Append(acc, said[sent'])
      BY <2>1, <2>5, <3>1
    <3>5. acc' = SubSeq(said, 1, sent' - 1) \o <<said[sent']>>
      BY <2>3, <3>1, <3>3, <3>4
    <3>6. QED
      BY <3>2, <3>5
  <2>6. AnswerTypes'
    BY <1>t, <2>1, <2>3, <2>4 DEF AnswerTypes
  <2>7. AccumulatedIsSaid'
    BY <1>t, <2>1, <2>5 DEF AccumulatedIsSaid
  <2>8. LostContextsAreNoted' /\ DeliveredIsOver' /\ ViewFollows'
    BY <1>t, <2>1 DEF LostContextsAreNoted, DeliveredIsOver, ViewFollows, Sending
  <2>9. JobIsAnswer'
    BY <1>t, <2>1 DEF JobIsAnswer, Sending, DeliveredIsOver
  <2>10. QED
    BY <2>6, <2>7, <2>8, <2>9 DEF AnswerIInv
<1>4. CASE HandleDone
  <2> DEFINE to == IF via = "broadcast" THEN <<"whatsapp", "slack">> ELSE <<via>>
             x == AssembleText
  <2>1. /\ stage = "running" /\ known /\ sent \in {0, Len(said)} /\ Deliver(to, x)
        /\ UNCHANGED <<via, turn, said, sent, image, acc, ended>> /\ disturbed \subseteq disturbed'
    BY <1>4 DEF HandleDone, ClearTypingSent, Disturb
  <2>2. said \in Seq(Char) /\ sent \in 0 .. Len(said) /\ acc \in Seq(Char) /\ via \in Channel
    BY <1>t DEF AnswerTypes
  <2>3. x \in Seq(Char)
    BY <2>2 DEF AssembleText
  <2>4. to \in Seq(Channel) /\ to # <<>>
    <3>1. {"whatsapp", "slack"} \subseteq Channel
      BY DEF Channel
    <3>2. <<via>> \in Seq(Channel) /\ <<via>> # <<>>
      BY <2>2
    <3>3. <<"whatsapp", "slack">> \in Seq(Channel) /\ <<"whatsapp", "slack">> # <<>>
      BY <3>1
    <3>4. QED
      BY <3>2, <3>3
  <2>5. turn \notin disturbed' => x = said
    <3>1. SubSeq(said, 1, 0) = <<>> /\ SubSeq(said, 1, Len(said)) = said
      BY <2>2, SubSeqEmpty, SubSeqFull
    <3>2. turn \notin disturbed' /\ via # "slack" => acc = SubSeq(said, 1, sent)
      BY <1>t, <2>1 DEF AccumulatedIsSaid
    <3>3. QED
      BY <2>1, <3>1, <3>2 DEF AssembleText
  <2> HIDE DEF to, x
  <2>6. said' \in Seq(Char) /\ sent' \in 0 .. Len(said')
    BY <2>1, <2>2
  <2>7. QED
    BY <2>1, <2>3, <2>4, <2>5, <2>6, BeginsDelivery
<1>5. CASE HandleError
  <2>1. CASE via \in {"slack", "broadcast"}
    <3>1. /\ stage = "running" /\ stage' = "idle" /\ ended' = "ignored" /\ acc' \in {acc, <<>>}
          /\ acc' = (IF via = "slack" THEN acc ELSE <<>>)
          /\ UNCHANGED <<via, turn, said, sent, image, job, view>>
      BY <1>5, <2>1 DEF HandleError
    <3>2. AnswerTypes'
      BY <1>t, <3>1 DEF AnswerTypes
    <3>3. AccumulatedIsSaid'
      BY <1>t, <3>1 DEF AccumulatedIsSaid
    <3>4. LostContextsAreNoted' /\ JobIsAnswer' /\ ViewFollows' /\ DeliveredIsOver'
      BY <3>1 DEF LostContextsAreNoted, JobIsAnswer, ViewFollows, DeliveredIsOver, Sending
    <3>5. QED
      BY <3>2, <3>3, <3>4 DEF AnswerIInv
  <2>2. CASE via \notin {"slack", "broadcast"}
    <3> DEFINE to == <<via>>
               x == <<turn>>
    <3>1. /\ stage = "running" /\ known /\ Deliver(to, x) /\ said' = x /\ sent' = 0
          /\ UNCHANGED <<via, turn, image, acc, ended>>
      BY <1>5, <2>2 DEF HandleError
    <3>2. via \in Channel
      BY <1>t DEF AnswerTypes
    <3>3. x \in Seq(Char) /\ to \in Seq(Channel) /\ to # <<>> /\ Len(x) = 1
      <4>1. x \in Seq(Char) /\ Len(x) = 1
        BY <1>0
      <4>2. to \in Seq(Channel) /\ to # <<>>
        BY <3>2
      <4>3. QED
        BY <4>1, <4>2
    <3> HIDE DEF to, x
    <3>4. said' \in Seq(Char) /\ sent' \in 0 .. Len(said')
      BY <3>1, <3>3
    <3>5. QED
      BY <3>1, <3>3, <3>4, BeginsDelivery
  <2>3. QED
    BY <2>1, <2>2
<1>6. CASE PostOK \/ PostFails \/ Retry
  <2>1. /\ stage = "delivering"
        /\ UNCHANGED <<via, turn, stage, said, sent, known, image, acc, ended, disturbed>>
    BY <1>6 DEF PostOK, PostFails, Retry, AttemptOver
  <2>2. /\ job' \in JobState /\ view' \in Seq(Nat)
        /\ job'.to = job.to /\ job'.text = job.text /\ job'.chunks = job.chunks
    <3>1. <<>> \in Seq(Nat)
      OBVIOUS
    <3>2. QED
      BY <1>6, <1>j, <3>1, PostEffects
  <2>3. AnswerTypes'
    BY <1>t, <2>1, <2>2 DEF AnswerTypes
  <2>4. LostContextsAreNoted' /\ AccumulatedIsSaid'
    BY <1>t, <2>1 DEF LostContextsAreNoted, AccumulatedIsSaid
  <2>5. JobIsAnswer'
    BY <1>t, <2>1, <2>2 DEF JobIsAnswer, Sending
  <2>6. ViewFollows'
    <3>1. CASE PostFails
      BY <1>j, <3>1, PostEffects DEF ViewFollows
    <3>2. CASE Retry
      BY <1>j, <3>2, PostEffects, NothingSeen
    <3>3. CASE PostOK
      <4> DEFINE n == job.next - 1
      <4>1. /\ job'.next = job.next + 1 /\ job'.failed = job.failed /\ job.next <= Len(job.chunks)
            /\ view' = Append(view, job.next) \/ view' = view \o <<job.next, job.next>>
        BY <1>j, <3>3, PostEffects
      <4>2. ASSUME ~job.failed
            PROVE  job'.next \in 1 .. Len(job'.chunks) + 1 /\ SeenUpTo(view', job'.next - 1)
        <5>1. SeenUpTo(view, n) /\ job.next \in 1 .. Len(job.chunks) + 1
          BY <1>t, <2>1, <4>2 DEF ViewFollows, Sending
        <5>2. n \in Nat /\ n + 1 = job.next /\ job'.next - 1 = n + 1
          BY <1>j, <4>1, <5>1
        <5> HIDE DEF n
        <5>3. SeenUpTo(Append(view, n + 1), n + 1) /\ SeenUpTo(view \o <<n + 1, n + 1>>, n + 1)
          BY <1>j, <5>1, <5>2, SeesNext
        <5>4. SeenUpTo(view', n + 1)
          BY <4>1, <5>2, <5>3
        <5>5. QED
          BY <1>j, <2>2, <4>1, <5>2, <5>4
      <4>3. QED
        BY <4>1, <4>2 DEF ViewFollows
    <3>4. QED
      BY <1>6, <3>1, <3>2, <3>3
  <2>7. DeliveredIsOver'
    BY <1>t, <2>1 DEF DeliveredIsOver
  <2>8. QED
    BY <2>3, <2>4, <2>5, <2>6, <2>7 DEF AnswerIInv
<1>7. CASE DeliveryEnds
  <2>1. /\ stage = "delivering" /\ job.next > Len(job.chunks)
        /\ UNCHANGED <<via, turn, said, sent, known, image, disturbed>>
    BY <1>7 DEF DeliveryEnds, AttemptOver
  <2>2. CASE Len(job.to) > 1
    <3> DEFINE to == Tail(job.to)
               x == job.text
    <3>1. Deliver(to, x) /\ UNCHANGED <<acc, ended>>
      BY <1>7, <2>2 DEF DeliveryEnds
    <3>2. x \in Seq(Char) /\ job.to \in Seq(Channel)
      BY <1>j DEF JobState
    <3>3. to \in Seq(Channel) /\ to # <<>>
      <4> DEFINE all == job.to
      <4>1. all \in Seq(Channel) /\ Len(all) > 1
        BY <2>2, <3>2
      <4> HIDE DEF all
      <4>2. Tail(all) \in Seq(Channel) /\ Tail(all) # <<>>
        BY <4>1, MoreAfterHead
      <4>3. QED
        BY <4>2 DEF all
    <3>4. turn \notin disturbed' => x = said'
      BY <1>t, <2>1 DEF JobIsAnswer, Sending
    <3>5. said' \in Seq(Char) /\ sent' \in 0 .. Len(said')
      BY <1>t, <2>1 DEF AnswerTypes
    <3> HIDE DEF to, x
    <3>6. QED
      BY <2>1, <3>1, <3>2, <3>3, <3>4, <3>5, BeginsDelivery
  <2>3. CASE ~(Len(job.to) > 1)
    <3>1. /\ stage' = "idle" /\ ended' = IF job.failed THEN "given up" ELSE "delivered"
          /\ acc' = IF via = "slack" THEN acc ELSE <<>>
          /\ UNCHANGED <<job, view>>
      BY <1>7, <2>3 DEF DeliveryEnds
    <3>2. AnswerTypes'
      <4>1. acc' \in Seq(Char)
        <5>1. acc \in Seq(Char) /\ (acc' = acc \/ acc' = <<>>)
          BY <1>t, <3>1 DEF AnswerTypes
        <5>2. <<>> \in Seq(Char)
          OBVIOUS
        <5>3. QED
          BY <5>1, <5>2, Zenon
      <4>2. QED
        BY <1>t, <2>1, <3>1, <4>1 DEF AnswerTypes
    <3>3. LostContextsAreNoted' /\ AccumulatedIsSaid'
      BY <1>t, <2>1, <3>1 DEF LostContextsAreNoted, AccumulatedIsSaid
    <3>4. JobIsAnswer'
      BY <1>t, <2>1, <3>1 DEF JobIsAnswer, Sending
    <3>5. ViewFollows' /\ DeliveredIsOver'
      BY <1>t, <2>1, <3>1 DEF ViewFollows, DeliveredIsOver, Sending
    <3>6. QED
      BY <3>2, <3>3, <3>4, <3>5 DEF AnswerIInv
  <2>4. QED
    BY <2>2, <2>3
<1>8. CASE UNCHANGED deliveryVars
  <2>1. /\ UNCHANGED <<via, turn, stage, said, sent, known, image, acc, job, view, ended, disturbed>>
    BY <1>8 DEF deliveryVars
  <2>2. JobIsAnswer'
    BY <1>t, <2>1 DEF JobIsAnswer, Sending
  <2>3. QED
    BY <1>t, <2>1, <2>2 DEF AnswerIInv, AnswerTypes, LostContextsAreNoted, AccumulatedIsSaid, ViewFollows,
       DeliveredIsOver, Sending
<1>9. QED
  BY <1>1, <1>2, <1>3, <1>4, <1>5, <1>6, <1>7, <1>8 DEF DeliveryNext

\* However long the answers, the limit of a message and the number of turns
\* and failures are: a delivery that succeeded has shown the user the whole
\* answer of the turn and no other, in order and within the channel's limit,
\* unless the cleanup loop or a lost context met the turn
\* (handleBufferedEvent, splitTextChunks, deliverWithRetry).
THEOREM AnswersAreWhole == DeliverySpec => []AnswersArriveWhole
<1>1. DeliveryInit => AnswerIInv
  <2> SUFFICES ASSUME DeliveryInit PROVE AnswerIInv
    OBVIOUS
  <2>1. 0 \in Char /\ <<>> \in Seq(Char) /\ <<>> \in Seq(Nat) /\ Len(<<>>) = 0
    BY DeliveryAssumption DEF Char
  <2>2. NoJob \in JobState
    BY DEF NoJob, JobState
  <2>3. AnswerTypes
    <3>1. via \in Channel /\ turn = 0 /\ stage = "idle" /\ said = <<>> /\ sent = 0 /\ acc = <<>>
      BY DEF DeliveryInit, Channel
    <3>2. job \in JobState /\ view \in Seq(Nat)
      BY <2>1, <2>2 DEF DeliveryInit
    <3>3. said \in Seq(Char) /\ acc \in Seq(Char) /\ sent \in 0 .. Len(said) /\ turn \in Char
      BY <2>1, <3>1
    <3>4. QED
      BY <3>1, <3>2, <3>3 DEF AnswerTypes
  <2>4. QED
    BY <2>3 DEF DeliveryInit, AnswerIInv, LostContextsAreNoted, AccumulatedIsSaid, JobIsAnswer, ViewFollows,
       DeliveredIsOver, Sending
<1>2. AnswerIInv => AnswersArriveWhole
  <2> SUFFICES ASSUME AnswerIInv, ended = "delivered", turn \notin disturbed
               PROVE  /\ Letters(FlattenSeq(TextChunks(job.chunks))) = Letters(said)
                      /\ job.to = <<"whatsapp">> =>
                            \A i \in 1 .. Len(TextChunks(job.chunks)) : Len(TextChunks(job.chunks)[i]) <= ChunkLen
                      /\ view[1] = 1 /\ view[Len(view)] = Len(job.chunks)
                      /\ \A i \in 1 .. Len(view) - 1 : view[i + 1] \in {view[i], view[i] + 1}
    BY DEF AnswersArriveWhole
  <2>1. job \in JobState /\ job.text = said /\ job.chunks = Posts(Head(job.to), job.text) /\ said \in Seq(Char)
    BY DEF AnswerIInv, AnswerTypes, JobIsAnswer, Sending, PostsGiven, Posts
  <2>2. /\ Len(job.chunks) >= 1 /\ Letters(FlattenSeq(TextChunks(job.chunks))) = Letters(said)
        /\ Head(job.to) = "whatsapp" =>
              \A i \in 1 .. Len(TextChunks(job.chunks)) : Len(TextChunks(job.chunks)[i]) <= ChunkLen
    BY <2>1, PostsAddUp
  <2>3. job.next \in Nat /\ Len(job.chunks) \in Nat
    BY <2>1 DEF JobState
  <2>4. /\ ~job.failed /\ job.next > Len(job.chunks) /\ job.next \in 1 .. Len(job.chunks) + 1
        /\ SeenUpTo(view, job.next - 1)
    BY DEF AnswerIInv, DeliveredIsOver, ViewFollows, Sending
  <2>5. job.next - 1 = Len(job.chunks) /\ Len(job.chunks) # 0
    BY <2>2, <2>3, <2>4
  <2>6. SeenUpTo(view, Len(job.chunks))
    BY <2>4, <2>5
  <2>7. job.to = <<"whatsapp">> => Head(job.to) = "whatsapp"
    OBVIOUS
  <2>8. QED
    BY <2>2, <2>5, <2>6, <2>7 DEF SeenUpTo, InOrder
<1>3. QED
  BY <1>1, <1>2, AnswerStep, PTL DEF DeliverySpec

(***************************************************************************)
(* Inbound: where answers go.                                              *)
(***************************************************************************)

InboundSpec == InboundInit /\ [][InboundNext]_inboundVars

\* What a payload becomes when its channel takes it.
Taken(p, m) ==
    \/ p.channel = "whatsapp" /\ m = NormalizeWhatsApp(p)
    \/ p.channel = "slack" /\ m = NormalizeSlack(p)
    \/ p.channel = "mqtt" /\ p.topic # None /\ m = NormalizeMQTT(p)
    \/ p.channel = "rabbitmq" /\ ResolveUserID(p) # None /\ m = NormalizeRabbitMQ(p)

\* A payload that the channel marks as ours.
Ours(p) ==
    \/ p.channel = "whatsapp" /\ ResolvedIsFromMe(p.info)
    \/ p.channel = "slack" /\ p.bot # None

\* Where the answer to a message of a channel is posted, as ResolveTarget.
TargetOf(p, m) ==
    CASE p.channel = "whatsapp" -> <<"number", ResolveTargetJID(m).number>>
      [] p.channel = "slack" -> <<m.chat, m.thread>>
      [] OTHER -> IF m.replyTo # None THEN <<"reply", m.replyTo>> ELSE <<"outbox", m.user>>

\* The property leans on what is not in it: the message that waits for its
\* answer is the payload's own, and a payload reported back is marked as ours
\* in the layout the normalizer reads.
InboundIInv ==
    /\ ~echoed => payload \in Payloads
    /\ echoed => Ours(payload) /\ inbound \in {"waiting", "ignored"}
    /\ inbound \in {"routed", "answered"} => Taken(payload, message)
    /\ inbound = "answered" => target = TargetOf(payload, message)

\* A person's addresses, a group's and none are told apart by their domain.
LEMMA AddressesDiffer ==
  ASSUME NEW w, NEW r
  PROVE  /\ Phone(w) # NoJid /\ Lid(w) # NoJid /\ Group(r) # NoJid
         /\ Phone(w) # Lid(w) /\ Group(r) # Phone(w) /\ Lid(w) # Phone(w)
         /\ Phone(w).domain = "s.whatsapp.net" /\ Lid(w).domain = "lid" /\ Group(r).domain = "g.us"
<1>1. /\ Phone(w).domain = "s.whatsapp.net" /\ Lid(w).domain = "lid" /\ Group(r).domain = "g.us"
      /\ NoJid.domain = "none"
  BY DEF Phone, Lid, Group, NoJid, Jid, None
<1>2. QED
  BY <1>1

\* What the normalizer reads in the information the bridge reports, nested or
\* flat.
LEMMA InfoRead ==
  ASSUME NEW w, NEW room, NEW i \in Infos(w, room)
  PROVE  \E x \in Sources(w, room) :
            /\ ResolvedChat(i) = x.chat
            /\ ResolvedSender(i) = IF i.senderAlt # NoJid THEN i.senderAlt ELSE x.sender
            /\ i.senderAlt \in {NoJid, Phone(w)}
            /\ i.source # NoSource \/ i.flat # NoSource
            /\ i.source = NoSource <=> i.flat # NoSource
            /\ i.source.chat = NoJid <=> i.source = NoSource
<1>1. ASSUME NEW x \in Sources(w, room)
      PROVE  x.chat # NoJid /\ x.sender # NoJid /\ x # NoSource /\ x.fromMe = FALSE
  BY AddressesDiffer DEF Sources, Source, NoSource
<1>2. NoSource.chat = NoJid /\ NoSource.sender = NoJid
  BY DEF NoSource, Source
<1>3. ASSUME NEW x \in Sources(w, room), NEW a \in {NoJid, Phone(w)},
             i = [source |-> x, flat |-> NoSource, senderAlt |-> a]
      PROVE  /\ ResolvedChat(i) = x.chat
             /\ ResolvedSender(i) = IF i.senderAlt # NoJid THEN i.senderAlt ELSE x.sender
             /\ i.senderAlt \in {NoJid, Phone(w)} /\ i.source = x /\ i.flat = NoSource
  BY <1>1, <1>3 DEF ResolvedChat, ResolvedSender
<1>4. ASSUME NEW x \in Sources(w, room), NEW a \in {NoJid, Phone(w)},
             i = [source |-> NoSource, flat |-> x, senderAlt |-> a]
      PROVE  /\ ResolvedChat(i) = x.chat
             /\ ResolvedSender(i) = IF i.senderAlt # NoJid THEN i.senderAlt ELSE x.sender
             /\ i.senderAlt \in {NoJid, Phone(w)} /\ i.source = NoSource /\ i.flat = x
  BY <1>2, <1>4 DEF ResolvedChat, ResolvedSender
<1>5. \E x \in Sources(w, room), a \in {NoJid, Phone(w)} :
         \/ i = [source |-> x, flat |-> NoSource, senderAlt |-> a]
         \/ i = [source |-> NoSource, flat |-> x, senderAlt |-> a]
  BY DEF Infos
<1>6. QED
  BY <1>1, <1>2, <1>3, <1>4, <1>5

\* A WhatsApp payload carries the information of its person and room.
LEMMA WhatsAppInfo ==
  ASSUME NEW p \in Payloads, p.channel = "whatsapp"
  PROVE  /\ p.info \in Infos(p.from, p.room)
         /\ \E w, room, e, i, k, s3 : p = [channel |-> "whatsapp", from |-> w, room |-> room, event |-> e,
                                         info |-> i, kinds |-> k, s3 |-> s3]
<1>1. p \notin SlackPayloads /\ p \notin MQTTPayloads /\ p \notin RabbitMQPayloads
  BY DEF SlackPayloads, MQTTPayloads, RabbitMQPayloads
<1>2. p \in WhatsAppPayloads
  BY <1>1 DEF Payloads
<1>3. PICK w \in Person, room \in Room \cup {None} : p \in WrittenBy(w, room)
  BY <1>2 DEF WhatsAppPayloads
<1>4. PICK e \in {"Message", "ReadReceipt"}, i \in Infos(w, room), s3 \in BOOLEAN,
           k \in {{"conversation"}, {"extendedText", "image"}, {"image"}, {"sticker"}, {"audio"}, {"poll"}} :
         p = [channel |-> "whatsapp", from |-> w, room |-> room, event |-> e, info |-> i, kinds |-> k, s3 |-> s3]
  BY <1>3 DEF WrittenBy
<1>5. p.info = i /\ p.from = w /\ p.room = room
  BY <1>4
<1>6. QED
  BY <1>4, <1>5

\* The target of a WhatsApp message is its home.
LEMMA WhatsAppHome ==
  ASSUME NEW p \in Payloads, p.channel = "whatsapp"
  PROVE  \A m : m = NormalizeWhatsApp(p) => ResolveTargetJID(m) = Home(p)
<1> TAKE m
<1> HAVE m = NormalizeWhatsApp(p)
<1> DEFINE c == ResolvedChat(p.info)
           s == ResolvedSender(p.info)
           a == p.info.senderAlt
           w == p.from
<1>1. PICK x \in Sources(w, p.room) :
         c = x.chat /\ s = (IF a # NoJid THEN a ELSE x.sender) /\ a \in {NoJid, Phone(w)}
  BY WhatsAppInfo, InfoRead
<1>2. m.chat = c /\ m.sender = s
  BY DEF NormalizeWhatsApp
<1>3. Home(p) = IF p.room # None THEN Group(p.room)
                ELSE IF Phone(w) \in {a, c, s} THEN Phone(w) ELSE Lid(w)
  BY DEF Home, ByPhone
<1>4. ResolveTargetJID(m) = IF c.domain \in {"g.us", "s.whatsapp.net"} THEN c ELSE IF s # NoJid THEN s ELSE c
  BY <1>2 DEF ResolveTargetJID
<1>5. CASE p.room # None
  <2>1. c = Group(p.room)
    BY <1>1, <1>5 DEF Sources, Source
  <2>2. c.domain = "g.us"
    BY <2>1, AddressesDiffer
  <2>3. QED
    BY <1>3, <1>4, <1>5, <2>1, <2>2
<1>6. CASE p.room = None
  <2>1. \/ x.chat = Phone(w) /\ x.sender = Phone(w)
        \/ x.chat = Lid(w) /\ x.sender = Phone(w)
        \/ x.chat = Lid(w) /\ x.sender = Lid(w)
    BY <1>1, <1>6 DEF Sources, Source
  <2>2. /\ Phone(w) # NoJid /\ Lid(w) # NoJid /\ Phone(w) # Lid(w)
        /\ Phone(w).domain = "s.whatsapp.net" /\ Lid(w).domain = "lid"
    BY AddressesDiffer
  <2> HIDE DEF c, s, a, w
  <2>3. CASE x.chat = Phone(w)
    BY <1>1, <1>3, <1>4, <1>6, <2>2, <2>3
  <2>4. CASE x.chat = Lid(w) /\ x.sender = Phone(w)
    BY <1>1, <1>3, <1>4, <1>6, <2>2, <2>4
  <2>5. CASE x.chat = Lid(w) /\ x.sender = Lid(w)
    BY <1>1, <1>3, <1>4, <1>6, <2>2, <2>5
  <2>6. QED
    BY <2>1, <2>3, <2>4, <2>5
<1>7. QED
  BY <1>5, <1>6

\* The answer to a message its channel took goes home.
LEMMA TakenGoesHome ==
  ASSUME NEW p \in Payloads, NEW m, NEW t, Taken(p, m), t = TargetOf(p, m)
  PROVE  CASE p.channel = "whatsapp" -> t = <<"number", Home(p).number>>
           [] p.channel = "slack" -> t = <<p.conversation, p.thread>>
           [] OTHER -> IF Asked(p) = {} THEN t[1] = "outbox" /\ t[2] \in Named(p)
                       ELSE t[1] = "reply" /\ t[2] \in Asked(p)
<1>1. CASE p.channel = "whatsapp"
  <2>1. m = NormalizeWhatsApp(p)
    BY <1>1 DEF Taken
  <2>2. ResolveTargetJID(m) = Home(p)
    BY <1>1, <2>1, WhatsAppHome
  <2>3. QED
    BY <1>1, <2>2 DEF TargetOf
<1>2. CASE p.channel = "slack"
  <2>1. m = NormalizeSlack(p)
    BY <1>2 DEF Taken
  <2>2. m.chat = p.conversation /\ m.thread = p.thread
    BY <2>1 DEF NormalizeSlack
  <2>3. QED
    BY <1>2, <2>2 DEF TargetOf
<1>3. CASE p.channel = "mqtt"
  <2>1. m.user = p.topic /\ m.replyTo = p.responseTopic /\ p.topic # None
    BY <1>3 DEF Taken, NormalizeMQTT
  <2>2. Asked(p) = {p.responseTopic} \ {None} /\ Named(p) = {p.topic} \ {None}
    BY <1>3 DEF Asked, Named
  <2>3. t = IF m.replyTo # None THEN <<"reply", m.replyTo>> ELSE <<"outbox", m.user>>
    BY <1>3 DEF TargetOf
  <2>4. IF Asked(p) = {} THEN t[1] = "outbox" /\ t[2] \in Named(p)
        ELSE t[1] = "reply" /\ t[2] \in Asked(p)
    BY <2>1, <2>2, <2>3
  <2>5. QED
    BY <1>3, <2>4
<1>4. CASE p.channel = "rabbitmq"
  <2>1. /\ m.user = ResolveUserID(p) /\ m.user # None
        /\ m.replyTo = IF p.replyTo # None THEN p.replyTo ELSE p.replyHeader
    BY <1>4 DEF Taken, NormalizeRabbitMQ
  <2>2. /\ Asked(p) = {p.replyTo, p.replyHeader} \ {None}
        /\ Named(p) = {p.header, p.routingKey, p.queue} \ {None}
    BY <1>4 DEF Asked, Named
  <2>3. t = IF m.replyTo # None THEN <<"reply", m.replyTo>> ELSE <<"outbox", m.user>>
    BY <1>4 DEF TargetOf
  <2>4. m.user \in Named(p)
    BY <2>1, <2>2 DEF ResolveUserID
  <2>5. IF Asked(p) = {} THEN t[1] = "outbox" /\ t[2] \in Named(p)
        ELSE t[1] = "reply" /\ t[2] \in Asked(p)
    BY <2>1, <2>2, <2>3, <2>4
  <2>6. QED
    BY <1>4, <2>5
<1>5. QED
  BY <1>1, <1>2, <1>3, <1>4 DEF Taken

\* What the channel reports of our own post is marked as ours where the
\* normalizer looks for it.
LEMMA EchoIsOurs ==
  ASSUME payload \in Payloads, Echo
  PROVE  Ours(payload')
<1>1. CASE payload.channel = "slack"
  <2>1. payload \in SlackPayloads
    BY <1>1 DEF Payloads, WhatsAppPayloads, WrittenBy, MQTTPayloads, RabbitMQPayloads
  <2>2. payload' = [payload EXCEPT !.bot = "B1"]
    BY <1>1 DEF Echo
  <2>3. payload'.bot = "B1" /\ payload'.channel = "slack"
    BY <1>1, <2>1, <2>2 DEF SlackPayloads
  <2>4. QED
    BY <2>3 DEF Ours, None
<1>2. CASE payload.channel = "whatsapp"
  <2> DEFINE i == payload.info
             nested == i.source.fromMe \/ i.source # NoSource
             level == i.flat.fromMe \/ i.flat # NoSource
  <2>1. payload' = [payload EXCEPT !.info.source.fromMe = nested, !.info.flat.fromMe = level]
    BY <1>2 DEF Echo
  <2>2. i \in Infos(payload.from, payload.room)
    BY <1>2, WhatsAppInfo
  <2>3. PICK x \in Sources(payload.from, payload.room), a \in {NoJid, Phone(payload.from)} :
           \/ i = [source |-> x, flat |-> NoSource, senderAlt |-> a]
           \/ i = [source |-> NoSource, flat |-> x, senderAlt |-> a]
    BY <2>2 DEF Infos
  <2>4. x.chat # NoJid /\ x # NoSource /\ x = Source(x.chat, x.sender, FALSE)
    BY AddressesDiffer DEF Sources, Source, NoSource
  <2>5. NoSource.chat = NoJid /\ NoSource = Source(NoJid, NoJid, FALSE)
    BY DEF NoSource, Source
  <2>6. /\ payload'.channel = "whatsapp"
        /\ payload'.info = [i EXCEPT !.source.fromMe = nested, !.flat.fromMe = level]
    <3>1. PICK w, room, e, j, k, s3 : payload = [channel |-> "whatsapp", from |-> w, room |-> room, event |-> e,
                                                 info |-> j, kinds |-> k, s3 |-> s3]
      BY <1>2, WhatsAppInfo
    <3> DEFINE n == nested
               l == level
    <3>2. payload' = [payload EXCEPT !.info.source.fromMe = n, !.info.flat.fromMe = l]
      BY <2>1
    <3>3. payload'.info = [payload.info EXCEPT !.source.fromMe = n, !.flat.fromMe = l]
          /\ payload'.channel = "whatsapp"
      <4> HIDE DEF n, l
      <4>1. QED
        BY <3>1, <3>2
    <3>4. QED
      BY <3>3
  <2>7. CASE i = [source |-> x, flat |-> NoSource, senderAlt |-> a]
    <3>1. nested
      BY <2>4, <2>7
    <3>2. payload'.info.source.chat = x.chat /\ payload'.info.source.fromMe = nested
      BY <2>4, <2>5, <2>6, <2>7 DEF Source
    <3>3. QED
      BY <2>4, <2>6, <3>1, <3>2 DEF Ours, ResolvedIsFromMe
  <2>8. CASE i = [source |-> NoSource, flat |-> x, senderAlt |-> a]
    <3>1. level
      BY <2>4, <2>8
    <3>2. payload'.info.source.chat = NoJid /\ payload'.info.flat.fromMe = level
      BY <2>4, <2>5, <2>6, <2>8 DEF Source
    <3>3. QED
      BY <2>6, <3>1, <3>2 DEF Ours, ResolvedIsFromMe
  <2>9. QED
    BY <2>3, <2>7, <2>8
<1>3. QED
  BY <1>1, <1>2 DEF Echo

\* Every step keeps the inductive invariant of the answers' targets.
LEMMA InboundStep == InboundIInv /\ [InboundNext]_inboundVars => InboundIInv'
<1> SUFFICES ASSUME InboundIInv, [InboundNext]_inboundVars PROVE InboundIInv'
  OBVIOUS
<1> USE DEF InboundIInv
<1>1. ASSUME NEW how \in {"refused", "ignored", "rejected"}, Ends(how), echoed => how = "ignored"
      PROVE  InboundIInv'
  BY <1>1 DEF Ends
<1>2. ASSUME NEW m, Routes(m), ~echoed, Taken(payload, m)
      PROVE  InboundIInv'
  BY <1>2 DEF Routes
<1>3. CASE VerifySignature
  BY <1>1, <1>3 DEF VerifySignature
<1>4. CASE HandleWebhookWhatsApp
  <2>1. CASE payload.event = "Message" /\ ~ResolvedIsFromMe(payload.info)
    <3>1. ~echoed /\ Taken(payload, NormalizeWhatsApp(payload)) /\ Routes(NormalizeWhatsApp(payload))
      BY <1>4, <2>1 DEF HandleWebhookWhatsApp, Ours, Taken
    <3>2. QED
      BY <1>2, <3>1
  <2>2. CASE ~(payload.event = "Message" /\ ~ResolvedIsFromMe(payload.info))
    BY <1>1, <1>4, <2>2 DEF HandleWebhookWhatsApp
  <2>3. QED
    BY <2>1, <2>2
<1>5. CASE HandleWebhookSlack
  <2>1. CASE IsUserMessage(payload)
    <3>1. ~echoed /\ Taken(payload, NormalizeSlack(payload)) /\ Routes(NormalizeSlack(payload))
      BY <1>5, <2>1 DEF HandleWebhookSlack, IsUserMessage, Ours, Taken
    <3>2. QED
      BY <1>2, <3>1
  <2>2. CASE ~IsUserMessage(payload)
    BY <1>1, <1>5, <2>2 DEF HandleWebhookSlack
  <2>3. QED
    BY <2>1, <2>2
<1>6. CASE OnMessage
  <2>1. payload.channel = "mqtt" /\ ~echoed
    BY <1>6 DEF OnMessage, Ours
  <2>2. CASE payload.topic = None \/ payload.text = "malformed"
    <3>1. Ends("rejected")
      BY <1>6, <2>2 DEF OnMessage
    <3>2. QED
      BY <1>1, <2>1, <3>1
  <2>3. CASE payload.topic # None /\ payload.text = "empty"
    <3>1. Ends("ignored")
      BY <1>6, <2>3 DEF OnMessage
    <3>2. QED
      BY <1>1, <3>1
  <2>4. CASE payload.topic # None /\ payload.text # "empty" /\ payload.text # "malformed"
    <3>1. Routes(NormalizeMQTT(payload)) /\ Taken(payload, NormalizeMQTT(payload))
      BY <1>6, <2>1, <2>4 DEF OnMessage, Taken
    <3>2. QED
      BY <1>2, <2>1, <3>1
  <2>5. QED
    BY <2>2, <2>3, <2>4
<1>7. CASE HandleDelivery
  <2>1. payload.channel = "rabbitmq" /\ ~echoed
    BY <1>7 DEF HandleDelivery, Ours
  <2>2. CASE payload.text = "malformed"
    <3>1. Ends("rejected")
      BY <1>7, <2>2 DEF HandleDelivery
    <3>2. QED
      BY <1>1, <2>1, <3>1
  <2>3. CASE payload.text = "empty"
    <3>1. Ends("ignored")
      BY <1>7, <2>3 DEF HandleDelivery
    <3>2. QED
      BY <1>1, <3>1
  <2>4. payload.text \in {"text", "empty", "malformed"}
    BY <2>1 DEF Payloads, WhatsAppPayloads, WrittenBy, SlackPayloads, MQTTPayloads, RabbitMQPayloads
  <2>5. CASE payload.text = "text" /\ ResolveUserID(payload) = None
    <3>1. Ends("rejected")
      BY <1>7, <2>5 DEF HandleDelivery
    <3>2. QED
      BY <1>1, <2>1, <3>1
  <2>6. CASE payload.text = "text" /\ ResolveUserID(payload) # None
    <3>1. Routes(NormalizeRabbitMQ(payload)) /\ Taken(payload, NormalizeRabbitMQ(payload))
      BY <1>7, <2>1, <2>6 DEF HandleDelivery, Taken
    <3>2. QED
      BY <1>2, <2>1, <3>1
  <2>7. QED
    BY <2>2, <2>3, <2>4, <2>5, <2>6
<1>8. CASE Answer
  <2>1. ResolveTarget(message) = TargetOf(payload, message)
    BY DEF ResolveTarget, TargetOf
  <2>2. /\ inbound = "routed" /\ inbound' = "answered" /\ target' = TargetOf(payload, message)
        /\ UNCHANGED <<payload, message, echoed>>
    BY <1>8, <2>1 DEF Answer
  <2>3. QED
    BY <2>2
<1>9. CASE Echo
  <2>1. echoed' = TRUE /\ inbound' = "waiting" /\ ~echoed
    BY <1>9 DEF Echo
  <2>2. Ours(payload')
    BY <1>9, <2>1, EchoIsOurs
  <2>3. QED
    BY <2>1, <2>2
<1>10. CASE UNCHANGED inboundVars
  BY <1>10 DEF inboundVars
<1>11. QED
  BY <1>3, <1>4, <1>5, <1>6, <1>7, <1>8, <1>9, <1>10 DEF InboundNext

\* Whoever the people, groups, conversations, threads and addresses are: an
\* answer goes to the person, group or thread its message came from, or to an
\* address or user the message names, and the copy of our own answer is never
\* answered (NormalizeInbound, resolveTargetJID, resolveTarget).
THEOREM AnswersReachTheirAsker == InboundSpec => []AnswersGoHome
<1>1. InboundInit => InboundIInv
  BY DEF InboundInit, InboundIInv
<1>2. InboundIInv => AnswersGoHome
  <2> SUFFICES ASSUME InboundIInv PROVE AnswersGoHome
    OBVIOUS
  <2>1. ASSUME inbound = "answered"
        PROVE  payload \in Payloads /\ Taken(payload, message) /\ target = TargetOf(payload, message)
    BY <2>1 DEF InboundIInv
  <2>2. echoed => inbound \in {"waiting", "ignored"}
    BY DEF InboundIInv
  <2>3. QED
    BY <2>1, <2>2, TakenGoesHome DEF AnswersGoHome
<1>3. QED
  BY <1>1, <1>2, InboundStep, PTL DEF InboundSpec

(***************************************************************************)
(* Scheduler: types.                                                       *)
(***************************************************************************)

SchedulerSpec == SchedulerInit /\ [][SchedulerNext]_schedulerVars

Request ==
    {NoRequest} \cup
    [op : {"add", "remove", "schedule", "rollback", "unschedule"}, job : Job, inst : 0 .. MaxInstance]

\* An instance number that a timer, a passed time or a scheduling request
\* names has been given out.
SchedulerTypes ==
    /\ SchedulerTypeOK
    /\ added \in [Job -> 0 .. MaxInstance]
    /\ request \in [Client -> Request]
    /\ \A p \in passed : p[2] <= added[p[1]]

\* What reading the cron rows leaves: a job that is listed is stored as it was
\* read, unless its key is upset.
LEMMA ListingReads ==
    ASSUME SchedulerTypes, NEW stored \in SUBSET ConfigJob, NEW read \in BOOLEAN,
           ListCronJobs(stored, read)
    PROVE  /\ jobRow' \in [Job -> 0 .. MaxInstance]
           /\ listed' \in [Job -> 0 .. MaxInstance]
           /\ added' \in [Job -> 0 .. MaxInstance]
           /\ upset \subseteq upset' /\ upset' \subseteq Job
           /\ \A j \in Job : added[j] <= added'[j]
           /\ \A j \in Job \ upset' : listed'[j] # 0 => j \notin AtJob /\ jobRow'[j] = listed'[j]
<1> USE SchedulerAssumption DEF SchedulerTypes, SchedulerTypeOK
<1> DEFINE empty == \A j \in Job \ AtJob : jobRow[j] = 0
           fallback == ~read \/ (empty /\ stored = {})
           new == stored \cup (IF fallback THEN ConfigJob ELSE {})
<1>1. /\ \A j \in new : added[j] < MaxInstance
      /\ added' = [j \in Job |-> IF j \in new THEN added[j] + 1 ELSE added[j]]
      /\ jobRow' = [j \in Job |-> IF j \in stored THEN added[j] + 1 ELSE jobRow[j]]
      /\ listed' = [j \in Job |-> IF j \in new THEN added[j] + 1
                                 ELSE IF fallback \/ j \in AtJob THEN 0 ELSE jobRow[j]]
      /\ upset' = upset \cup (new \ stored)
  BY DEF ListCronJobs
<1>2. stored \subseteq new /\ new \subseteq ConfigJob /\ ConfigJob \subseteq Job \ AtJob
  OBVIOUS
<1> HIDE DEF fallback, new
<1>3. QED
  BY <1>1, <1>2

\* Every step keeps the types.
LEMMA SchedulerTypesStep == SchedulerTypes /\ [SchedulerNext]_schedulerVars => SchedulerTypes'
<1> SUFFICES ASSUME SchedulerTypes, [SchedulerNext]_schedulerVars PROVE SchedulerTypes'
  OBVIOUS
<1> USE SchedulerAssumption DEF SchedulerTypes, SchedulerTypeOK, Request
<1>1. ASSUME NEW c \in Client, RequestEnds(c) PROVE SchedulerTypes'
  BY <1>1 DEF RequestEnds, Goes
<1>2. ASSUME NEW c \in Client, NEW j \in Job,
             ExecCronAddJob(c, j) \/ ExecAtAddJob(c, j) \/ ExecCronRemoveJob(c, j) \/ ExecAtRemoveJob(c, j)
      PROVE  SchedulerTypes'
  BY <1>2 DEF ExecCronAddJob, ExecAtAddJob, ExecCronRemoveJob, ExecAtRemoveJob, Requests, Goes, Ask
<1>3. ASSUME NEW c \in Client, NEW j \in Job, InsertRow(c, j) PROVE SchedulerTypes'
  BY <1>3 DEF InsertRow, Goes, Ask, Meets
<1>4. ASSUME NEW c \in Client, NEW j \in Job, DeleteRow(c, j) PROVE SchedulerTypes'
  BY <1>4 DEF DeleteRow, Goes, Ask, Meets
<1>5. ASSUME NEW c \in Client, NEW j \in Job, NEW i \in 1 .. MaxInstance,
             AddCronJob(c, j, i) \/ AddAtJob(c, j, i)
      PROVE  SchedulerTypes'
  BY <1>5 DEF AddCronJob, AddAtJob, Enter, Goes
<1>6. ASSUME NEW c \in Client, NEW j \in Job, NEW i \in 1 .. MaxInstance,
             AddRefused(c, j, i) \/ Rollback(c, j, i) \/ RemoveJob(c, j, i)
      PROVE  SchedulerTypes'
  BY <1>6 DEF AddRefused, Rollback, RemoveJob, Goes, Ask
<1>7. ASSUME NEW j \in Job, NEW i \in 1 .. MaxInstance, TimePasses(j, i) PROVE SchedulerTypes'
  BY <1>7 DEF TimePasses
<1>8. ASSUME NEW j \in Job, NEW i \in 1 .. MaxInstance, FireAtJob(j, i) PROVE SchedulerTypes'
  BY <1>8 DEF FireAtJob
<1>9. ASSUME NEW b \in callbacks, CleanScheduler(b) \/ CleanRow(b) PROVE SchedulerTypes'
  BY <1>9 DEF CleanScheduler, CleanRow
<1>10. ASSUME NEW stored \in SUBSET ConfigJob, NEW read \in BOOLEAN, ListCronJobs(stored, read)
       PROVE  SchedulerTypes'
  <2>1. UNCHANGED <<jobEntry, timers, callbacks, passed, request, stops>> /\ boot' = "listed"
    BY <1>10 DEF ListCronJobs
  <2>2. /\ jobRow' \in [Job -> 0 .. MaxInstance] /\ listed' \in [Job -> 0 .. MaxInstance]
        /\ added' \in [Job -> 0 .. MaxInstance] /\ upset' \subseteq Job
        /\ \A j \in Job : added[j] <= added'[j]
    BY <1>10, ListingReads
  <2>3. \A p \in passed : p[2] <= added'[p[1]]
    BY <2>2
  <2>4. QED
    BY <2>1, <2>2, <2>3 DEF BootPhase
<1>11. ASSUME NEW valid \in SUBSET AtJob, NEW expired \in SUBSET AtJob, LoadAtJobs(valid, expired)
       PROVE  SchedulerTypes'
  BY <1>11 DEF LoadAtJobs, Loadable, BootPhase
<1>12. ASSUME NEW j \in Job, AdminWithoutScheduler(j) PROVE SchedulerTypes'
  BY <1>12 DEF AdminWithoutScheduler
<1>13. CASE OpenServer
  BY <1>13 DEF OpenServer, BootPhase
<1>14. ASSUME NEW valid \in SUBSET (Job \ AtJob), LoadJobs(valid) PROVE SchedulerTypes'
  BY <1>14 DEF LoadJobs, BootPhase
<1>15. CASE Stop \/ UserDeleted
  <2>1. stops' \in 0 .. MaxStops /\ upset' \subseteq Job
    BY <1>15 DEF Stop, UserDeleted
  <2>2. request' \in [Client -> Request] /\ UNCHANGED <<passed, added>>
    BY <1>15 DEF Stop, UserDeleted
  <2>3. jobRow' \in [Job -> 0 .. MaxInstance] /\ jobEntry' \in [Job -> 0 .. MaxInstance]
    BY <1>15 DEF Stop, UserDeleted
  <2>4. timers' \subseteq timers /\ callbacks' \subseteq callbacks
    BY <1>15 DEF Stop, UserDeleted
  <2>5. listed' \in [Job -> 0 .. MaxInstance] /\ boot' \in BootPhase
    BY <1>15 DEF Stop, UserDeleted, BootPhase
  <2>6. QED
    BY <2>1, <2>2, <2>3, <2>4, <2>5
<1>16. CASE UNCHANGED schedulerVars
  BY <1>16 DEF schedulerVars
<1>17. QED
  BY <1>1, <1>2, <1>3, <1>4, <1>5, <1>6, <1>7, <1>8, <1>9, <1>10, <1>15, <1>16, <1>11, <1>12, <1>13, <1>14
     DEF SchedulerNext, HandleAddCron, HandleAddAt, HandleRemoveCron, HandleRemoveAt, FireJob

(***************************************************************************)
(* Scheduler: one-shot jobs.                                               *)
(***************************************************************************)

\* What has fired has passed, and will not be waited for again.
FiredAreGone ==
    /\ fired.once \subseteq passed
    /\ fired.once \cap timers = {}
    /\ fired.twice = {}
    /\ fired = [once |-> fired.once, twice |-> fired.twice]

\* Every step keeps it: an instance whose time has passed is never scheduled.
LEMMA FiredAreGoneStep ==
    SchedulerTypes /\ FiredAreGone /\ [SchedulerNext]_schedulerVars => FiredAreGone'
<1> SUFFICES ASSUME SchedulerTypes, FiredAreGone, [SchedulerNext]_schedulerVars PROVE FiredAreGone'
  OBVIOUS
<1> USE DEF FiredAreGone
<1>1. ASSUME UNCHANGED <<passed, fired>>, timers' \subseteq timers PROVE FiredAreGone'
  BY <1>1
<1>2. ASSUME NEW c \in Client, RequestEnds(c) PROVE FiredAreGone'
  BY <1>1, <1>2 DEF RequestEnds
<1>3. ASSUME NEW c \in Client, NEW j \in Job,
             \/ ExecCronAddJob(c, j) \/ ExecAtAddJob(c, j) \/ ExecCronRemoveJob(c, j) \/ ExecAtRemoveJob(c, j)
             \/ InsertRow(c, j) \/ DeleteRow(c, j)
      PROVE  FiredAreGone'
  BY <1>1, <1>3 DEF ExecCronAddJob, ExecAtAddJob, ExecCronRemoveJob, ExecAtRemoveJob, Requests,
                    InsertRow, DeleteRow
<1>4. ASSUME NEW c \in Client, NEW j \in Job, NEW i \in 1 .. MaxInstance,
             AddCronJob(c, j, i) \/ AddAtJob(c, j, i)
      PROVE  FiredAreGone'
  BY <1>4 DEF AddCronJob, AddAtJob, Enter, Schedulable
<1>5. ASSUME NEW c \in Client, NEW j \in Job, NEW i \in 1 .. MaxInstance,
             AddRefused(c, j, i) \/ Rollback(c, j, i) \/ RemoveJob(c, j, i)
      PROVE  FiredAreGone'
  BY <1>1, <1>5 DEF AddRefused, Rollback, RemoveJob
<1>6. ASSUME NEW j \in Job, NEW i \in 1 .. MaxInstance, TimePasses(j, i) PROVE FiredAreGone'
  BY <1>6 DEF TimePasses
<1>7. ASSUME NEW j \in Job, NEW i \in 1 .. MaxInstance, FireAtJob(j, i) PROVE FiredAreGone'
  BY <1>7 DEF FireAtJob
<1>8. ASSUME NEW b \in callbacks, CleanScheduler(b) \/ CleanRow(b) PROVE FiredAreGone'
  BY <1>1, <1>8 DEF CleanScheduler, CleanRow
<1>9. ASSUME NEW valid \in SUBSET AtJob, NEW expired \in SUBSET AtJob, LoadAtJobs(valid, expired)
      PROVE  FiredAreGone'
  <2>1. UNCHANGED <<passed, fired>> /\ timers' = {<<j, jobRow[j]>> : j \in valid}
    BY <1>9 DEF LoadAtJobs
  <2>2. \A j \in valid : <<j, jobRow[j]>> \notin passed
    BY <1>9 DEF LoadAtJobs, Loadable
  <2>3. QED
    BY <2>1, <2>2
<1>10. ASSUME NEW valid \in SUBSET (Job \ AtJob), LoadJobs(valid) PROVE FiredAreGone'
  <2>1. UNCHANGED <<passed, fired>> /\ timers' = timers \cup {<<j, listed[j]>> : j \in valid}
    BY <1>10 DEF LoadJobs
  <2>2. \A j \in valid : <<j, listed[j]>> \notin passed
    BY DEF SchedulerTypes, SchedulerTypeOK
  <2>3. QED
    BY <2>1, <2>2
<1>11. ASSUME NEW stored \in SUBSET ConfigJob, NEW read \in BOOLEAN, ListCronJobs(stored, read)
       PROVE  FiredAreGone'
  BY <1>1, <1>11 DEF ListCronJobs
<1>12. ASSUME NEW j \in Job, AdminWithoutScheduler(j) PROVE FiredAreGone'
  BY <1>1, <1>12 DEF AdminWithoutScheduler
<1>13. CASE OpenServer \/ Stop \/ UserDeleted
  BY <1>1, <1>13 DEF OpenServer, Stop, UserDeleted
<1>14. CASE UNCHANGED schedulerVars
  BY <1>1, <1>14 DEF schedulerVars
<1>15. QED
  BY <1>2, <1>3, <1>4, <1>5, <1>6, <1>7, <1>8, <1>9, <1>13, <1>14, <1>10, <1>11, <1>12
     DEF SchedulerNext, HandleAddCron, HandleAddAt, HandleRemoveCron, HandleRemoveAt, FireJob

(***************************************************************************)
(* Scheduler: what fires is stored.                                        *)
(***************************************************************************)

AtWork(c, j) == request[c].op \in {"schedule", "rollback", "unschedule"} /\ request[c].job = j

\* One request or one callback at most is at work on the key.
OneAtWork(j) ==
    /\ \A c, d \in Client : AtWork(c, j) /\ AtWork(d, j) => c = d
    /\ \A c \in Client, b \in callbacks : ~(AtWork(c, j) /\ b.job = j)
    /\ \A b, d \in callbacks : b.job = j /\ d.job = j => b = d

NoTimer(j) == \A i \in 1 .. MaxInstance : <<j, i>> \notin timers

\* How far the worker of a key has come and what it finds: until a new job is
\* scheduled its row is stored and nothing else of the key is waiting, and a
\* callback has the key's only timer behind it.  A job that the start has
\* listed and not loaded is not scheduled, and is stored unless a handler is
\* about to tell the scheduler of its removal.
KeyIsOrderly(j) ==
    /\ OneAtWork(j)
    /\ \A i \in 1 .. MaxInstance : <<j, i>> \in timers => jobEntry[j] = i
    /\ ~Busy(j) => \A i \in 1 .. MaxInstance : <<j, i>> \in timers => jobRow[j] = i
    /\ \A c \in Client : AtWork(c, j) /\ request[c].op = "schedule" => jobRow[j] = request[c].inst
    /\ \A c \in Client : AtWork(c, j) /\ request[c].op # "unschedule" => NoTimer(j)
    /\ \A b \in callbacks : b.job = j => NoTimer(j)
    /\ listed[j] # 0 =>
         /\ j \notin AtJob /\ jobEntry[j] = 0
         /\ jobRow[j] = listed[j] \/ \E c \in Client : AtWork(c, j)
         /\ \A c \in Client : AtWork(c, j) => request[c].op = "unschedule"

\* A gateway that is down, or has only read the cron rows, has nothing under
\* way; no handler is before the API is served.
DownIsQuiet ==
    /\ boot \in {"down", "listed"} => timers = {} /\ callbacks = {} /\ \A j \in Job : jobEntry[j] = 0
    /\ boot \notin Serving => \A c \in Client, j \in Job : ~AtWork(c, j)

\* Every step keeps it so.
LEMMA DownIsQuietStep ==
    SchedulerTypes /\ DownIsQuiet /\ [SchedulerNext]_schedulerVars => DownIsQuiet'
<1> SUFFICES ASSUME SchedulerTypes, DownIsQuiet, [SchedulerNext]_schedulerVars PROVE DownIsQuiet'
  OBVIOUS
<1> USE DEF DownIsQuiet, AtWork, SchedulerTypes, Request, Serving
<1>1. ASSUME NEW c \in Client, RequestEnds(c) PROVE DownIsQuiet'
  BY <1>1 DEF RequestEnds, Goes, NoRequest
<1>2. ASSUME NEW c \in Client, NEW j \in Job,
             ExecCronAddJob(c, j) \/ ExecAtAddJob(c, j) \/ ExecCronRemoveJob(c, j) \/ ExecAtRemoveJob(c, j)
      PROVE  DownIsQuiet'
  BY <1>2 DEF ExecCronAddJob, ExecAtAddJob, ExecCronRemoveJob, ExecAtRemoveJob, Requests, Goes, Ask
<1>3. ASSUME NEW c \in Client, NEW j \in Job, InsertRow(c, j) \/ DeleteRow(c, j) PROVE DownIsQuiet'
  BY <1>3 DEF InsertRow, DeleteRow
<1>4. ASSUME NEW c \in Client, NEW j \in Job, NEW i \in 1 .. MaxInstance,
             \/ AddCronJob(c, j, i) \/ AddAtJob(c, j, i) \/ AddRefused(c, j, i)
             \/ Rollback(c, j, i) \/ RemoveJob(c, j, i)
      PROVE  DownIsQuiet'
  <2>1. AtWork(c, j) /\ UNCHANGED boot
    BY <1>4 DEF AddCronJob, AddAtJob, Enter, AddRefused, Rollback, RemoveJob, Ask
  <2>2. QED
    BY <2>1
<1>5. ASSUME NEW j \in Job, NEW i \in 1 .. MaxInstance, TimePasses(j, i) \/ FireAtJob(j, i)
      PROVE  DownIsQuiet'
  BY <1>5 DEF TimePasses, FireAtJob
<1>6. ASSUME NEW b \in callbacks, CleanScheduler(b) \/ CleanRow(b) PROVE DownIsQuiet'
  BY <1>6 DEF CleanScheduler, CleanRow
<1>7. CASE UserDeleted
  BY <1>7 DEF UserDeleted
<1>8. ASSUME NEW stored \in SUBSET ConfigJob, NEW read \in BOOLEAN, ListCronJobs(stored, read)
       PROVE  DownIsQuiet'
  <2>1. boot = "down" /\ boot' = "listed" /\ UNCHANGED <<timers, callbacks, request, jobEntry>>
    BY <1>8 DEF ListCronJobs
  <2>2. QED
    BY <2>1
<1>9. ASSUME NEW valid \in SUBSET AtJob, NEW expired \in SUBSET AtJob, LoadAtJobs(valid, expired)
       PROVE  DownIsQuiet'
  BY <1>9 DEF LoadAtJobs
<1>10. ASSUME NEW j \in Job, AdminWithoutScheduler(j) PROVE DownIsQuiet'
  BY <1>10 DEF AdminWithoutScheduler
<1>11. CASE OpenServer
  BY <1>11 DEF OpenServer
<1>12. ASSUME NEW valid \in SUBSET (Job \ AtJob), LoadJobs(valid) PROVE DownIsQuiet'
  BY <1>12 DEF LoadJobs
<1>13. CASE Stop
  BY <1>13 DEF Stop, NoRequest
<1>14. CASE UNCHANGED schedulerVars
  BY <1>14 DEF schedulerVars
<1>15. QED
  BY <1>1, <1>2, <1>3, <1>4, <1>5, <1>6, <1>7, <1>13, <1>14, <1>8, <1>9, <1>10, <1>11, <1>12
     DEF SchedulerNext, HandleAddCron, HandleAddAt, HandleRemoveCron, HandleRemoveAt, FireJob

Orderly == \A j \in Job \ upset : KeyIsOrderly(j)

\* A step that leaves the key's row, entry and timers alone, and its workers.
LEMMA KeyUntouched ==
    ASSUME NEW j \in Job, KeyIsOrderly(j),
           jobRow'[j] = jobRow[j], jobEntry'[j] = jobEntry[j], listed'[j] = listed[j],
           \A i \in 1 .. MaxInstance : <<j, i>> \in timers' <=> <<j, i>> \in timers,
           \A b \in callbacks \cup callbacks' : b.job = j => b \in callbacks \cap callbacks',
           \A c \in Client : (AtWork(c, j) <=> AtWork(c, j)') /\ (AtWork(c, j) => request'[c] = request[c])
    PROVE  KeyIsOrderly(j)'
<1>1. Busy(j)' <=> Busy(j)
  BY DEF Busy, AtWork
<1>2. OneAtWork(j)'
  BY DEF KeyIsOrderly, OneAtWork
<1>3. NoTimer(j)' <=> NoTimer(j)
  BY DEF NoTimer
<1>4. QED
  BY <1>1, <1>2, <1>3 DEF KeyIsOrderly

\* Every step keeps every key orderly that it does not upset.
LEMMA OrderlyStep ==
    SchedulerTypes /\ DownIsQuiet /\ Orderly /\ [SchedulerNext]_schedulerVars => Orderly'
<1> SUFFICES ASSUME SchedulerTypes, DownIsQuiet, Orderly, [SchedulerNext]_schedulerVars,
                    NEW k \in Job, k \notin upset'
             PROVE  KeyIsOrderly(k)'
  BY DEF Orderly
<1> DEFINE Goal == KeyIsOrderly(k)'
<1> USE SchedulerAssumption DEF SchedulerTypes, SchedulerTypeOK, Request
<1>0. ASSUME k \notin upset PROVE KeyIsOrderly(k)
  BY <1>0 DEF Orderly
<1>1. ASSUME NEW c \in Client, RequestEnds(c) PROVE Goal
  <2>1. \A d \in Client : /\ AtWork(d, k) <=> AtWork(d, k)'
                          /\ AtWork(d, k) => request'[d] = request[d]
    BY <1>1 DEF RequestEnds, Goes, NoRequest, AtWork
  <2>2. QED
    BY <1>0, <1>1, <2>1, KeyUntouched DEF RequestEnds
<1>2. ASSUME NEW c \in Client, NEW j \in Job,
             ExecCronAddJob(c, j) \/ ExecAtAddJob(c, j) \/ ExecCronRemoveJob(c, j) \/ ExecAtRemoveJob(c, j)
      PROVE  Goal
  <2>1. PICK op \in {"add", "remove"} : Requests(c, op, j)
    BY <1>2 DEF ExecCronAddJob, ExecAtAddJob, ExecCronRemoveJob, ExecAtRemoveJob
  <2>2. \A d \in Client : /\ AtWork(d, k) <=> AtWork(d, k)'
                          /\ AtWork(d, k) => request'[d] = request[d]
    BY <2>1 DEF Requests, Goes, Ask, NoRequest, AtWork
  <2>3. QED
    BY <1>0, <2>1, <2>2, KeyUntouched DEF Requests
<1>3. ASSUME NEW c \in Client, NEW j \in Job, InsertRow(c, j) PROVE Goal
  <2>1. \A d \in Client \ {c} : request'[d] = request[d] /\ (AtWork(d, k)' <=> AtWork(d, k))
    BY <1>3 DEF InsertRow, Goes, AtWork
  <2>2. /\ request[c] = Ask("add", j, 0) /\ request'[c] = Ask("schedule", j, added[j] + 1)
        /\ ~AtWork(c, k) /\ (AtWork(c, k)' <=> k = j)
    BY <1>3 DEF InsertRow, Goes, AtWork, Ask
  <2>3. k \notin upset /\ (k = j => ~Busy(k))
    BY <1>3 DEF InsertRow, Meets
  <2>4. CASE k # j
    BY <1>0, <1>3, <2>1, <2>2, <2>3, <2>4, KeyUntouched DEF InsertRow
  <2>5. CASE k = j
    <3>0. listed'[k] = 0
      BY <1>0, <1>3, <2>3, <2>5 DEF InsertRow, KeyIsOrderly, Busy, AtWork
    <3>1. NoTimer(k) /\ UNCHANGED <<timers, jobEntry, callbacks>> /\ jobRow'[k] = added[j] + 1
      BY <1>0, <1>3, <2>3, <2>5 DEF InsertRow, KeyIsOrderly, NoTimer
    <3>2. (\A d \in Client : AtWork(d, k)' => d = c) /\ \A b \in callbacks : b.job # k
      BY <2>1, <2>3, <2>5 DEF Busy, AtWork
    <3>3. OneAtWork(k)' /\ Busy(k)' /\ NoTimer(k)'
      BY <2>2, <2>5, <3>1, <3>2 DEF OneAtWork, Busy, AtWork, NoTimer
    <3>4. QED
      BY <2>2, <3>0, <3>1, <3>2, <3>3 DEF KeyIsOrderly, NoTimer, Ask
  <2>6. QED
    BY <2>4, <2>5
<1>4. ASSUME NEW c \in Client, NEW j \in Job, DeleteRow(c, j) PROVE Goal
  <2>1. \A d \in Client \ {c} : request'[d] = request[d] /\ (AtWork(d, k)' <=> AtWork(d, k))
    BY <1>4 DEF DeleteRow, Goes, AtWork
  <2>2. /\ request[c] = Ask("remove", j, 0) /\ request'[c] = Ask("unschedule", j, jobRow[j])
        /\ ~AtWork(c, k) /\ (AtWork(c, k)' <=> k = j)
    BY <1>4 DEF DeleteRow, Goes, AtWork, Ask
  <2>3. k \notin upset /\ (k = j => ~Busy(k))
    BY <1>4 DEF DeleteRow, Meets
  <2>4. CASE k # j
    BY <1>0, <1>4, <2>1, <2>2, <2>3, <2>4, KeyUntouched DEF DeleteRow
  <2>5. CASE k = j
    <3>1. UNCHANGED <<timers, jobEntry, callbacks, listed>>
      BY <1>4 DEF DeleteRow
    <3>2. (\A d \in Client : AtWork(d, k)' => d = c) /\ \A b \in callbacks : b.job # k
      BY <2>1, <2>3, <2>5 DEF Busy, AtWork
    <3>3. OneAtWork(k)' /\ Busy(k)'
      BY <2>2, <2>5, <3>1, <3>2 DEF OneAtWork, Busy, AtWork
    <3>4. QED
      BY <1>0, <2>2, <2>3, <2>5, <3>1, <3>2, <3>3 DEF KeyIsOrderly, Ask
  <2>6. QED
    BY <2>4, <2>5
<1>5. ASSUME NEW c \in Client, NEW j \in Job, NEW i \in 1 .. MaxInstance,
             AddCronJob(c, j, i) \/ AddAtJob(c, j, i)
      PROVE  Goal
  <2>1. request[c] = Ask("schedule", j, i) /\ Enter(j, i) /\ Goes(c, NoRequest) /\ k \notin upset
    BY <1>5 DEF AddCronJob, AddAtJob, Enter
  <2>2. \A d \in Client \ {c} : request'[d] = request[d] /\ (AtWork(d, k)' <=> AtWork(d, k))
    BY <2>1 DEF Goes, AtWork
  <2>3. ~AtWork(c, k)' /\ (AtWork(c, k) <=> k = j)
    BY <2>1 DEF Goes, AtWork, Ask, NoRequest
  <2>4. CASE k # j
    BY <1>0, <2>1, <2>2, <2>3, <2>4, KeyUntouched DEF Enter
  <2>5. CASE k = j
    <3>1. NoTimer(k) /\ jobRow[k] = i /\ OneAtWork(k)
      BY <1>0, <2>1, <2>3, <2>5 DEF KeyIsOrderly, Ask
    <3>6. listed'[k] = 0
      BY <1>0, <2>1, <2>3, <2>5 DEF KeyIsOrderly, Ask, Enter
    <3>2. (\A d \in Client : ~AtWork(d, k)') /\ (\A b \in callbacks' : b.job # k)
      BY <2>1, <2>2, <2>3, <2>5, <3>1 DEF OneAtWork, Enter
    <3>3. \A h \in 1 .. MaxInstance : <<k, h>> \in timers' => h = i
      BY <2>1, <2>5, <3>1 DEF Enter, NoTimer
    <3>4. jobRow'[k] = i /\ jobEntry'[k] = i
      BY <2>1, <2>5, <3>1 DEF Enter
    <3>5. QED
      BY <3>2, <3>3, <3>4, <3>6 DEF KeyIsOrderly, OneAtWork
  <2>6. QED
    BY <2>4, <2>5
<1>6. ASSUME NEW c \in Client, NEW j \in Job, NEW i \in 1 .. MaxInstance, AddRefused(c, j, i) PROVE Goal
  <2>1. request[c] = Ask("schedule", j, i) /\ request'[c] = Ask("rollback", j, i) /\ k \notin upset
    BY <1>6 DEF AddRefused, Goes
  <2>2. \A d \in Client \ {c} : request'[d] = request[d] /\ (AtWork(d, k)' <=> AtWork(d, k))
    BY <1>6 DEF AddRefused, Goes, AtWork
  <2>3. (AtWork(c, k)' <=> k = j) /\ (AtWork(c, k) <=> k = j)
    BY <2>1 DEF AtWork, Ask
  <2>4. UNCHANGED <<jobRow, jobEntry, timers, callbacks, listed>>
    BY <1>6 DEF AddRefused
  <2>5. (Busy(k)' <=> Busy(k)) /\ (OneAtWork(k)' <=> OneAtWork(k)) /\ (NoTimer(k)' <=> NoTimer(k))
    BY <2>2, <2>3, <2>4 DEF Busy, OneAtWork, AtWork, NoTimer
  <2>6. QED
    BY <1>0, <2>1, <2>2, <2>3, <2>4, <2>5 DEF KeyIsOrderly, Ask
<1>7. ASSUME NEW c \in Client, NEW j \in Job, NEW i \in 1 .. MaxInstance,
             Rollback(c, j, i) \/ RemoveJob(c, j, i)
      PROVE  Goal
  <2>1. /\ request[c] \in {Ask("rollback", j, i), Ask("unschedule", j, i)}
        /\ request'[c] = NoRequest /\ k \notin upset /\ UNCHANGED <<callbacks, listed>>
    BY <1>7 DEF Rollback, RemoveJob, Goes
  <2>2. \A d \in Client \ {c} : request'[d] = request[d] /\ (AtWork(d, k)' <=> AtWork(d, k))
    BY <1>7 DEF Rollback, RemoveJob, Goes, AtWork
  <2>3. ~AtWork(c, k)' /\ (AtWork(c, k) <=> k = j)
    BY <2>1 DEF AtWork, Ask, NoRequest
  <2>4. CASE k # j
    <3>1. jobRow'[k] = jobRow[k] /\ jobEntry'[k] = jobEntry[k]
      BY <1>7, <2>4 DEF Rollback, RemoveJob
    <3>2. \A h \in 1 .. MaxInstance : <<k, h>> \in timers' <=> <<k, h>> \in timers
      BY <1>7, <2>4 DEF Rollback, RemoveJob
    <3>3. QED
      BY <1>0, <2>1, <2>2, <2>3, <2>4, <3>1, <3>2, KeyUntouched
  <2>5. CASE k = j
    <3>1. OneAtWork(k)
      BY <1>0, <2>1 DEF KeyIsOrderly
    <3>2. (\A d \in Client : ~AtWork(d, k)') /\ (\A b \in callbacks' : b.job # k)
      BY <2>1, <2>2, <2>3, <2>5, <3>1 DEF OneAtWork
    <3>3. NoTimer(k)'
      <4>1. CASE Rollback(c, j, i)
        BY <1>0, <2>1, <2>3, <2>5, <4>1 DEF Rollback, KeyIsOrderly, NoTimer, Ask
      <4>2. CASE RemoveJob(c, j, i)
        BY <1>0, <2>1, <2>5, <4>2 DEF RemoveJob, KeyIsOrderly, NoTimer
      <4>3. QED
        BY <1>7, <4>1, <4>2
    <3>4. listed'[k] = 0
      <4>1. CASE Rollback(c, j, i)
        BY <1>0, <2>1, <2>3, <2>5, <4>1 DEF Rollback, KeyIsOrderly, Ask
      <4>2. CASE RemoveJob(c, j, i)
        BY <2>1, <2>5, <4>2 DEF RemoveJob
      <4>3. QED
        BY <1>7, <4>1, <4>2
    <3>5. QED
      BY <3>2, <3>3, <3>4 DEF KeyIsOrderly, OneAtWork, NoTimer
  <2>6. QED
    BY <2>4, <2>5
<1>8. ASSUME NEW j \in Job, NEW i \in 1 .. MaxInstance, TimePasses(j, i) PROVE Goal
  BY <1>0, <1>8, KeyUntouched DEF TimePasses, AtWork
<1>9. ASSUME NEW j \in Job, NEW i \in 1 .. MaxInstance, FireAtJob(j, i) PROVE Goal
  <2> DEFINE b == [job |-> j, inst |-> i, stage |-> "fired"]
  <2>1. /\ k \notin upset /\ (k = j => ~Busy(k))
        /\ UNCHANGED <<jobRow, jobEntry, request, listed>> /\ callbacks' = callbacks \cup {b}
        /\ timers' = timers \ {<<j, i>>} /\ <<j, i>> \in timers
    BY <1>9 DEF FireAtJob
  <2>2. b.job = j
    OBVIOUS
  <2> HIDE DEF b
  <2>3. \A c \in Client : AtWork(c, k)' <=> AtWork(c, k)
    BY <2>1 DEF AtWork
  <2>4. CASE k # j
    BY <1>0, <2>1, <2>2, <2>3, <2>4, KeyUntouched
  <2>5. CASE k = j
    <3>1. (\A c \in Client : ~AtWork(c, k)') /\ (\A d \in callbacks' : d.job = k => d = b)
      BY <2>1, <2>3, <2>5 DEF Busy, AtWork
    <3>2. NoTimer(k)'
      BY <1>0, <2>1, <2>5 DEF KeyIsOrderly, NoTimer
    <3>3. listed'[k] = 0
      BY <1>0, <2>1, <2>5 DEF KeyIsOrderly
    <3>4. QED
      BY <3>1, <3>2, <3>3 DEF KeyIsOrderly, OneAtWork, NoTimer
  <2>6. QED
    BY <2>4, <2>5
<1>10. ASSUME NEW b \in callbacks, CleanScheduler(b) PROVE Goal
  <2> DEFINE e == [b EXCEPT !.stage = "cleaned"]
  <2>1. /\ k \notin upset /\ UNCHANGED <<jobRow, timers, request, listed>>
        /\ jobEntry' = [jobEntry EXCEPT ![b.job] = 0]
        /\ callbacks' = (callbacks \ {b}) \cup {e}
    BY <1>10 DEF CleanScheduler
  <2>2. e.job = b.job /\ b.job \in Job
    OBVIOUS
  <2> HIDE DEF e
  <2>3. \A c \in Client : AtWork(c, k)' <=> AtWork(c, k)
    BY <2>1 DEF AtWork
  <2>4. CASE k # b.job
    BY <1>0, <2>1, <2>2, <2>3, <2>4, KeyUntouched
  <2>5. CASE k = b.job
    <3>1. NoTimer(k) /\ OneAtWork(k)
      BY <1>0, <2>1, <2>5 DEF KeyIsOrderly
    <3>2. (\A c \in Client : ~AtWork(c, k)') /\ (\A d \in callbacks' : d.job = k => d = e)
      BY <2>1, <2>3, <2>5, <3>1 DEF OneAtWork
    <3>3. NoTimer(k)'
      BY <2>1, <3>1 DEF NoTimer
    <3>4. listed'[k] = 0
      BY <1>0, <2>1, <2>5 DEF KeyIsOrderly
    <3>5. QED
      BY <3>2, <3>3, <3>4 DEF KeyIsOrderly, OneAtWork, NoTimer
  <2>6. QED
    BY <2>4, <2>5
<1>11. ASSUME NEW b \in callbacks, CleanRow(b) PROVE Goal
  <2>1. /\ k \notin upset /\ UNCHANGED <<jobEntry, timers, request, listed>>
        /\ jobRow' = [jobRow EXCEPT ![b.job] = 0] /\ callbacks' = callbacks \ {b}
    BY <1>11 DEF CleanRow
  <2>2. \A c \in Client : AtWork(c, k)' <=> AtWork(c, k)
    BY <2>1 DEF AtWork
  <2>3. CASE k # b.job
    BY <1>0, <2>1, <2>2, <2>3, KeyUntouched
  <2>4. CASE k = b.job
    <3>1. NoTimer(k) /\ OneAtWork(k)
      BY <1>0, <2>1, <2>4 DEF KeyIsOrderly
    <3>2. (\A c \in Client : ~AtWork(c, k)') /\ (\A d \in callbacks' : d.job # k)
      BY <2>1, <2>2, <2>4, <3>1 DEF OneAtWork
    <3>3. NoTimer(k)'
      BY <2>1, <3>1 DEF NoTimer
    <3>4. listed'[k] = 0
      BY <1>0, <2>1, <2>4 DEF KeyIsOrderly
    <3>5. QED
      BY <3>2, <3>3, <3>4 DEF KeyIsOrderly, OneAtWork, NoTimer
  <2>5. QED
    BY <2>3, <2>4
<1>12. ASSUME NEW stored \in SUBSET ConfigJob, NEW read \in BOOLEAN, ListCronJobs(stored, read)
       PROVE  Goal
  <2>1. boot = "down" /\ UNCHANGED <<timers, callbacks, request, jobEntry>>
    BY <1>12 DEF ListCronJobs
  <2>2. (\A c \in Client : ~AtWork(c, k)') /\ callbacks' = {} /\ timers' = {}
    BY <2>1 DEF DownIsQuiet, AtWork, Serving
  <2>3. listed'[k] # 0 => k \notin AtJob /\ jobRow'[k] = listed'[k]
    BY <1>12, ListingReads
  <2>4. jobEntry[k] = 0
    BY <2>1 DEF DownIsQuiet
  <2>5. QED
    BY <2>1, <2>2, <2>3, <2>4 DEF KeyIsOrderly, OneAtWork, NoTimer
<1>13. ASSUME NEW valid \in SUBSET AtJob, NEW expired \in SUBSET AtJob, LoadAtJobs(valid, expired)
       PROVE  Goal
  <2>1. /\ boot = "listed" /\ UNCHANGED <<callbacks, request, listed, upset>>
        /\ jobRow' = [j \in Job |-> IF j \in expired THEN 0 ELSE jobRow[j]]
        /\ jobEntry' = [j \in Job |-> IF j \in valid THEN jobRow[j] ELSE 0]
        /\ timers' = {<<j, jobRow[j]>> : j \in valid}
        /\ valid \cap expired = {}
    BY <1>13 DEF LoadAtJobs, Loadable
  <2>2. (\A c \in Client : ~AtWork(c, k)') /\ callbacks' = {}
    BY <2>1 DEF DownIsQuiet, AtWork, Serving
  <2>3. \A i \in 1 .. MaxInstance : <<k, i>> \in timers' => jobRow'[k] = i /\ jobEntry'[k] = i
    BY <2>1
  <2>4. listed'[k] # 0 => k \notin AtJob /\ jobRow'[k] = listed'[k] /\ jobEntry'[k] = 0
    BY <1>0, <2>1, <2>2 DEF KeyIsOrderly, AtWork
  <2>5. QED
    BY <2>2, <2>3, <2>4 DEF KeyIsOrderly, OneAtWork, NoTimer
<1>14. ASSUME NEW j \in Job, AdminWithoutScheduler(j) PROVE Goal
  <2>1. /\ UNCHANGED <<jobEntry, timers, callbacks, request, listed>> /\ j \in AtJob
        /\ k \notin upset /\ (k = j => jobEntry[k] = 0 /\ ~Busy(k))
        /\ k # j => jobRow'[k] = jobRow[k]
    BY <1>14 DEF AdminWithoutScheduler
  <2>2. \A c \in Client : AtWork(c, k)' <=> AtWork(c, k)
    BY <2>1 DEF AtWork
  <2>3. CASE k # j
    BY <1>0, <2>1, <2>2, <2>3, KeyUntouched
  <2>4. CASE k = j
    <3>1. (\A c \in Client : ~AtWork(c, k)') /\ (\A b \in callbacks' : b.job # k)
      BY <2>1, <2>2, <2>4 DEF Busy, AtWork
    <3>2. NoTimer(k)' /\ listed'[k] = 0
      BY <1>0, <2>1, <2>4 DEF KeyIsOrderly, NoTimer
    <3>3. QED
      BY <3>1, <3>2 DEF KeyIsOrderly, OneAtWork, NoTimer
  <2>5. QED
    BY <2>3, <2>4
<1>15. ASSUME OpenServer PROVE Goal
  BY <1>0, <1>15, KeyUntouched DEF OpenServer, AtWork
<1>16. ASSUME NEW valid \in SUBSET (Job \ AtJob), LoadJobs(valid) PROVE Goal
  <2>1. /\ UNCHANGED <<jobRow, callbacks, request, upset>> /\ listed'[k] = 0
        /\ jobEntry'[k] = IF k \in valid THEN listed[k] ELSE jobEntry[k]
        /\ timers' = timers \cup {<<j, listed[j]>> : j \in valid}
        /\ \A j \in valid : listed[j] # 0
    BY <1>16 DEF LoadJobs
  <2>2. \A c \in Client : (AtWork(c, k)' <=> AtWork(c, k)) /\ request'[c] = request[c]
    BY <2>1 DEF AtWork
  <2>3. (Busy(k)' <=> Busy(k)) /\ OneAtWork(k)'
    BY <1>0, <2>1, <2>2 DEF Busy, KeyIsOrderly, OneAtWork
  <2>4. CASE k \notin valid
    <3>1. \A i \in 1 .. MaxInstance : <<k, i>> \in timers' <=> <<k, i>> \in timers
      BY <2>1, <2>4
    <3>2. NoTimer(k)' <=> NoTimer(k)
      BY <3>1 DEF NoTimer
    <3>3. QED
      BY <1>0, <2>1, <2>2, <2>3, <2>4, <3>1, <3>2 DEF KeyIsOrderly
  <2>5. CASE k \in valid
    <3>1. /\ jobEntry[k] = 0
          /\ jobRow[k] = listed[k] \/ \E c \in Client : AtWork(c, k)
          /\ \A c \in Client : AtWork(c, k) => request[c].op = "unschedule"
      BY <1>0, <2>1, <2>5 DEF KeyIsOrderly
    <3>2. \A i \in 1 .. MaxInstance : <<k, i>> \in timers' => i = listed[k]
      BY <1>0, <2>1, <2>5, <3>1 DEF KeyIsOrderly
    <3>3. \A b \in callbacks' : b.job # k
      BY <2>1, <2>5
    <3>4. ~Busy(k)' => jobRow'[k] = listed[k]
      BY <2>1, <2>3, <3>1 DEF Busy, AtWork
    <3>5. \A c \in Client : AtWork(c, k)' => request'[c].op = "unschedule"
      BY <2>2, <3>1
    <3>6. QED
      BY <2>1, <2>3, <2>5, <3>2, <3>3, <3>4, <3>5 DEF KeyIsOrderly
  <2>6. QED
    BY <2>4, <2>5
<1>17. ASSUME Stop PROVE Goal
  BY <1>17 DEF Stop, KeyIsOrderly, OneAtWork, AtWork, NoRequest, NoTimer
<1>18. ASSUME UserDeleted PROVE Goal
  BY <1>18 DEF UserDeleted
<1>19. ASSUME UNCHANGED schedulerVars PROVE Goal
  BY <1>0, <1>19, KeyUntouched DEF schedulerVars, AtWork
<1> HIDE DEF Goal
<1>20. Goal
  BY <1>1, <1>2, <1>3, <1>4, <1>5, <1>6, <1>7, <1>8, <1>9, <1>10, <1>11, <1>12, <1>17, <1>18, <1>19,
     <1>13, <1>14, <1>15, <1>16
     DEF SchedulerNext, HandleAddCron, HandleAddAt, HandleRemoveCron, HandleRemoveAt, FireJob
<1>21. QED
  BY <1>20 DEF Goal

SchedulerIInv == SchedulerTypes /\ FiredAreGone /\ DownIsQuiet /\ Orderly

\* The invariant of the scheduler, for any jobs, requests and restarts.
LEMMA SchedulerInductive == SchedulerSpec => []SchedulerIInv
<1>1. SchedulerInit => SchedulerIInv
  <2> SUFFICES ASSUME SchedulerInit PROVE SchedulerIInv
    OBVIOUS
  <2> USE SchedulerAssumption DEF SchedulerInit
  <2>1. SchedulerTypes
    BY DEF SchedulerTypes, SchedulerTypeOK, Request, BootPhase
  <2>2. FiredAreGone
    BY DEF FiredAreGone
  <2>3. DownIsQuiet /\ Orderly
    BY DEF DownIsQuiet, Orderly, KeyIsOrderly, OneAtWork, NoTimer, AtWork, NoRequest
  <2>4. QED
    BY <2>1, <2>2, <2>3 DEF SchedulerIInv
<1>2. SchedulerIInv /\ [SchedulerNext]_schedulerVars => SchedulerIInv'
  BY SchedulerTypesStep, FiredAreGoneStep, DownIsQuietStep, OrderlyStep DEF SchedulerIInv
<1>3. QED
  BY <1>1, <1>2, PTL DEF SchedulerSpec

\* A one-shot job fires at most once, wherever the gateway stops between the
\* firing, the clean-up of the map and that of the row, and however often it
\* starts again (scheduleAtJob, LoadAtJobs).
THEOREM AtJobsFireOnce == SchedulerSpec => []AtFiresAtMostOnce
<1>1. SchedulerIInv => AtFiresAtMostOnce
  BY DEF SchedulerIInv, FiredAreGone, AtFiresAtMostOnce
<1>2. QED
  BY <1>1, SchedulerInductive, PTL

\* What the scheduler would fire for a key that nothing is at work on is the
\* stored job and is in the map, through any number of starts, stops and
\* requests, those included that meet a start between the reading and the
\* loading of the cron rows; except for a key that, since the last start, one
\* of the events listed at WhatFiresIsStored upset (HandleAdd, HandleRemove,
\* scheduleAtJob, LoadJobs).
THEOREM ScheduledIsStored == SchedulerSpec => []WhatFiresIsStored
<1>1. SchedulerIInv => WhatFiresIsStored
  BY DEF SchedulerIInv, Orderly, KeyIsOrderly, WhatFiresIsStored
<1>2. QED
  BY <1>1, SchedulerInductive, PTL

(***************************************************************************)
(* Lifecycle: the order of the phases.                                     *)
(***************************************************************************)

LifecycleSpec == LifecycleInit /\ [][LifecycleNext]_lifecycleVars

\* The parts that have not been stopped.
Unstopped == Part \ halted

\* A part is stopped only in its phase, so what has stopped had its phase
\* before all that has not, and the phase being stopped is the first of those;
\* a part whose stop function waits is not at work after it.
StoppedInOrder ==
    /\ alive \subseteq Part /\ halted \subseteq Part
    /\ life \in {"starting", "serving"} => halted = {}
    /\ \A c \in halted, d \in Unstopped : PhaseOf[c] <= PhaseOf[d]
    /\ (life = "stopping" /\ Unstopped # {}) => phase \in Nat /\ \A d \in Unstopped : phase <= PhaseOf[d]
    /\ alive \cap halted \cap Awaited = {}

\* The parts by name.
Names == {"logger", "telemetry", "datastore", "heartbeat-cleanup", "health-monitor", "admin-server",
          "broker", "publisher", "dispatcher", "deduplicator", "event-consumer",
          "runtime-monitor", "http-server", "adapters"}
LEMMA PartsHaveNames == Part \subseteq Names
<1> SUFFICES ASSUME NEW c \in Part PROVE c \in Names
  OBVIOUS
<1>1. Foundations \in Seq(Names)
  BY DEF Foundations, Names
<1>2. Pipeline \in Seq(Names)
  BY DEF Pipeline, Names
<1>3. Entrances \in Seq(Names)
  BY DEF Entrances, Names
<1>4. StartOrder \in Seq(Names)
  BY <1>1, <1>2, <1>3 DEF StartOrder
<1>5. QED
  BY <1>4 DEF Part, ToSet

\* Phases are numbers, and no part is in phase 0.
LEMMA PhasesAreNumbers == \A c \in Part : PhaseOf[c] \in Nat /\ PhaseOf[c] > 0
BY PartsHaveNames DEF Names, PhaseOf

\* A part that calls another has the earlier phase, but for the four pairs.
LEMMA UsersStopFirst ==
  ASSUME NEW u \in Uses \ Reversed, u[1] \in Part, u[2] \in Part
  PROVE  PhaseOf[u[1]] < PhaseOf[u[2]]
<1>1. CASE u[2] = "logger"
  <2>1. u[1] # "logger"
    BY <1>1 DEF Uses
  <2>2. QED
    BY <1>1, <2>1, PartsHaveNames DEF Names, PhaseOf
<1>2. CASE u[2] # "logger"
  BY <1>2 DEF Uses, Reversed, PhaseOf
<1>3. QED
  BY <1>1, <1>2

\* First is the least of phases that are there.
LEMMA FirstIsLeast ==
  ASSUME NEW S, S \subseteq Nat, S # {}
  PROVE  First(S) \in S /\ \A y \in S : First(S) <= y
<1> DEFINE R == OpToRel(<, Nat)
<1>1. PICK x \in S : \A y \in S : ~(<<y, x>> \in R)
  BY WFMin, NatLessThanWellFounded
<1>2. \A a, b \in Nat : <<b, a>> \in R <=> b < a
  BY DEF OpToRel
<1> HIDE DEF R
<1>3. ASSUME NEW y \in S PROVE x <= y
  <2>1. x \in Nat /\ y \in Nat /\ ~(y < x)
    BY <1>1, <1>2
  <2>2. QED
    BY <2>1
<1>4. QED
  BY <1>3 DEF First

\* The phase that follows p, of parts that all come after p.
LEMMA NextOfPhases ==
  ASSUME NEW p \in Nat, NEW run \in SUBSET Part, run # {}, \A d \in run : PhaseOf[d] > p
  PROVE  /\ First(Later(p)) \in Nat /\ \A d \in run : First(Later(p)) <= PhaseOf[d]
<1>1. \A d \in run : PhaseOf[d] \in Later(p)
  BY DEF Later
<1>2. Later(p) \subseteq Nat
  BY PhasesAreNumbers DEF Later
<1>3. QED
  BY <1>1, <1>2, FirstIsLeast

\* Every step keeps the order.
LEMMA LifecycleStep == StoppedInOrder /\ [LifecycleNext]_lifecycleVars => StoppedInOrder'
<1> SUFFICES ASSUME StoppedInOrder, [LifecycleNext]_lifecycleVars PROVE StoppedInOrder'
  OBVIOUS
<1>1. CASE StartParts
  BY <1>1 DEF StartParts, StoppedInOrder
<1>2. CASE StartFails
  BY <1>2 DEF StartFails, StoppedInOrder
<1>3. CASE Signal
  <2>1. /\ life = "serving" /\ phase' = First(Later(0)) /\ UNCHANGED <<alive, halted>> /\ halted = {}
        /\ Unstopped \in SUBSET Part
    BY <1>3 DEF Signal, StoppedInOrder, Unstopped
  <2>2. Unstopped # {} => First(Later(0)) \in Nat /\ \A d \in Unstopped : First(Later(0)) <= PhaseOf[d]
    BY <2>1, PhasesAreNumbers, NextOfPhases
  <2>3. QED
    BY <2>1, <2>2 DEF StoppedInOrder, Unstopped
<1>4. ASSUME NEW c \in Part, StopPart(c) PROVE StoppedInOrder'
  <2>1. /\ life = "stopping" /\ c \in Unstopped /\ PhaseOf[c] = phase /\ halted' = halted \cup {c}
        /\ UNCHANGED <<life, phase>>
    BY <1>4 DEF StopPart, Unstopped
  <2>2. Unstopped' = Unstopped \ {c}
    BY <2>1 DEF Unstopped
  <2>3. alive' \subseteq alive /\ (c \in Awaited => c \notin alive')
    BY <1>4 DEF StopPart
  <2>4. \A x \in halted', d \in Unstopped' : PhaseOf[x] <= PhaseOf[d]
    BY <2>1, <2>2 DEF StoppedInOrder
  <2>5. QED
    BY <2>1, <2>2, <2>3, <2>4 DEF StoppedInOrder
<1>5. CASE PhaseTimesOut
  BY <1>5 DEF PhaseTimesOut, StoppedInOrder, Unstopped
<1>6. CASE NextPhase
  <2>1. life = "stopping" /\ InPhase = {} /\ UNCHANGED <<alive, halted>> /\ Unstopped \in SUBSET Part
    BY <1>6 DEF NextPhase, StoppedInOrder, Unstopped
  <2>2. Unstopped # {} => phase \in Nat /\ \A d \in Unstopped : PhaseOf[d] > phase
    <3>1. \A d \in Unstopped : PhaseOf[d] # phase
      BY <2>1 DEF InPhase, Unstopped
    <3>2. QED
      BY <2>1, <3>1, PhasesAreNumbers DEF StoppedInOrder
  <2>3. Unstopped # {} => First(Later(phase)) \in Nat /\ \A d \in Unstopped : First(Later(phase)) <= PhaseOf[d]
    BY <2>1, <2>2, NextOfPhases
  <2>4. life' = "ended" \/ (phase' = First(Later(phase)) /\ life' = "stopping")
    BY <1>6 DEF NextPhase
  <2>5. QED
    BY <2>1, <2>3, <2>4 DEF StoppedInOrder, Unstopped
<1>7. ASSUME NEW c \in Part, WorkEnds(c) PROVE StoppedInOrder'
  BY <1>7 DEF WorkEnds, StoppedInOrder, Unstopped
<1>8. CASE UNCHANGED lifecycleVars
  BY <1>8 DEF lifecycleVars, StoppedInOrder, Unstopped
<1>9. QED
  BY <1>1, <1>2, <1>3, <1>4, <1>5, <1>6, <1>7, <1>8 DEF LifecycleNext, Stops

\* No part is at work after one that it calls has been stopped (serve's phases,
\* shutdownGroup), because whoever calls another has the earlier phase; except
\* in the four pairs of Reversed and for what is left unfinished by a stop
\* function that does not wait.
THEOREM CallersStopFirst == LifecycleSpec => []UsedPartsRun
<1>1. LifecycleInit => StoppedInOrder
  BY DEF LifecycleInit, StoppedInOrder
<1>2. StoppedInOrder => UsedPartsRun
  <2> SUFFICES ASSUME StoppedInOrder, NEW u \in Uses \ Reversed, u[2] \in halted, u[1] \in alive
               PROVE  u[1] \in halted \ Awaited
    BY DEF UsedPartsRun
  <2>1. u[1] \in Part /\ u[2] \in Part /\ (u[1] \in halted => u[1] \notin Awaited)
    BY DEF StoppedInOrder
  <2>2. PhaseOf[u[1]] < PhaseOf[u[2]] /\ PhaseOf[u[1]] \in Nat /\ PhaseOf[u[2]] \in Nat
    BY <2>1, UsersStopFirst, PhasesAreNumbers
  <2>3. u[1] \in halted
    <3>1. ASSUME u[1] \in Unstopped PROVE FALSE
      BY <2>2, <3>1 DEF StoppedInOrder
    <3>2. QED
      BY <2>1, <3>1 DEF Unstopped
  <2>4. QED
    BY <2>1, <2>3
<1>3. QED
  BY <1>1, <1>2, LifecycleStep, PTL DEF LifecycleSpec
================================================================================
