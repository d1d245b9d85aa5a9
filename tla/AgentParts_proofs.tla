-------------------------- MODULE AgentParts_proofs ---------------------------
(***************************************************************************)
(* Proofs about parts of the agent: AgentTurn, for any tools, steps and    *)
(* messages; TokenProvider, for any goroutines, grants and failures;       *)
(* SharedSession, for any processes and crashes; ContextWindow, for any    *)
(* windows, thresholds and sizes of messages.                              *)
(***************************************************************************)
EXTENDS AgentTurn, TokenProvider, SharedSession, ContextWindow, WellFoundedInduction, TLAPS

(***************************************************************************)
(* Induction.                                                              *)
(***************************************************************************)

\* A set of numbers that is not empty has a least one.
LEMMA LeastOne ==
  ASSUME NEW S, S \subseteq Nat, S # {}
  PROVE  \E x \in S : \A y \in S : x <= y
<1> DEFINE R == OpToRel(<, Nat)
<1>1. PICK x \in S : \A y \in S : ~(<<y, x>> \in R)
  BY WFMin, NatLessThanWellFounded
<1>2. \A a, b \in Nat : <<b, a>> \in R <=> b < a
  BY DEF OpToRel
<1> HIDE DEF R
<1>3. ASSUME NEW y \in S PROVE x <= y
  <2>1. x \in Nat /\ y \in Nat /\ ~(y < x)
    BY <1>1, <1>2
  <2>2. QED
    BY <2>1
<1>4. QED
  BY <1>3

\* Induction up to n, on a set of numbers.
LEMMA UpTo ==
  ASSUME NEW n \in Nat, NEW T, 0 \in T, \A i \in 1 .. n : i - 1 \in T => i \in T
  PROVE  0 .. n \subseteq T
<1> DEFINE Bad == (0 .. n) \ T
<1>1. SUFFICES ASSUME Bad # {} PROVE FALSE
  OBVIOUS
<1>2. Bad \subseteq Nat
  OBVIOUS
<1> HIDE DEF Bad
<1>3. PICK m \in Bad : \A y \in Bad : m <= y
  BY <1>1, <1>2, LeastOne
<1>4. m \in 1 .. n /\ m \notin T /\ m - 1 \in 0 .. n /\ ~(m <= m - 1)
  BY <1>3 DEF Bad
<1>5. m - 1 \in T
  BY <1>3, <1>4 DEF Bad
<1>6. QED
  BY <1>4, <1>5

(***************************************************************************)
(* AgentTurn: the events of a message and the calls of a tool.             *)
(***************************************************************************)

TurnSpec == TurnInit /\ [][TurnNext]_turnVars

TurnTypes ==
    /\ count \in [Tool -> Nat] /\ ran \in [Tool -> Nat]
    /\ outcome \in Seq({"done", "error"}) /\ toolErrors \in Nat

\* While the agent's tools are wrapped every call that reached a tool was
\* counted, and none beyond the limit got through.
CallsAreCounted ==
    agent.wrapped => \A t \in Tool : ran[t] <= count[t] /\ ran[t] <= Limit(t)

\* What the agent has lost the next agent will not have: a rebuild takes the
\* kit, and the kit loses its wrapping first.
UnwrappedForGood == kit.wrapped => agent.wrapped

\* Until its tools are assembled a message has the empty kit.
LoadedHasNoKit == phase = "loaded" => agent.wrapped

TurnIInv == TurnTypes /\ CallsAreCounted /\ UnwrappedForGood /\ LoadedHasNoKit /\ OneEventPerTurn

\* Forgetting the locals of a message leaves nothing to count.
LEMMA ForgetKeeps == Forget => /\ CallsAreCounted' /\ UnwrappedForGood' /\ LoadedHasNoKit'
                               /\ count' \in [Tool -> Nat] /\ ran' \in [Tool -> Nat]
<1> SUFFICES ASSUME Forget PROVE /\ CallsAreCounted' /\ UnwrappedForGood' /\ LoadedHasNoKit'
                                 /\ count' \in [Tool -> Nat] /\ ran' \in [Tool -> Nat]
  OBVIOUS
<1>1. kit' = NoKit /\ agent' = NoKit /\ count' = NoCalls /\ ran' = NoCalls
  BY DEF Forget
<1>2. NoKit.wrapped /\ NoCalls \in [Tool -> Nat]
  BY DEF NoKit, NoCalls
<1>3. \A t \in Tool : NoCalls[t] = 0 /\ Limit(t) \in Nat
  BY DEF NoCalls, Limit, maxIdenticalToolCalls, maxIdenticalSkillExecCalls
<1>4. CallsAreCounted'
  BY <1>1, <1>3 DEF CallsAreCounted, Limit
<1>5. QED
  BY <1>1, <1>2, <1>4 DEF UnwrappedForGood, LoadedHasNoKit

\* Every step keeps the count of calls and of events.
LEMMA TurnStep == TurnIInv /\ [TurnNext]_turnVars => TurnIInv'
<1> SUFFICES ASSUME TurnIInv, [TurnNext]_turnVars PROVE TurnIInv'
  OBVIOUS
<1> USE TurnAssumption DEF TurnIInv, TurnTypes
<1> DEFINE Counts == CallsAreCounted' /\ UnwrappedForGood' /\ LoadedHasNoKit'
<1>1. CASE HandleCommand \/ LoadSession
  <2>1. Forget /\ toolErrors' = 0 /\ phase' \in {"loaded", "ended"}
    BY <1>1 DEF HandleCommand, LoadSession, NewMessage
  <2>2. \/ phase' = "ended" /\ lost'
        \/ phase' = "ended" /\ outcome' = <<"done">>
        \/ phase' = "loaded" /\ outcome' = <<>>
    BY <1>1, Zenon DEF HandleCommand, LoadSession
  <2>3. outcome' = <<>> \/ outcome' = <<"done">>
    BY <1>1, Zenon DEF HandleCommand, LoadSession
  <2>4. outcome' \in Seq({"done", "error"})
    <3>1. <<>> \in Seq({"done", "error"}) /\ <<"done">> \in Seq({"done", "error"})
      OBVIOUS
    <3>2. QED
      BY <2>3, <3>1
  <2>5. OneEventPerTurn'
    BY <2>1, <2>2 DEF OneEventPerTurn
  <2>6. QED
    BY <2>1, <2>4, <2>5, ForgetKeeps
<1>2. CASE Prepare
  <2>1. PICK matched \in MatchedTools : kit' = AssembleTools(matched)
    BY <1>2 DEF Prepare
  <2>2. kit'.wrapped = TRUE
    BY <2>1 DEF AssembleTools
  <2>3. agent' = kit' /\ UNCHANGED <<count, ran, outcome, toolErrors, lost>>
        /\ phase = "loaded" /\ phase' = "running"
    BY <1>2 DEF Prepare
  <2>4. Counts
    BY <2>2, <2>3 DEF CallsAreCounted, UnwrappedForGood, LoadedHasNoKit, Limit
  <2>5. OneEventPerTurn'
    BY <2>3 DEF OneEventPerTurn
  <2>6. QED
    BY <2>2, <2>3, <2>4, <2>5
<1>3. CASE InitFails
  <2>1. Counts
    BY <1>3 DEF InitFails, CallsAreCounted, UnwrappedForGood, LoadedHasNoKit, Limit
  <2>2. QED
    BY <1>3, <2>1 DEF InitFails, OneEventPerTurn
<1>4. ASSUME NEW t \in Tool, CallTool(t) PROVE TurnIInv'
  <2>0. /\ UNCHANGED <<kit, agent>> /\ phase = "running"
        /\ count' = count \/ count' = [count EXCEPT ![t] = @ + 1]
        /\ ran' = ran \/ ran' = [ran EXCEPT ![t] = @ + 1]
    BY <1>4 DEF CallTool
  <2>1. count' \in [Tool -> Nat] /\ ran' \in [Tool -> Nat] /\ UNCHANGED <<kit, agent>>
    <3>1. count' \in [Tool -> Nat]
      BY <2>0
    <3>2. ran' \in [Tool -> Nat]
      BY <2>0
    <3>3. QED
      BY <2>0, <3>1, <3>2
  <2>2. outcome' \in Seq({"done", "error"}) /\ toolErrors' \in Nat /\ OneEventPerTurn'
    <3>1. CASE UNCHANGED <<phase, outcome, toolErrors>>
      BY <2>0, <3>1 DEF OneEventPerTurn
    <3>2. CASE ToolFails
      <4>1. /\ outcome' = Append(outcome, "error") /\ toolErrors' = toolErrors + 1
            /\ phase' = "failed" /\ Len(outcome) = toolErrors
        BY <2>0, <3>2 DEF ToolFails, OneEventPerTurn
      <4>2. outcome' \in Seq({"done", "error"}) /\ Len(outcome') = Len(outcome) + 1
        BY <4>1
      <4>3. QED
        BY <4>1, <4>2 DEF OneEventPerTurn
    <3>3. QED
      BY <1>4, <3>1, <3>2 DEF CallTool
  <2>3. CallsAreCounted'
    <3> SUFFICES ASSUME agent'.wrapped, NEW u \in Tool
                 PROVE  ran'[u] <= count'[u] /\ ran'[u] <= Limit(u)
      BY DEF CallsAreCounted, Limit
    <3>1. ran[u] <= count[u] /\ ran[u] <= Limit(u)
      BY <2>1 DEF CallsAreCounted
    <3>2. Limit(u) \in Nat
      BY DEF Limit, maxIdenticalToolCalls, maxIdenticalSkillExecCalls
    <3>3. count' = [count EXCEPT ![t] = @ + 1]
      BY <1>4, <2>1 DEF CallTool
    <3>4. CASE UNCHANGED ran
      BY <3>1, <3>3, <3>4
    <3>5. CASE ~Exceeded(t) /\ ran' = [ran EXCEPT ![t] = @ + 1]
      BY <3>1, <3>2, <3>3, <3>5 DEF Exceeded
    <3>6. QED
      BY <1>4, <2>1, <3>4, <3>5 DEF CallTool
  <2>4. UnwrappedForGood' /\ LoadedHasNoKit'
    BY <1>4 DEF CallTool, ToolFails, UnwrappedForGood, LoadedHasNoKit
  <2>5. QED
    BY <2>1, <2>2, <2>3, <2>4
<1>5. ASSUME NEW f \in Failure, GenerateFails(f) PROVE TurnIInv'
  <2>1. Counts
    BY <1>5 DEF GenerateFails, CallsAreCounted, UnwrappedForGood, LoadedHasNoKit, Limit
  <2>2. QED
    BY <1>5, <2>1 DEF GenerateFails, OneEventPerTurn
<1>6. CASE RetryWithoutImages \/ RebuildWithHint \/ Backoff
  <2>1. /\ UNCHANGED <<kit, count, ran, outcome, toolErrors, lost>> /\ agent' \in {agent, kit}
        /\ phase = "failed" /\ phase' = "running"
    BY <1>6 DEF RetryWithoutImages, RebuildWithHint, Backoff, NextAttempt
  <2>2. Counts
    BY <2>1 DEF CallsAreCounted, UnwrappedForGood, LoadedHasNoKit, Limit
  <2>3. QED
    BY <2>1, <2>2 DEF OneEventPerTurn
<1>7. CASE RebuildAfterReconnect
  <2>1. /\ UNCHANGED <<count, ran, outcome, toolErrors, lost>>
        /\ kit' = [tools |-> Tool, wrapped |-> FALSE] /\ agent' \in {agent, kit'}
        /\ phase = "failed" /\ phase' = "running"
    BY <1>7 DEF RebuildAfterReconnect, NextAttempt
  <2>2. kit'.wrapped = FALSE
    BY <2>1
  <2>3. Counts
    BY <2>1, <2>2 DEF CallsAreCounted, UnwrappedForGood, LoadedHasNoKit, Limit
  <2>4. QED
    BY <2>1, <2>2, <2>3 DEF OneEventPerTurn
<1>8. ASSUME CancelledInBackoff \/ GiveUp \/ \E r \in Readings : GenerateAnswers(r) PROVE TurnIInv'
  <2>1. /\ Forget /\ UNCHANGED toolErrors /\ phase \in {"failed", "running"}
        /\ \/ phase' = "ended" /\ lost' /\ UNCHANGED outcome
           \/ phase' = "ended" /\ outcome' = Append(outcome, "error")
           \/ phase' = "answered" /\ UNCHANGED outcome
    BY <1>8 DEF CancelledInBackoff, GiveUp, GenerateAnswers
  <2>2. /\ Len(outcome) = toolErrors
        /\ Append(outcome, "error") \in Seq({"done", "error"})
        /\ Len(Append(outcome, "error")) = Len(outcome) + 1
    BY <2>1 DEF OneEventPerTurn
  <2>3. OneEventPerTurn'
    BY <2>1, <2>2 DEF OneEventPerTurn
  <2>4. QED
    BY <2>1, <2>2, <2>3, ForgetKeeps
<1>9. CASE PublishDone
  <2>1. Counts
    BY <1>9 DEF PublishDone, CallsAreCounted, UnwrappedForGood, LoadedHasNoKit, Limit
  <2>2. PICK ok \in BOOLEAN : outcome' = (IF ok THEN Append(outcome, "done") ELSE outcome) /\ lost' = ~ok
    BY <1>9 DEF PublishDone
  <2>3. /\ phase = "answered" /\ phase' = "ended"
        /\ UNCHANGED <<kit, agent, count, ran, toolErrors>>
    BY <1>9 DEF PublishDone
  <2>4. outcome' \in Seq({"done", "error"}) /\ OneEventPerTurn'
    <3>1. CASE ok
      BY <2>2, <2>3, <3>1 DEF OneEventPerTurn
    <3>2. CASE ~ok
      BY <2>2, <2>3, <3>2 DEF OneEventPerTurn
    <3>3. QED
      BY <3>1, <3>2
  <2>5. QED
    BY <2>1, <2>3, <2>4
<1>10. CASE UNCHANGED turnVars
  <2>1. Counts
    BY <1>10 DEF turnVars, CallsAreCounted, UnwrappedForGood, LoadedHasNoKit, Limit
  <2>2. QED
    BY <1>10, <2>1 DEF turnVars, OneEventPerTurn
<1>11. QED
  BY <1>1, <1>2, <1>3, <1>4, <1>5, <1>6, <1>7, <1>8, <1>9, <1>10 DEF TurnNext, Recovers

\* The invariant of a turn, for any tools and steps.
LEMMA TurnInductive == TurnSpec => []TurnIInv
<1>1. TurnInit => TurnIInv
  <2> SUFFICES ASSUME TurnInit PROVE TurnIInv
    OBVIOUS
  <2>1. kit = NoKit /\ agent = NoKit /\ count = NoCalls /\ ran = NoCalls
        /\ outcome = <<"done">> /\ toolErrors = 0 /\ phase = "ended"
    BY DEF TurnInit
  <2>2. TurnTypes
    BY <2>1 DEF TurnTypes, NoCalls
  <2>3. CallsAreCounted
    BY <2>1 DEF CallsAreCounted, NoCalls, Limit, maxIdenticalToolCalls, maxIdenticalSkillExecCalls
  <2>4. UnwrappedForGood /\ LoadedHasNoKit /\ OneEventPerTurn
    BY <2>1 DEF UnwrappedForGood, LoadedHasNoKit, OneEventPerTurn, NoKit
  <2>5. QED
    BY <2>2, <2>3, <2>4 DEF TurnIInv
<1>2. QED
  BY <1>1, TurnStep, PTL DEF TurnSpec

\* A call with the same arguments reaches its tool at most four times in one
\* message (skill_exec twice), for any tools, steps and failures, unless the
\* agent was rebuilt after a transport error (dedupTool, toolCallTracker).
THEOREM CallsAreBounded == TurnSpec => []RepeatsAreBounded
<1>1. TurnIInv => RepeatsAreBounded
  BY DEF TurnIInv, CallsAreCounted, RepeatsAreBounded
<1>2. QED
  BY <1>1, TurnInductive, PTL

\* g is what is left of the first i segments of c, up to n.
LeftOf(g, c, gone, n) ==
    /\ DOMAIN g = 0 .. n /\ g = [i \in 0 .. n |-> g[i]] /\ g[0] = <<>>
    /\ \A i \in 1 .. n : g[i] = IF c[i] \in gone THEN g[i - 1] ELSE Append(g[i - 1], c[i])

\* There is such a g.
LEMMA LeftExists ==
  ASSUME NEW S, NEW c \in Seq(S), NEW gone
  PROVE  \E g : LeftOf(g, c, gone, Len(c))
<1> DEFINE T == {m \in 0 .. Len(c) : \E g : LeftOf(g, c, gone, m)}
<1>1. 0 \in T
  <2> DEFINE g == [i \in 0 .. 0 |-> <<>>]
  <2>1. LeftOf(g, c, gone, 0)
    BY DEF LeftOf
  <2> HIDE DEF g
  <2>2. QED
    BY <2>1
<1>2. ASSUME NEW m \in 1 .. Len(c), m - 1 \in T PROVE m \in T
  <2> DEFINE k == m - 1
  <2>1. k \in Nat /\ m \in Nat /\ m = k + 1 /\ m \in 0 .. Len(c)
    OBVIOUS
  <2>2. PICK g : LeftOf(g, c, gone, k)
    BY <1>2
  <2> HIDE DEF k
  <2> DEFINE x == IF c[m] \in gone THEN g[k] ELSE Append(g[k], c[m])
  <2> HIDE DEF x
  <2> DEFINE e == [i \in 0 .. m |-> IF i = m THEN x ELSE g[i]]
  <2>3. e[0] = <<>> /\ e[m] = x /\ e[k] = g[k]
    BY <2>1, <2>2 DEF LeftOf
  <2>4. ASSUME NEW i \in 1 .. m PROVE e[i] = IF c[i] \in gone THEN e[i - 1] ELSE Append(e[i - 1], c[i])
    <3>1. CASE i = m
      <4>1. i - 1 = k
        BY <2>1, <3>1
      <4>2. QED
        BY <2>3, <3>1, <4>1 DEF x
    <3>2. CASE i # m
      <4>1. i \in 1 .. k /\ i - 1 \in 0 .. k /\ i - 1 # m /\ i - 1 \in 0 .. m /\ i \in 0 .. m
        BY <2>1, <3>2
      <4>2. g[i] = IF c[i] \in gone THEN g[i - 1] ELSE Append(g[i - 1], c[i])
        BY <2>2, <4>1 DEF LeftOf
      <4>3. e[i] = g[i] /\ e[i - 1] = g[i - 1]
        BY <3>2, <4>1
      <4>4. QED
        BY <4>2, <4>3
    <3>3. QED
      BY <3>1, <3>2
  <2>5. LeftOf(e, c, gone, m)
    BY <2>3, <2>4 DEF LeftOf
  <2> HIDE DEF e
  <2>6. QED
    BY <2>1, <2>5
<1>3. Len(c) \in Nat
  OBVIOUS
<1> HIDE DEF T
<1>4. 0 .. Len(c) \subseteq T
  BY <1>1, <1>2, <1>3, UpTo
<1>5. QED
  BY <1>3, <1>4 DEF T

\* A segment more is in the set of the segments.
LEMMA AppendedSegment ==
  ASSUME NEW S, NEW s \in Seq(S), NEW x \in S
  PROVE  Append(s, x) \in Seq(S) /\ ToSet(Append(s, x)) = ToSet(s) \cup {x}
<1> DEFINE t == Append(s, x)
<1>1. /\ t \in Seq(S) /\ Len(t) = Len(s) + 1 /\ t[Len(s) + 1] = x /\ Len(s) \in Nat
      /\ \A i \in 1 .. Len(s) : t[i] = s[i]
  OBVIOUS
<1> HIDE DEF t
<1>2. \A i \in 1 .. Len(t) : i \in 1 .. Len(s) \/ i = Len(s) + 1
  BY <1>1
<1>3. \A i \in 1 .. Len(s) : i \in 1 .. Len(t)
  BY <1>1
<1>4. Len(s) + 1 \in 1 .. Len(t)
  BY <1>1
<1>5. ASSUME NEW y PROVE y \in ToSet(t) <=> y \in ToSet(s) \/ y = x
  BY <1>1, <1>2, <1>3, <1>4 DEF ToSet
<1>6. QED
  BY <1>1, <1>5 DEF t

\* Without takes out just those.
LEMMA WithoutTakesOut ==
  ASSUME NEW S, NEW c \in Seq(S), NEW gone
  PROVE  Without(c, gone) \in Seq(S) /\ ToSet(Without(c, gone)) = ToSet(c) \ gone
<1>1. Len(c) \in Nat /\ Len(c) \in 0 .. Len(c)
  OBVIOUS
<1>2. PICK g : LeftOf(g, c, gone, Len(c))
  BY LeftExists
<1> DEFINE Is(f) ==
      f = [i \in 0 .. Len(c) |-> IF i = 0 THEN <<>> ELSE IF c[i] \in gone THEN f[i - 1] ELSE Append(f[i - 1], c[i])]
<1>3. Is(g)
  <2>1. \A i \in 0 .. Len(c) : i = 0 \/ i \in 1 .. Len(c)
    BY <1>1
  <2>2. \A i \in 0 .. Len(c) :
           g[i] = IF i = 0 THEN <<>> ELSE IF c[i] \in gone THEN g[i - 1] ELSE Append(g[i - 1], c[i])
    BY <1>2, <2>1 DEF LeftOf
  <2>3. QED
    BY <1>2, <2>2 DEF LeftOf
<1> DEFINE s == CHOOSE f : Is(f)
<1>4. Without(c, gone) = s[Len(c)]
  BY DEF Without
<1>5. Is(s)
  BY <1>3
<1> HIDE DEF s
<1>6. s[0] = <<>> /\ \A i \in 1 .. Len(c) : s[i] = IF c[i] \in gone THEN s[i - 1] ELSE Append(s[i - 1], c[i])
  <2>1. ASSUME NEW i \in 0 .. Len(c)
        PROVE  s[i] = IF i = 0 THEN <<>> ELSE IF c[i] \in gone THEN s[i - 1] ELSE Append(s[i - 1], c[i])
    BY <1>5, Zenon
  <2>2. 0 \in 0 .. Len(c) /\ \A i \in 1 .. Len(c) : i \in 0 .. Len(c) /\ i # 0
    BY <1>1
  <2> HIDE DEF Is
  <2>3. QED
    BY <2>1, <2>2
<1> HIDE DEF Is
<1> DEFINE T == {i \in 0 .. Len(c) : s[i] \in Seq(S) /\ ToSet(s[i]) = {c[j] : j \in 1 .. i} \ gone}
<1>7. 0 \in T
  <2>1. <<>> \in Seq(S) /\ ToSet(<<>>) = {} /\ {c[j] : j \in 1 .. 0} = {}
    BY DEF ToSet
  <2>2. s[0] \in Seq(S) /\ ToSet(s[0]) = {c[j] : j \in 1 .. 0} \ gone
    <3>1. {} \ gone = {}
      OBVIOUS
    <3>2. QED
      BY <1>6, <2>1, <3>1
  <2>3. QED
    BY <1>1, <2>2
<1>8. ASSUME NEW i \in 1 .. Len(c), i - 1 \in T PROVE i \in T
  <2>1. i \in 0 .. Len(c) /\ c[i] \in S
    BY <1>1
  <2>2. s[i - 1] \in Seq(S) /\ ToSet(s[i - 1]) = {c[j] : j \in 1 .. i - 1} \ gone
    BY <1>8
  <2>3. {c[j] : j \in 1 .. i} = {c[j] : j \in 1 .. i - 1} \cup {c[i]}
    <3>1. \A j \in 1 .. i : j \in 1 .. i - 1 \/ j = i
      BY <1>1
    <3>2. i \in 1 .. i /\ \A j \in 1 .. i - 1 : j \in 1 .. i
      BY <1>1
    <3>3. QED
      BY <3>1, <3>2
  <2>4. CASE c[i] \in gone
    <3>1. s[i] = s[i - 1]
      BY <1>6, <2>4
    <3>2. QED
      BY <2>1, <2>2, <2>3, <2>4, <3>1
  <2>5. CASE c[i] \notin gone
    <3>1. s[i] = Append(s[i - 1], c[i])
      BY <1>6, <2>5
    <3>2. s[i] \in Seq(S) /\ ToSet(s[i]) = ToSet(s[i - 1]) \cup {c[i]}
      BY <2>1, <2>2, <3>1, AppendedSegment
    <3>3. QED
      BY <2>1, <2>2, <2>3, <2>5, <3>2
  <2>6. QED
    BY <2>4, <2>5
<1> HIDE DEF T
<1>9. 0 .. Len(c) \subseteq T
  BY <1>1, <1>7, <1>8, UpTo
<1>10. s[Len(c)] \in Seq(S) /\ ToSet(s[Len(c)]) = {c[j] : j \in 1 .. Len(c)} \ gone
  BY <1>1, <1>9 DEF T
<1>11. ToSet(c) = {c[j] : j \in 1 .. Len(c)}
  BY DEF ToSet
<1>12. QED
  BY <1>4, <1>10, <1>11

\* What is left when the reasoning is taken out.
LEMMA StrippedShape ==
  ASSUME NEW S, NEW c \in Seq(S)
  PROVE  /\ StripThinkTags(c) \in Seq(S)
         /\ ~Contains(c, "open") => ToSet(StripThinkTags(c)) = ToSet(c) \ {"think"}
<1> DEFINE I == {i \in 1 .. Len(c) : c[i] = "open"}
           k == IF Contains(c, "open") THEN Min(I) - 1 ELSE Len(c)
<1>1. Len(c) \in Nat /\ I \subseteq Nat
  OBVIOUS
<1>2. Contains(c, "open") => I # {}
  BY DEF Contains
<1>3. I # {} => Min(I) \in I
  <2>1. I # {} => \E x \in I : \A y \in I : x <= y
    BY <1>1, LeastOne
  <2> HIDE DEF I
  <2>2. QED
    BY <2>1 DEF Min
<1>4. k \in 0 .. Len(c)
  <2>1. CASE Contains(c, "open")
    BY <1>1, <1>2, <1>3, <2>1
  <2>2. CASE ~Contains(c, "open")
    BY <1>1, <2>2
  <2>3. QED
    BY <2>1, <2>2
<1>5. StripThinkTags(c) = Without(SubSeq(c, 1, k), {"think"})
  BY <1>2 DEF StripThinkTags, SelectInSeq
<1>6. ~Contains(c, "open") => SubSeq(c, 1, k) = c
  BY <1>1
<1> HIDE DEF k, I
<1>7. SubSeq(c, 1, k) \in Seq(S)
  BY <1>1, <1>4
<1> DEFINE x == SubSeq(c, 1, k)
           gone == {"think"}
<1> HIDE DEF x, gone
<1>8. Without(x, gone) \in Seq(S) /\ ToSet(Without(x, gone)) = ToSet(x) \ gone
  BY <1>7, WithoutTakesOut DEF x
<1>9. StripThinkTags(c) = Without(x, gone)
  BY <1>5 DEF x, gone
<1>10. ~Contains(c, "open") => x = c
  BY <1>6 DEF x
<1>11. ~Contains(c, "open") => ToSet(StripThinkTags(c)) = ToSet(c) \ gone
  BY <1>8, <1>9, <1>10
<1>12. QED
  BY <1>8, <1>9, <1>11 DEF gone

\* An answer that is cleaned away was reasoning or template tokens only.
LEMMA CleanedAway ==
  ASSUME NEW c \in Seq(Segment), Clean(c) = <<>>
  PROVE  c # <<>> /\ ToSet(StripThinkTags(c)) \subseteq {"token"}
<1> DEFINE S == Segment \cup {"fallback"}
           d == OrFallback(c)
           h == StripThinkTags(d)
           read == StripChatTemplateTokens(h)
<1>1. Fallback \in Seq(S) /\ Fallback # <<>> /\ Len(Fallback) = 1 /\ Fallback[1] = "fallback"
  BY DEF Fallback
<1>2. c \in Seq(S) /\ d \in Seq(S)
  BY <1>1 DEF OrFallback
<1> HIDE DEF S, d
<1>3. h \in Seq(S)
  BY <1>2, StrippedShape
<1>4. read = Without(h, {"token"})
  BY DEF StripChatTemplateTokens
<1> HIDE DEF h
<1>5. ToSet(read) = ToSet(h) \ {"token"}
  BY <1>3, <1>4, WithoutTakesOut
<1>6. read = <<>>
  <2>1. Clean(c) = IF ~IsGarbledOutput(read) THEN read
                   ELSE IF SalvageCleanSuffix(read) # <<>> THEN SalvageCleanSuffix(read) ELSE Fallback
    BY DEF Clean, d, h
  <2> HIDE DEF read
  <2>2. QED
    BY <1>1, <2>1
<1>7. ToSet(h) \subseteq {"token"}
  <2>1. ToSet(<<>>) = {}
    BY DEF ToSet
  <2> HIDE DEF read
  <2>2. QED
    BY <1>5, <1>6, <2>1
<1>8. ASSUME c = <<>> PROVE FALSE
  <2>1. d = Fallback
    BY <1>8 DEF d, OrFallback
  <2>2. ~Contains(Fallback, "open") /\ "fallback" \in ToSet(Fallback)
    BY <1>1 DEF Contains, ToSet
  <2>3. "fallback" \in ToSet(h)
    BY <1>1, <2>1, <2>2, StrippedShape DEF h
  <2>4. QED
    BY <1>7, <2>3
<1>9. d = c
  BY <1>8 DEF d, OrFallback
<1>10. QED
  BY <1>7, <1>8, <1>9 DEF h

\* A done event without a text had none to show.
EmptyWasWordless == shown = <<>> => wordless

\* Every step keeps that.
LEMMA EmptyStep == EmptyWasWordless /\ [TurnNext]_turnVars => EmptyWasWordless'
<1> SUFFICES ASSUME EmptyWasWordless, [TurnNext]_turnVars PROVE EmptyWasWordless'
  OBVIOUS
<1>1. CASE NewMessage
  <2>1. Fallback # <<>>
    BY DEF Fallback
  <2>2. QED
    BY <1>1, <2>1 DEF NewMessage, EmptyWasWordless
<1>2. ASSUME NEW r \in Readings, GenerateAnswers(r) PROVE EmptyWasWordless'
  <2> PICK c \in Answers : r = [shown |-> Clean(c), wordless |-> Wordless(c)]
    BY DEF Readings
  <2>1. c \in Seq(Segment)
    <3>1. PICK m \in 0 .. 2 : c \in [1 .. m -> Segment]
      BY DEF Answers, SeqOf
    <3>2. m \in Nat
      BY <3>1
    <3>3. QED
      BY <3>1, <3>2
  <2>2. shown' = Clean(c) /\ wordless' = (c # <<>> /\ ToSet(StripThinkTags(c)) \subseteq {"token"})
    BY <1>2 DEF GenerateAnswers, Wordless
  <2>3. QED
    BY <2>1, <2>2, CleanedAway DEF EmptyWasWordless
<1>3. CASE UNCHANGED <<shown, wordless>>
  BY <1>3 DEF EmptyWasWordless
<1>4. QED
  BY <1>1, <1>2, <1>3 DEF TurnNext, turnVars, HandleCommand, LoadSession, Prepare, InitFails, Recovers,
     RetryWithoutImages, RebuildAfterReconnect, RebuildWithHint, Backoff, CancelledInBackoff, GiveUp,
     PublishDone, CallTool, GenerateFails

\* A message has one done or error event when it is over and none before,
\* besides one error for each native tool that failed, however many attempts,
\* recoveries and tool calls it took, and a done event has a text unless the
\* model's answer had none (handleMessage, buildToolCallback).
THEOREM MessageEndsOnce == TurnSpec => []OneOutcomePerTurn
<1>1. TurnInit => EmptyWasWordless
  <2>1. Fallback # <<>>
    BY DEF Fallback
  <2>2. QED
    BY <2>1 DEF TurnInit, EmptyWasWordless
<1>2. TurnIInv /\ EmptyWasWordless => OneOutcomePerTurn
  BY DEF TurnIInv, EmptyWasWordless, OneOutcomePerTurn
<1>3. QED
  BY <1>1, <1>2, EmptyStep, TurnInductive, PTL DEF TurnSpec

(***************************************************************************)
(* TokenProvider: what is kept can be refreshed.                           *)
(***************************************************************************)

TokenSpec == TokenInit /\ [][TokenNext]_tokenVars

Stage == {"away", "refresh", "polling", "listening", "exchange", "save", "write", "cache"}
\* A goroutine has a grant that is not yet kept everywhere.
Saving(g) == user[g].at \in {"save", "write", "cache"}
\* ... and will still write the file.
WritesFile(g) == user[g].at \in {"save", "write"}

\* A token in use, in the file or in the cache, and every refresh token that
\* is accepted, came with a grant.
TokenTypes ==
    /\ granted \in Nat
    /\ honoured \subseteq 1 .. granted
    /\ file \in Token \cup {NoToken, Torn} /\ file.refresh <= granted
    /\ cached \in Token \cup {NoToken} /\ cached.refresh <= granted
    /\ user \in [Goroutine -> [at : Stage, token : Token \cup {NoToken}, ensures : BOOLEAN]]
    /\ \A g \in Goroutine : /\ user[g].token.refresh <= granted
                            /\ Saving(g) => user[g].token \in Token

\* Before bootstrapOIDC is done one goroutine at most is at work; afterwards
\* the cache is filled, so that nobody reads the file.
ReadyMeansCached ==
    /\ ready => cached # NoToken
    /\ ~ready => \A g, h \in Goroutine : user[g].at # "away" /\ user[h].at # "away" => g = h

\* A grant that is being saved has a refresh token which nobody has used, and
\* nobody can: where refresh tokens are replaced, it is in no other hands and
\* not in the cache.
GrantsInHandAreGood ==
    \A g \in Goroutine : Saving(g) /\ user[g].token.refresh # 0 =>
        /\ user[g].token.refresh \in honoured
        /\ rotates => /\ cached.refresh # user[g].token.refresh
                      /\ \A h \in Goroutine \ {g} : user[h].token.refresh # user[g].token.refresh

\* A refresh token that was used up will be overwritten where it is kept.
UsedUpIsReplaced ==
    /\ cached.refresh \notin honoured \cup {0} => \E g \in Goroutine : Saving(g)
    /\ file.refresh \notin honoured \cup {0} => \E g \in Goroutine : WritesFile(g)

TokenIInv == TokenTypes /\ ReadyMeansCached
             /\ (spoilt \/ (GrantsInHandAreGood /\ UsedUpIsReplaced))

\* What a goroutine that moves on changes.
LEMMA MovesEffect ==
    ASSUME TokenTypes, NEW g \in Goroutine, NEW at \in Stage, NEW t \in Token \cup {NoToken},
           NEW e \in BOOLEAN, Moves(g, at, t, e)
    PROVE  /\ user' \in [Goroutine -> [at : Stage, token : Token \cup {NoToken}, ensures : BOOLEAN]]
           /\ user'[g].at = at /\ user'[g].token = t /\ user'[g].ensures = e
           /\ \A h \in Goroutine \ {g} : user'[h] = user[h]
BY DEF TokenTypes, Moves

\* The tokens that stand for none.
LEMMA NoTokens ==
    /\ NoToken.refresh = 0 /\ NoToken.access = 0 /\ Torn.refresh = 0
    /\ NoToken \notin Token /\ Torn \notin Token /\ NoToken # Torn
    /\ \A t \in Token : t.refresh \in Nat
<1>1. NoToken.refresh = 0 /\ NoToken.access = 0 /\ Torn.refresh = 0
  BY DEF NoToken, Torn
<1>2. \A t \in Token : t.access # 0 /\ t.refresh \in Nat
  BY TokenAssumption DEF Token
<1>3. NoToken \notin Token /\ Torn \notin Token
  BY <1>2 DEF NoToken, Torn
<1>4. NoToken.dated = FALSE /\ Torn.dated = TRUE
  BY DEF NoToken, Torn
<1>5. QED
  BY <1>1, <1>2, <1>3, <1>4

\* What GetToken finds and leaves in the cache.
LEMMA FillEffect ==
    ASSUME TokenTypes, Fill
    PROVE  /\ cached' \in Token \cup {NoToken} /\ cached'.refresh <= granted
           /\ cached # NoToken => Stored = cached /\ cached' = cached
           /\ cached = NoToken => Stored = file /\ cached' \in {file, NoToken}
           /\ Stored \in Token => cached' = Stored
           /\ Stored \in Token \cup {NoToken, Torn} /\ Stored.refresh <= granted
BY NoTokens DEF TokenTypes, Fill, Stored

\* A goroutine that reads the token and goes to refresh it or to ask the user
\* takes nothing that is being saved.
LEMMA ReadKeeps ==
    ASSUME TokenIInv, Fill, NEW g \in Goroutine, user[g].at = "away",
           ready \/ \A h \in Goroutine : user[h].at = "away",
           \/ UNCHANGED user
           \/ \E e \in BOOLEAN : Stored \in Token /\ Moves(g, "refresh", Stored, e)
           \/ Moves(g, FlowStart, NoToken, TRUE),
           ready => ready', ready' => ready \/ Stored \in Token,
           UNCHANGED <<rotates, granted, honoured, file, spoilt>>
    PROVE  TokenIInv'
<1>1. FlowStart \in Stage /\ FlowStart \notin {"away", "save", "write", "cache"}
  BY DEF FlowStart, Stage
<1>2. TokenTypes
  BY DEF TokenIInv
<1>3. PICK at \in Stage, t \in Token \cup {NoToken}, e \in BOOLEAN :
        /\ user' = user \/ Moves(g, at, t, e)
        /\ at \notin {"away", "save", "write", "cache"}
        /\ t \in {Stored, NoToken}
  BY <1>1 DEF Stage
<1>4. /\ user' \in [Goroutine -> [at : Stage, token : Token \cup {NoToken}, ensures : BOOLEAN]]
      /\ \A h \in Goroutine \ {g} : user'[h] = user[h]
      /\ user'[g] = user[g] \/ (user'[g].at = at /\ user'[g].token = t)
  <2>1. CASE user' = user
    BY <1>2, <2>1 DEF TokenTypes
  <2>2. CASE Moves(g, at, t, e)
    BY <1>2, <2>2, MovesEffect
  <2>3. QED
    BY <1>3, <2>1, <2>2
<1>5. \A h \in Goroutine : /\ Saving(h)' <=> Saving(h)
                           /\ WritesFile(h)' <=> WritesFile(h)
                           /\ Saving(h) => user'[h] = user[h] /\ h # g
  BY <1>3, <1>4 DEF Saving, WritesFile
<1>6. t.refresh <= granted /\ (t.refresh # 0 => t = Stored)
  BY <1>2, <1>3, FillEffect, NoTokens DEF TokenTypes
<1>7. TokenTypes'
  <2>1. \A h \in Goroutine : /\ user'[h].token.refresh <= granted
                             /\ Saving(h)' => user'[h].token \in Token
    BY <1>2, <1>4, <1>5, <1>6 DEF TokenTypes
  <2>2. QED
    BY <1>2, <1>4, <2>1, FillEffect DEF TokenTypes
<1>8. ReadyMeansCached'
  <2>1. ready' => cached' # NoToken
    BY <1>2, FillEffect, NoTokens DEF TokenIInv, ReadyMeansCached
  <2>2. ASSUME ~ready', NEW h \in Goroutine, NEW k \in Goroutine,
               user'[h].at # "away", user'[k].at # "away"
        PROVE  h = k
    <3>1. ~ready /\ \A x \in Goroutine : user[x].at = "away"
      BY <2>2
    <3>2. QED
      BY <1>4, <2>2, <3>1
  <2>3. QED
    BY <2>1, <2>2 DEF ReadyMeansCached
<1>9. ASSUME ~spoilt PROVE GrantsInHandAreGood' /\ UsedUpIsReplaced'
  <2>1. GrantsInHandAreGood /\ UsedUpIsReplaced
    BY <1>9 DEF TokenIInv
  <2>2. CASE cached # NoToken
    <3>1. cached' = cached /\ Stored = cached
      BY <1>2, <2>2, FillEffect
    <3>2. GrantsInHandAreGood'
      BY <1>4, <1>5, <1>6, <2>1, <3>1 DEF GrantsInHandAreGood
    <3>3. UsedUpIsReplaced'
      BY <1>5, <2>1, <3>1 DEF UsedUpIsReplaced
    <3>4. QED
      BY <3>2, <3>3
  <2>3. CASE cached = NoToken
    <3>1. \A h \in Goroutine : user[h].at = "away" /\ ~Saving(h)
      BY <2>3 DEF TokenIInv, ReadyMeansCached, Saving
    <3>2. cached' \in {file, NoToken}
      BY <1>2, <2>3, FillEffect
    <3>3. file.refresh \in honoured \cup {0} /\ cached'.refresh \in honoured \cup {0}
      BY <2>1, <3>1, <3>2, NoTokens DEF UsedUpIsReplaced, WritesFile
    <3>4. QED
      BY <1>5, <3>1, <3>3 DEF GrantsInHandAreGood, UsedUpIsReplaced
  <2>4. QED
    BY <2>2, <2>3
<1>10. QED
  BY <1>7, <1>8, <1>9 DEF TokenIInv

\* A goroutine that has no grant in hand moves on without one.
LEMMA MovingOnKeeps ==
    ASSUME TokenIInv, NEW g \in Goroutine, user[g].at \notin {"away", "save", "write", "cache"},
           NEW at \in Stage \ {"save", "write", "cache"}, NEW e \in BOOLEAN,
           Moves(g, at, NoToken, e),
           UNCHANGED <<rotates, granted, honoured, file, cached, ready, spoilt>>
    PROVE  TokenIInv'
<1>1. TokenTypes
  BY DEF TokenIInv
<1>2. /\ user' \in [Goroutine -> [at : Stage, token : Token \cup {NoToken}, ensures : BOOLEAN]]
      /\ user'[g].at = at /\ user'[g].token = NoToken
      /\ \A h \in Goroutine \ {g} : user'[h] = user[h]
  BY <1>1, MovesEffect
<1>3. \A h \in Goroutine : /\ Saving(h)' <=> Saving(h)
                           /\ WritesFile(h)' <=> WritesFile(h)
                           /\ Saving(h) => user'[h] = user[h] /\ h # g
  BY <1>2 DEF Saving, WritesFile
<1>4. TokenTypes'
  BY <1>1, <1>2, <1>3, NoTokens DEF TokenTypes
<1>5. ReadyMeansCached'
  BY <1>2 DEF TokenIInv, ReadyMeansCached
<1>6. ASSUME ~spoilt PROVE GrantsInHandAreGood' /\ UsedUpIsReplaced'
  <2>1. GrantsInHandAreGood'
    BY <1>2, <1>3, <1>6, NoTokens DEF TokenIInv, GrantsInHandAreGood
  <2>2. UsedUpIsReplaced'
    BY <1>3, <1>6 DEF TokenIInv, UsedUpIsReplaced
  <2>3. QED
    BY <2>1, <2>2
<1>7. QED
  BY <1>4, <1>5, <1>6 DEF TokenIInv

\* A goroutine gets a grant.  The server may have used up the refresh token
\* the goroutine came with, but then the grant brings a new one.
LEMMA GrantKeeps ==
    ASSUME TokenIInv, NEW g \in Goroutine, user[g].at \notin {"away", "save", "write", "cache"},
           granted < MaxGrant, granted' = granted + 1,
           NEW r \in 0 .. granted', NEW d \in BOOLEAN, NEW e \in BOOLEAN,
           Moves(g, "save", [access |-> granted', refresh |-> r, dated |-> d], e),
           rotates => r \in {0, granted'},
           honoured' \subseteq 1 .. granted', r # 0 => r \in honoured',
           \A x \in honoured \ honoured' : rotates /\ x = user[g].token.refresh,
           UNCHANGED <<rotates, file, cached, ready, spoilt>>
    PROVE  TokenIInv'
<1> DEFINE t == [access |-> granted', refresh |-> r, dated |-> d]
<1>1. TokenTypes /\ granted \in Nat /\ granted' \in 1 .. MaxGrant
  BY TokenAssumption DEF TokenIInv, TokenTypes
<1>2. t \in Token /\ t.refresh = r
  <2>1. r \in 0 .. MaxGrant
    BY <1>1, TokenAssumption
  <2>2. QED
    BY <1>1, <2>1 DEF Token
<1> HIDE DEF t
<1>3. /\ user' \in [Goroutine -> [at : Stage, token : Token \cup {NoToken}, ensures : BOOLEAN]]
      /\ user'[g].at = "save" /\ user'[g].token = t
      /\ \A h \in Goroutine \ {g} : user'[h] = user[h]
  BY <1>1, <1>2, MovesEffect DEF t, Stage
<1>4. /\ Saving(g)' /\ WritesFile(g)' /\ ~Saving(g)
      /\ \A h \in Goroutine \ {g} : Saving(h)' <=> Saving(h)
  BY <1>3 DEF Saving, WritesFile
<1>5. /\ file.refresh \in Nat /\ cached.refresh \in Nat
      /\ \A h \in Goroutine : user[h].token.refresh \in Nat
  BY <1>1, NoTokens DEF TokenTypes
<1>6. TokenTypes'
  <2>1. \A h \in Goroutine : /\ user'[h].token.refresh <= granted'
                             /\ Saving(h)' => user'[h].token \in Token
    BY <1>1, <1>2, <1>3, <1>4, <1>5 DEF TokenTypes
  <2>2. file.refresh <= granted' /\ cached.refresh <= granted'
    BY <1>1, <1>5 DEF TokenTypes
  <2>3. QED
    BY <1>1, <1>3, <2>1, <2>2 DEF TokenTypes
<1>7. ReadyMeansCached'
  BY <1>3 DEF TokenIInv, ReadyMeansCached
<1>8. ASSUME ~spoilt PROVE GrantsInHandAreGood' /\ UsedUpIsReplaced'
  <2>1. GrantsInHandAreGood
    BY <1>8 DEF TokenIInv
  <2>2. UsedUpIsReplaced'
    BY <1>4 DEF UsedUpIsReplaced
  <2>3. ASSUME NEW h \in Goroutine, Saving(h)', user'[h].token.refresh # 0
        PROVE  /\ user'[h].token.refresh \in honoured'
               /\ rotates => /\ cached.refresh # user'[h].token.refresh
                             /\ \A k \in Goroutine \ {h} : user'[k].token.refresh # user'[h].token.refresh
    <3>1. CASE h = g
      <4>1. user'[h].token.refresh = r /\ r # 0 /\ r \in honoured'
        BY <1>2, <1>3, <2>3, <3>1
      <4>2. ASSUME rotates PROVE r > granted
        BY <1>1, <4>1, <4>2
      <4>3. QED
        BY <1>1, <1>3, <1>5, <3>1, <4>1, <4>2 DEF TokenTypes
    <3>2. CASE h # g
      <4>1. /\ Saving(h) /\ user'[h] = user[h] /\ user[h].token.refresh \in honoured
            /\ rotates => /\ cached.refresh # user[h].token.refresh
                          /\ \A k \in Goroutine \ {h} : user[k].token.refresh # user[h].token.refresh
        BY <1>3, <1>4, <2>1, <2>3, <3>2 DEF GrantsInHandAreGood
      <4>2. user[h].token.refresh \in honoured'
        BY <3>2, <4>1
      <4>3. rotates => r # user[h].token.refresh
        BY <1>1, <1>5, <2>3, <4>1 DEF TokenTypes
      <4>4. QED
        BY <1>2, <1>3, <3>2, <4>1, <4>2, <4>3
    <3>3. QED
      BY <3>1, <3>2
  <2>4. QED
    BY <2>2, <2>3 DEF GrantsInHandAreGood
<1>9. QED
  BY <1>6, <1>7, <1>8 DEF TokenIInv

\* The file is cut, then written, and the goroutine goes on with its grant.
LEMMA WritingKeeps ==
    ASSUME TokenIInv, NEW g \in Goroutine, WriteFileBegins(g) \/ WriteFileEnds(g)
    PROVE  TokenIInv'
<1>1. TokenTypes /\ Saving(g) /\ WritesFile(g) /\ user[g].token \in Token /\ user[g].ensures \in BOOLEAN
  BY DEF TokenIInv, TokenTypes, WriteFileBegins, WriteFileEnds, Saving, WritesFile
<1>2. PICK at \in {"write", "cache"} : Moves(g, at, user[g].token, user[g].ensures)
  BY DEF WriteFileBegins, WriteFileEnds
<1>3. /\ UNCHANGED <<ready, rotates, granted, honoured, cached, spoilt>>
      /\ file' \in {Torn, user[g].token}
  BY DEF WriteFileBegins, WriteFileEnds
<1>4. /\ user' \in [Goroutine -> [at : Stage, token : Token \cup {NoToken}, ensures : BOOLEAN]]
      /\ user'[g].at = at /\ user'[g].token = user[g].token
      /\ \A h \in Goroutine \ {g} : user'[h] = user[h]
  BY <1>1, <1>2, MovesEffect DEF Stage
<1>5. \A h \in Goroutine : (Saving(h)' <=> Saving(h)) /\ user'[h].token = user[h].token
  BY <1>1, <1>4 DEF Saving
<1>6. TokenTypes'
  BY <1>1, <1>3, <1>4, <1>5, NoTokens DEF TokenTypes
<1>7. ReadyMeansCached'
  BY <1>1, <1>3, <1>4 DEF TokenIInv, ReadyMeansCached, Saving
<1>8. ASSUME ~spoilt PROVE GrantsInHandAreGood' /\ UsedUpIsReplaced'
  <2>1. GrantsInHandAreGood'
    BY <1>3, <1>5, <1>8 DEF TokenIInv, GrantsInHandAreGood
  <2>2. file'.refresh \in honoured \cup {0}
    BY <1>1, <1>3, <1>8, NoTokens DEF TokenIInv, GrantsInHandAreGood
  <2>3. UsedUpIsReplaced'
    BY <1>3, <1>5, <1>8, <2>2 DEF TokenIInv, UsedUpIsReplaced
  <2>4. QED
    BY <2>1, <2>3
<1>9. QED
  BY <1>3, <1>6, <1>7, <1>8 DEF TokenIInv

\* The grant reaches the cache, and the goroutine is done with it.
LEMMA CachingKeeps ==
    ASSUME TokenIInv, NEW g \in Goroutine, SaveToCache(g)
    PROVE  TokenIInv'
<1>1. TokenTypes /\ Saving(g) /\ ~WritesFile(g) /\ user[g].token \in Token
  BY DEF TokenIInv, TokenTypes, SaveToCache, Saving, WritesFile
<1>2. /\ UNCHANGED <<rotates, granted, honoured, file, spoilt>> /\ cached' = user[g].token
      /\ Moves(g, "away", NoToken, FALSE)
  BY DEF SaveToCache, Leaves, Away, Moves
<1>3. ready'
  BY DEF SaveToCache
<1>4. /\ user' \in [Goroutine -> [at : Stage, token : Token \cup {NoToken}, ensures : BOOLEAN]]
      /\ user'[g].at = "away" /\ user'[g].token = NoToken
      /\ \A h \in Goroutine \ {g} : user'[h] = user[h]
  BY <1>1, <1>2, MovesEffect DEF Stage
<1>5. /\ ~Saving(g)'
      /\ \A h \in Goroutine \ {g} : (Saving(h)' <=> Saving(h)) /\ (WritesFile(h)' <=> WritesFile(h))
  BY <1>4 DEF Saving, WritesFile
<1>6. TokenTypes'
  BY <1>1, <1>2, <1>4, <1>5, NoTokens DEF TokenTypes
<1>7. ReadyMeansCached'
  BY <1>1, <1>2, <1>3, NoTokens DEF ReadyMeansCached
<1>8. ASSUME ~spoilt PROVE GrantsInHandAreGood' /\ UsedUpIsReplaced'
  <2>1. GrantsInHandAreGood /\ UsedUpIsReplaced
    BY <1>8 DEF TokenIInv
  <2>2. GrantsInHandAreGood'
    BY <1>1, <1>2, <1>4, <1>5, <2>1, NoTokens DEF GrantsInHandAreGood
  <2>3. cached'.refresh \in honoured \cup {0}
    BY <1>1, <1>2, <2>1 DEF GrantsInHandAreGood
  <2>4. UsedUpIsReplaced'
    BY <1>1, <1>2, <1>5, <2>1, <2>3 DEF UsedUpIsReplaced
  <2>5. QED
    BY <2>2, <2>4
<1>9. QED
  BY <1>2, <1>6, <1>7, <1>8 DEF TokenIInv

\* Every step of the goroutines and of the world keeps what is in hand good
\* and what is used up on its way out.
LEMMA TokenStep == TokenIInv /\ [TokenNext]_tokenVars => TokenIInv'
<1> SUFFICES ASSUME TokenIInv, [TokenNext]_tokenVars PROVE TokenIInv'
  OBVIOUS
<1>0. TokenTypes
  BY DEF TokenIInv
<1>1. ASSUME NEW g \in Goroutine, EnsureToken(g) PROVE TokenIInv'
  <2> DEFINE valid == Stored \in Token /\ Stored.dated /\ Stored.access \notin expired
  <2>1. /\ user[g].at = "away" /\ Fill /\ (ready \/ \A h \in Goroutine : user[h].at = "away")
        /\ UNCHANGED <<rotates, granted, honoured, file, spoilt>>
    BY <1>1 DEF EnsureToken
  <2>2. \/ UNCHANGED user
        \/ Stored # Torn /\ Stored.refresh # 0 /\ Moves(g, "refresh", Stored, TRUE)
        \/ Moves(g, FlowStart, NoToken, TRUE)
    BY <1>1 DEF EnsureToken
  <2>3. Stored # Torn /\ Stored.refresh # 0 => Stored \in Token
    BY <1>0, <2>1, FillEffect, NoTokens
  <2>4. (ready => ready') /\ (ready' => ready \/ Stored \in Token)
    <3>1. ready' = (ready \/ valid)
      BY <1>1 DEF EnsureToken
    <3>2. QED
      BY <3>1
  <2>5. QED
    BY <2>1, <2>2, <2>3, <2>4, ReadKeeps
<1>2. ASSUME NEW g \in Goroutine, TokenForRequest(g) PROVE TokenIInv'
  BY <1>2, ReadKeeps DEF TokenForRequest
<1>3. ASSUME NEW g \in Goroutine, Refresh(g) PROVE TokenIInv'
  <2> DEFINE old == user[g].token.refresh
             r == IF rotates THEN granted + 1 ELSE old
  <2>1. /\ user[g].at = "refresh" /\ old \in honoured /\ granted < MaxGrant /\ granted' = granted + 1
        /\ honoured' = IF rotates THEN (honoured \ {old}) \cup {granted + 1} ELSE honoured
        /\ UNCHANGED <<rotates, file, cached, ready, spoilt>>
    BY <1>3 DEF Refresh
  <2>2. PICK d \in BOOLEAN : Moves(g, "save", [access |-> granted', refresh |-> r, dated |-> d], user[g].ensures)
    <3>1. granted' # 0
      BY <1>0, <2>1 DEF TokenTypes
    <3>2. QED
      BY <1>3, <2>1, <3>1 DEF Refresh, NextRefresh
  <2>3. user[g].ensures \in BOOLEAN /\ old \in 1 .. granted /\ granted \in Nat
    BY <1>0, <2>1 DEF TokenTypes
  <2>4. /\ r \in 0 .. granted' /\ (rotates => r \in {0, granted'}) /\ r \in honoured'
        /\ honoured' \subseteq 1 .. granted'
        /\ \A x \in honoured \ honoured' : rotates /\ x = old
    <3> HIDE DEF old
    <3>1. CASE rotates
      <4>1. r = granted' /\ honoured' = (honoured \ {old}) \cup {granted'}
        BY <2>1, <3>1
      <4>2. QED
        BY <1>0, <2>1, <2>3, <3>1, <4>1 DEF TokenTypes
    <3>2. CASE ~rotates
      <4>1. r = old /\ honoured' = honoured
        BY <2>1, <3>2
      <4>2. QED
        BY <1>0, <2>1, <2>3, <3>2, <4>1 DEF TokenTypes
    <3>3. QED
      BY <3>1, <3>2
  <2> HIDE DEF r
  <2>5. QED
    BY <2>1, <2>2, <2>3, <2>4, GrantKeeps
<1>4. ASSUME NEW g \in Goroutine, RefreshFails(g) \/ Callback(g) \/ FlowFails(g) PROVE TokenIInv'
  <2>1. /\ user[g].at \notin {"away", "save", "write", "cache"}
        /\ UNCHANGED <<rotates, granted, honoured, file, cached, ready, spoilt>>
    BY <1>4 DEF RefreshFails, Callback, FlowFails
  <2>2. \E at \in Stage \ {"save", "write", "cache"}, e \in BOOLEAN : Moves(g, at, NoToken, e)
    <3>1. {FlowStart, "exchange", "away"} \subseteq Stage \ {"save", "write", "cache"}
      BY DEF FlowStart, Stage
    <3>2. Leaves(g) => Moves(g, "away", NoToken, FALSE)
      BY DEF Leaves, Away, Moves
    <3>3. \/ Leaves(g) \/ Moves(g, FlowStart, NoToken, TRUE) \/ Moves(g, "exchange", NoToken, TRUE)
      BY <1>4 DEF RefreshFails, Callback, FlowFails
    <3>4. QED
      BY <3>1, <3>2, <3>3
  <2>3. QED
    BY <2>1, <2>2, MovingOnKeeps
<1>5. ASSUME NEW g \in Goroutine, PollForToken(g) \/ ExchangeAuthCode(g) PROVE TokenIInv'
  <2>1. PICK d \in BOOLEAN : NewGrant(g, d)
    BY <1>5 DEF PollForToken, ExchangeAuthCode
  <2>2. user[g].at \in {"polling", "exchange"}
    BY <1>5 DEF PollForToken, ExchangeAuthCode
  <2>3. PICK r \in {0, granted'} :
          /\ honoured' = IF r = 0 THEN honoured ELSE honoured \cup {r}
          /\ Moves(g, "save", [access |-> granted', refresh |-> r, dated |-> d], TRUE)
    BY <2>1 DEF NewGrant
  <2>4. /\ granted < MaxGrant /\ granted' = granted + 1
        /\ UNCHANGED <<rotates, file, cached, ready, spoilt>>
    BY <2>1 DEF NewGrant
  <2>5. /\ r \in 0 .. granted' /\ (r # 0 => r \in honoured') /\ honoured' \subseteq 1 .. granted'
        /\ honoured \ honoured' = {}
    BY <1>0, <2>3, <2>4 DEF TokenTypes
  <2>6. QED
    BY <2>2, <2>3, <2>4, <2>5, GrantKeeps
<1>6. ASSUME NEW g \in Goroutine, WriteFileBegins(g) \/ WriteFileEnds(g) PROVE TokenIInv'
  BY <1>6, WritingKeeps
<1>7. ASSUME NEW g \in Goroutine, SaveToCache(g) PROVE TokenIInv'
  BY <1>7, CachingKeeps
<1>8. ASSUME NEW g \in Goroutine, SaveFails(g) PROVE TokenIInv'
  <2>1. /\ UNCHANGED <<granted, honoured, file, cached, ready>> /\ Moves(g, "away", NoToken, FALSE)
    BY <1>8 DEF SaveFails, Leaves, Away, Moves
  <2>2. spoilt'
    BY <1>8 DEF SaveFails
  <2>3. /\ user' \in [Goroutine -> [at : Stage, token : Token \cup {NoToken}, ensures : BOOLEAN]]
        /\ user'[g].at = "away" /\ user'[g].token = NoToken
        /\ \A h \in Goroutine \ {g} : user'[h] = user[h]
    BY <1>0, <2>1, MovesEffect DEF Stage
  <2>4. TokenTypes'
    BY <1>0, <2>1, <2>3, NoTokens DEF TokenTypes, Saving
  <2>5. ReadyMeansCached'
    BY <2>1, <2>3 DEF TokenIInv, ReadyMeansCached
  <2>6. QED
    BY <2>2, <2>4, <2>5 DEF TokenIInv
<1>9. ASSUME NEW g \in Goroutine, RefreshAnswerLost(g) PROVE TokenIInv'
  <2>1. /\ user[g].at = "refresh" /\ granted < MaxGrant /\ granted' = granted + 1
        /\ honoured' = IF rotates THEN (honoured \ {user[g].token.refresh}) \cup {granted'} ELSE honoured
        /\ UNCHANGED <<rotates, file, cached, ready>>
        /\ spoilt' = (spoilt \/ rotates)
    BY <1>9 DEF RefreshAnswerLost
  <2>2. PICK at \in Stage \ {"save", "write", "cache"}, e \in BOOLEAN : Moves(g, at, NoToken, e)
    <3>1. {FlowStart, "away"} \subseteq Stage \ {"save", "write", "cache"}
      BY DEF FlowStart, Stage
    <3>2. Leaves(g) => Moves(g, "away", NoToken, FALSE)
      BY DEF Leaves, Away, Moves
    <3>3. \/ Leaves(g) \/ Moves(g, FlowStart, NoToken, TRUE)
      BY <1>9 DEF RefreshAnswerLost
    <3>4. QED
      BY <3>1, <3>2, <3>3
  <2>3. /\ user' \in [Goroutine -> [at : Stage, token : Token \cup {NoToken}, ensures : BOOLEAN]]
        /\ user'[g].at = at /\ user'[g].token = NoToken
        /\ \A h \in Goroutine \ {g} : user'[h] = user[h]
    BY <1>0, <2>2, MovesEffect
  <2>4. \A h \in Goroutine : /\ Saving(h)' <=> Saving(h)
                             /\ WritesFile(h)' <=> WritesFile(h)
                             /\ Saving(h) => user'[h] = user[h] /\ h # g
    BY <2>1, <2>2, <2>3 DEF Saving, WritesFile
  <2>5. TokenTypes'
    <3>1. /\ granted' \in Nat /\ granted \in Nat /\ granted < granted'
          /\ file.refresh \in Nat /\ cached.refresh \in Nat
          /\ \A h \in Goroutine : user[h].token.refresh \in Nat
      BY <1>0, <2>1, NoTokens DEF TokenTypes
    <3>2. honoured' \subseteq 1 .. granted'
      <4>1. honoured \subseteq 1 .. granted' /\ granted' \in 1 .. granted'
        BY <1>0, <3>1 DEF TokenTypes
      <4>2. honoured' \subseteq honoured \cup {granted'}
        BY <2>1
      <4>3. QED
        BY <4>1, <4>2
    <3>3. \A h \in Goroutine : /\ user'[h].token.refresh <= granted'
                               /\ Saving(h)' => user'[h].token \in Token
      BY <1>0, <2>3, <2>4, <3>1, NoTokens DEF TokenTypes
    <3>4. file.refresh <= granted' /\ cached.refresh <= granted'
      BY <1>0, <3>1 DEF TokenTypes
    <3>5. QED
      BY <1>0, <2>1, <2>3, <3>1, <3>2, <3>3, <3>4 DEF TokenTypes
  <2>6. ReadyMeansCached'
    BY <2>1, <2>3 DEF TokenIInv, ReadyMeansCached
  <2>7. ASSUME ~spoilt' PROVE GrantsInHandAreGood' /\ UsedUpIsReplaced'
    <3>1. ~spoilt /\ ~rotates /\ honoured' = honoured
      BY <2>1, <2>7
    <3>2. GrantsInHandAreGood'
      BY <2>1, <2>3, <2>4, <3>1 DEF TokenIInv, GrantsInHandAreGood
    <3>3. UsedUpIsReplaced'
      BY <2>1, <2>4, <3>1 DEF TokenIInv, UsedUpIsReplaced
    <3>4. QED
      BY <3>2, <3>3
  <2>8. QED
    BY <2>5, <2>6, <2>7 DEF TokenIInv
<1>10. CASE AgentRestarts
  <2>1. /\ UNCHANGED <<granted, honoured, file>> /\ cached' = NoToken
        /\ user' = [g \in Goroutine |-> Away]
    BY <1>10 DEF AgentRestarts
  <2>2. \A g \in Goroutine : user'[g].at = "away" /\ user'[g].token = NoToken
    BY <2>1 DEF Away
  <2>3. user' \in [Goroutine -> [at : Stage, token : Token \cup {NoToken}, ensures : BOOLEAN]]
    BY <2>1 DEF Away, Stage
  <2>4. TokenTypes'
    BY <1>0, <2>1, <2>2, <2>3, NoTokens DEF TokenTypes, Saving
  <2>5. ReadyMeansCached'
    <3>1. ~ready'
      BY <1>10 DEF AgentRestarts
    <3>2. QED
      BY <2>2, <3>1 DEF ReadyMeansCached
  <2>6. ASSUME ~spoilt' PROVE GrantsInHandAreGood' /\ UsedUpIsReplaced'
    <3>1. ~spoilt /\ ~\E g \in Goroutine : user[g].at \in {"save", "write"}
      BY <1>10, <2>6 DEF AgentRestarts
    <3>2. file.refresh \in honoured \cup {0}
      BY <3>1 DEF TokenIInv, UsedUpIsReplaced, WritesFile
    <3>3. QED
      BY <2>1, <2>2, <3>2, NoTokens DEF GrantsInHandAreGood, UsedUpIsReplaced, Saving
  <2>7. QED
    BY <2>4, <2>5, <2>6 DEF TokenIInv
<1>11. ASSUME UNCHANGED <<rotates, granted, honoured, file, cached, user, ready, spoilt>> PROVE TokenIInv'
  BY <1>11 DEF TokenIInv, TokenTypes, ReadyMeansCached, GrantsInHandAreGood, UsedUpIsReplaced,
               Saving, WritesFile
<1>12. ASSUME NEW a \in 1 .. MaxGrant, TokenExpires(a) PROVE TokenIInv'
  BY <1>11, <1>12 DEF TokenExpires
<1>13. CASE UNCHANGED tokenVars
  BY <1>11, <1>13 DEF tokenVars
<1>14. QED
  BY <1>1, <1>2, <1>3, <1>4, <1>5, <1>6, <1>7, <1>8, <1>10, <1>12, <1>13, <1>9 DEF TokenNext

\* Whatever refreshes, authorizations, saves and restarts overlap, for any
\* number of goroutines: when none of them is at work, the refresh tokens in
\* file and cache are accepted by the server, unless a grant was lost before
\* it was saved, or a replaced refresh token with the server's answer
\* (refreshToken, SaveToken).
THEOREM WhatIsKeptIsHonoured == TokenSpec => []KeptTokensAreHonoured
<1>1. TokenInit => TokenIInv
  <2> SUFFICES ASSUME TokenInit PROVE TokenIInv
    OBVIOUS
  <2>1. /\ granted = 0 /\ honoured = {} /\ file = NoToken /\ cached = NoToken
        /\ user = [g \in Goroutine |-> Away]
    BY DEF TokenInit
  <2>2. \A g \in Goroutine : user[g].at = "away" /\ user[g].token = NoToken
    BY <2>1 DEF Away
  <2>3. TokenTypes
    BY <2>1, <2>2, NoTokens DEF TokenTypes, Saving, Away, Stage
  <2>4. ReadyMeansCached
    <3>1. ~ready
      BY DEF TokenInit
    <3>2. QED
      BY <2>2, <3>1 DEF ReadyMeansCached
  <2>5. GrantsInHandAreGood /\ UsedUpIsReplaced
    BY <2>1, <2>2, NoTokens DEF GrantsInHandAreGood, UsedUpIsReplaced, Saving
  <2>6. QED
    BY <2>3, <2>4, <2>5 DEF TokenIInv
<1>2. TokenIInv => KeptTokensAreHonoured
  BY DEF TokenIInv, UsedUpIsReplaced, KeptTokensAreHonoured, Saving, WritesFile
<1>3. QED
  BY <1>1, <1>2, TokenStep, PTL DEF TokenSpec

(***************************************************************************)
(* SharedSession: the lock, and the lines of two processes.                *)
(***************************************************************************)

SharedSpec == SharedInit /\ [][SharedNext]_sharedVars

Steps == {"idle", "save", "create", "fill", "link", "check", "remove",
          "open", "write", "rename", "move", "unlock"}
ProcState == [at : Steps, goal : {"append", "compact", "archive"}, line : Nat, lines : Seq(Nat), file : Nat]

SharedTypes ==
    /\ proc \in [Process -> ProcState]
    /\ content \in [1 .. MaxFile -> Seq(Nat)]
    /\ files \in 1 .. MaxFile /\ transcript \in 0 .. files /\ temp \in 0 .. files
    /\ temp # NoFile => temp # transcript
    /\ \A p \in Process :
         /\ proc[p].at \in {"save", "create", "fill", "rename"} => proc[p].goal = "compact"
         /\ proc[p].at \in {"open", "write"} => proc[p].goal = "append"
         /\ proc[p].at \in {"fill", "write"} => proc[p].file \in 1 .. files
         /\ proc[p].goal = "compact" => Len(proc[p].lines) > KeepLines
    /\ issued \in Nat

\* Whoever is inside has the lock file.
LockIsHeld == ~robbed => \A p \in Process : Inside(p) => holder = p

\* Whoever appends has opened what is the transcript now.
WriterIsCurrent ==
    ~robbed => \A p \in Process : proc[p].at = "write" => proc[p].file = transcript

\* Compactions that do not overlap.
OneCompaction == ~crossed => \A p, q \in Process : Compacting(p) /\ Compacting(q) => p = q

\* The lines in archives, and those that met a gap: no step takes one away.
Elsewhere == archived \cup latest \cup excused

\* Up to its rename a compaction has every stored line: among those it read, or
\* archived, or appended since; what it read is archived up to the split, the
\* rest is in the file that it is about to rename.
CompactionHasAll(p) ==
    LET x == proc[p] IN
    /\ stored \subseteq ToSet(x.lines) \cup Elsewhere
    /\ x.at # "save" => \A i \in 1 .. Len(x.lines) - KeepLines : x.lines[i] \in archived
    /\ x.at \notin {"save", "create"} => x.file = temp /\ temp # NoFile
    /\ x.at \notin {"save", "create", "fill"} =>
         \A i \in Len(x.lines) - KeepLines + 1 .. Len(x.lines) : x.lines[i] \in ToSet(content[temp])
CompactionsHaveAll ==
    (~robbed /\ ~crossed) => \A p \in Process : Compacting(p) => CompactionHasAll(p)

\* A line whose append succeeded is where it can be found.
LinesAreKept ==
    (~robbed /\ ~crossed) => stored \subseteq ToSet(TranscriptLines) \cup Elsewhere

SharedIInv ==
    SharedTypes /\ LockIsHeld /\ WriterIsCurrent /\ OneCompaction /\ CompactionsHaveAll /\ LinesAreKept

\* Process p becomes n and the other stays as it is.
Sets(p, n) == n \in ProcState /\ proc' = [proc EXCEPT ![p] = n]

\* Process p goes on with what it has in hand.
Goes(p, to, n) ==
    /\ Sets(p, n) /\ n.at = to
    /\ n.goal = proc[p].goal /\ n.line = proc[p].line /\ n.lines = proc[p].lines /\ n.file = proc[p].file

\* What Sets says of each process.
LEMMA OneSets ==
  ASSUME SharedTypes, NEW p \in Process, NEW n, Sets(p, n)
  PROVE  /\ proc' \in [Process -> ProcState] /\ proc'[p] = n
         /\ \A q \in Process \ {p} : proc'[q] = proc[q]
BY DEF Sets, SharedTypes

\* A process that has nothing to do.
LEMMA IdleProcess ==
  Idle \in ProcState /\ Idle.at = "idle" /\ Idle.goal = "append"
BY DEF Idle, ProcState, Steps, NoFile

\* Going on changes the place only.
LEMMA ProceedsEffect ==
  ASSUME SharedTypes, NEW p \in Process, NEW to \in Steps, Proceeds(p, to)
  PROVE  \E n \in ProcState : Goes(p, to, n)
<1> DEFINE n == [proc[p] EXCEPT !.at = to]
<1>1. proc[p] \in ProcState
  BY DEF SharedTypes
<1>2. /\ n \in ProcState /\ n.at = to
      /\ n.goal = proc[p].goal /\ n.line = proc[p].line /\ n.lines = proc[p].lines /\ n.file = proc[p].file
  BY <1>1 DEF ProcState
<1>3. proc' = [proc EXCEPT ![p] = n]
  BY DEF Proceeds, SharedTypes
<1> HIDE DEF n
<1>4. QED
  BY <1>2, <1>3 DEF Goes, Sets

\* Process p opens file f.
OpensFile(p, to, f) == proc' = [proc EXCEPT ![p].at = to, ![p].file = f]

\* A process that opens a file has it in hand.
LEMMA OpensEffect ==
  ASSUME SharedTypes, NEW p \in Process, NEW to \in Steps, NEW f \in Nat,
         OpensFile(p, to, f)
  PROVE  \E n \in ProcState : /\ Sets(p, n) /\ n.at = to /\ n.file = f
                              /\ n.goal = proc[p].goal /\ n.line = proc[p].line /\ n.lines = proc[p].lines
<1> DEFINE n == [proc[p] EXCEPT !.at = to, !.file = f]
<1>1. proc[p] \in ProcState
  BY DEF SharedTypes
<1>2. /\ n \in ProcState /\ n.at = to /\ n.file = f
      /\ n.goal = proc[p].goal /\ n.line = proc[p].line /\ n.lines = proc[p].lines
  BY <1>1 DEF ProcState
<1>3. proc' = [proc EXCEPT ![p] = n]
  BY DEF SharedTypes, OpensFile
<1> HIDE DEF n
<1>4. QED
  BY <1>2, <1>3 DEF Sets

\* The transcript is a sequence of lines.
LEMMA TranscriptShape == SharedTypes => TranscriptLines \in Seq(Nat)
<1> SUFFICES ASSUME SharedTypes PROVE TranscriptLines \in Seq(Nat)
  OBVIOUS
<1>1. CASE transcript = NoFile
  BY <1>1 DEF TranscriptLines
<1>2. CASE transcript # NoFile
  <2>1. transcript \in 1 .. MaxFile
    BY <1>2, SharedAssumption DEF SharedTypes, NoFile
  <2>2. QED
    BY <1>2, <2>1 DEF TranscriptLines, SharedTypes
<1>3. QED
  BY <1>1, <1>2

\* The three beginnings.
LEMMA BeginEffect ==
  ASSUME SharedTypes, NEW p \in Process,
         BeginAppend(p) \/ BeginArchiveSession(p) \/ LoadForCompaction(p)
  PROVE  \E n \in ProcState :
           /\ proc[p].at = "idle" /\ Sets(p, n)
           /\ \/ BeginAppend(p) /\ n.at = "link" /\ n.goal = "append"
              \/ BeginArchiveSession(p) /\ n.at = "link" /\ n.goal = "archive"
              \/ LoadForCompaction(p) /\ n.at = "save" /\ n.goal = "compact" /\ n.lines = TranscriptLines
<1>1. CASE BeginAppend(p)
  <2> DEFINE x == issued + 1
             n == [Idle EXCEPT !.at = "link", !.line = x]
  <2>1. x \in Nat
    BY DEF SharedTypes
  <2> HIDE DEF x
  <2>2. n \in ProcState /\ n.at = "link" /\ n.goal = "append"
    BY <2>1, IdleProcess DEF ProcState, Steps
  <2>3. proc[p].at = "idle" /\ proc' = [proc EXCEPT ![p] = n]
    BY <1>1 DEF BeginAppend, x
  <2> HIDE DEF n
  <2>4. QED
    BY <1>1, <2>2, <2>3 DEF Sets
<1>2. CASE BeginArchiveSession(p)
  <2> DEFINE n == [Idle EXCEPT !.at = "link", !.goal = "archive"]
  <2>1. n \in ProcState /\ n.at = "link" /\ n.goal = "archive"
    BY IdleProcess DEF ProcState, Steps
  <2>2. proc[p].at = "idle" /\ proc' = [proc EXCEPT ![p] = n]
    BY <1>2 DEF BeginArchiveSession
  <2> HIDE DEF n
  <2>3. QED
    BY <1>2, <2>1, <2>2 DEF Sets
<1>3. CASE LoadForCompaction(p)
  <2> DEFINE x == TranscriptLines
             n == [Idle EXCEPT !.at = "save", !.goal = "compact", !.lines = x]
  <2>1. x \in Seq(Nat)
    BY TranscriptShape
  <2> HIDE DEF x
  <2>2. n \in ProcState /\ n.at = "save" /\ n.goal = "compact" /\ n.lines = x
    BY <2>1, IdleProcess DEF ProcState, Steps
  <2>3. proc[p].at = "idle" /\ proc' = [proc EXCEPT ![p] = n]
    BY <1>3 DEF LoadForCompaction, x
  <2> HIDE DEF n
  <2>4. QED
    BY <1>3, <2>2, <2>3 DEF Sets, x
<1>4. QED
  BY <1>1, <1>2, <1>3

\* Where a process goes that has the lock.
LEMMA EntryIs ==
  ASSUME SharedTypes, NEW p \in Process
  PROVE  /\ Entry(p) \in {"open", "rename", "move"}
         /\ Entry(p) = "open" => proc[p].goal = "append"
         /\ Entry(p) = "rename" => proc[p].goal = "compact"
BY DEF Entry

\* A step of one process keeps the shapes.
LEMMA SharedTypesMove ==
  ASSUME SharedTypes, NEW p \in Process, NEW n, Sets(p, n),
         content' \in [1 .. MaxFile -> Seq(Nat)],
         files' \in 1 .. MaxFile, files <= files', transcript' \in 0 .. files', temp' \in 0 .. files',
         temp' # NoFile => temp' # transcript', issued' \in Nat,
         n.at \in {"save", "create", "fill", "rename"} => n.goal = "compact",
         n.at \in {"open", "write"} => n.goal = "append",
         n.at \in {"fill", "write"} => n.file \in 1 .. files',
         n.goal = "compact" => Len(n.lines) > KeepLines
  PROVE  SharedTypes'
<1>1. proc' \in [Process -> ProcState] /\ proc'[p] = n /\ \A q \in Process \ {p} : proc'[q] = proc[q]
  BY OneSets
<1>2. \A q \in Process : proc[q].at \in {"fill", "write"} => proc[q].file \in 1 .. files'
  BY SharedAssumption DEF SharedTypes
<1>3. \A q \in Process :
         /\ proc'[q].at \in {"save", "create", "fill", "rename"} => proc'[q].goal = "compact"
         /\ proc'[q].at \in {"open", "write"} => proc'[q].goal = "append"
         /\ proc'[q].at \in {"fill", "write"} => proc'[q].file \in 1 .. files'
         /\ proc'[q].goal = "compact" => Len(proc'[q].lines) > KeepLines
  BY <1>1, <1>2 DEF SharedTypes
<1>4. QED
  BY <1>1, <1>3 DEF SharedTypes

\* Every step keeps the shapes.
LEMMA SharedTypesStep == SharedTypes /\ [SharedNext]_sharedVars => SharedTypes'
<1> SUFFICES ASSUME SharedTypes, [SharedNext]_sharedVars PROVE SharedTypes'
  OBVIOUS
<1>t. /\ content \in [1 .. MaxFile -> Seq(Nat)] /\ files \in 1 .. MaxFile /\ files <= files
      /\ transcript \in 0 .. files /\ temp \in 0 .. files
      /\ (temp # NoFile => temp # transcript) /\ issued \in Nat /\ issued + 1 \in Nat /\ MaxFile \in Nat
  BY SharedAssumption DEF SharedTypes
<1>g. \A p \in Process : /\ proc[p] \in ProcState
                         /\ proc[p].at \in {"save", "create", "fill", "rename"} => proc[p].goal = "compact"
                         /\ proc[p].at \in {"open", "write"} => proc[p].goal = "append"
                         /\ proc[p].at \in {"fill", "write"} => proc[p].file \in 1 .. files
                         /\ proc[p].goal = "compact" => Len(proc[p].lines) > KeepLines
  BY DEF SharedTypes
<1>q. ASSUME NEW p \in Process, NEW to \in Steps \ {"fill", "write"}, Proceeds(p, to),
             content' \in [1 .. MaxFile -> Seq(Nat)], UNCHANGED <<files, transcript, temp, issued>>,
             to \in {"save", "create", "rename"} => proc[p].goal = "compact",
             to = "open" => proc[p].goal = "append"
      PROVE  SharedTypes'
  <2>1. PICK n \in ProcState : Goes(p, to, n)
    BY <1>q, ProceedsEffect
  <2>2. QED
    BY <1>q, <1>t, <1>g, <2>1, SharedTypesMove DEF Goes
<1>i. ASSUME NEW p \in Process, proc' = [proc EXCEPT ![p] = Idle], UNCHANGED <<content, files, transcript, issued>>,
             temp' \in {temp, NoFile}
      PROVE  SharedTypes'
  <2>1. Sets(p, Idle)
    BY <1>i, IdleProcess DEF Sets
  <2>2. temp' \in 0 .. files /\ (temp' # NoFile => temp' # transcript)
    BY <1>i, <1>t DEF NoFile
  <2>3. QED
    BY <1>i, <1>t, <2>1, <2>2, IdleProcess, SharedTypesMove
<1>1. ASSUME NEW p \in Process, BeginAppend(p) \/ BeginArchiveSession(p) \/ LoadForCompaction(p)
      PROVE  SharedTypes'
  <2>1. PICK n \in ProcState :
           /\ Sets(p, n)
           /\ \/ n.at = "link" /\ n.goal # "compact"
              \/ n.at = "save" /\ n.goal = "compact" /\ Len(n.lines) > KeepLines
    BY <1>1, BeginEffect DEF LoadForCompaction
  <2>2. UNCHANGED <<content, files, transcript, temp>> /\ issued' \in {issued, issued + 1}
    BY <1>1 DEF BeginAppend, BeginArchiveSession, LoadForCompaction, Files, Told
  <2>3. QED
    BY <1>t, <2>1, <2>2, SharedTypesMove
<1>2. ASSUME NEW p \in Process, WriteCompactionArchive(p) PROVE SharedTypes'
  BY <1>2, <1>q, <1>t, <1>g DEF WriteCompactionArchive, Steps, Told
<1>3. ASSUME NEW p \in Process, OpenTemp(p) PROVE SharedTypes'
  <2>1. /\ content' \in [1 .. MaxFile -> Seq(Nat)]
        /\ files' \in 1 .. MaxFile /\ files <= files' /\ temp' \in 1 .. files' /\ temp' # transcript
    <3>1. CASE temp = NoFile
      BY <1>3, <1>t, <3>1 DEF OpenTemp
    <3>2. CASE temp # NoFile
      <4>1. <<>> \in Seq(Nat) /\ temp \in 1 .. MaxFile
        BY <1>t, <3>2 DEF NoFile
      <4>2. content' = [content EXCEPT ![temp] = <<>>] /\ files' = files /\ temp' = temp
        BY <1>3, <3>2 DEF OpenTemp
      <4>3. content' \in [1 .. MaxFile -> Seq(Nat)]
        BY <1>t, <4>1, <4>2
      <4>4. files' \in 1 .. MaxFile /\ files <= files' /\ temp' \in 1 .. files' /\ temp' # transcript
        BY <1>t, <3>2, <4>2 DEF NoFile
      <4>5. QED
        BY <4>3, <4>4
    <3>3. QED
      BY <3>1, <3>2
  <2>2. proc[p].at = "create" /\ UNCHANGED <<transcript, issued>>
    BY <1>3 DEF OpenTemp, Told
  <2> DEFINE f == temp'
  <2>3. OpensFile(p, "fill", f)
    BY <1>3 DEF OpenTemp, OpensFile
  <2>4. f \in Nat /\ f \in 1 .. files' /\ "fill" \in Steps /\ transcript \in 0 .. files' /\ temp' \in 0 .. files'
    BY <1>t, <2>1 DEF Steps
  <2> HIDE DEF f
  <2>5. PICK n \in ProcState : /\ Sets(p, n) /\ n.at = "fill" /\ n.file = f
                               /\ n.goal = proc[p].goal /\ n.line = proc[p].line /\ n.lines = proc[p].lines
    BY <2>3, <2>4, OpensEffect
  <2>6. n.goal = "compact" /\ Len(n.lines) > KeepLines
    BY <1>g, <2>2, <2>5
  <2>7. /\ temp' # NoFile => temp' # transcript'
        /\ issued' \in Nat /\ transcript' \in 0 .. files'
    BY <1>t, <2>1, <2>2, <2>4
  <2>8. n.file \in 1 .. files' /\ n.at \notin {"open", "write"}
    BY <2>4, <2>5
  <2>9. QED
    BY <2>1, <2>4, <2>5, <2>6, <2>7, <2>8, SharedTypesMove
<1>4. ASSUME NEW p \in Process, WriteTemp(p) PROVE SharedTypes'
  <2> DEFINE f == proc[p].file
             kept == SubSeq(proc[p].lines, SplitAt(p) + 1, Len(proc[p].lines))
             rest == SubSeq(content[f], KeepLines + 1, Len(content[f]))
  <2>1. f \in 1 .. MaxFile /\ proc[p].lines \in Seq(Nat) /\ KeepLines \in Nat
    BY <1>4, <1>g, <1>t, SharedAssumption DEF WriteTemp, ProcState
  <2>2. content[f] \in Seq(Nat)
    BY <1>t, <2>1
  <2>3. kept \in Seq(Nat) /\ rest \in Seq(Nat)
    <3>1. SplitAt(p) + 1 \in 1 .. Len(proc[p].lines)
      BY <1>4, <1>g, <2>1, SharedAssumption DEF WriteTemp, SplitAt
    <3>2. rest \in Seq(Nat)
      BY <2>1, <2>2
    <3>3. kept \in Seq(Nat)
      BY <2>1, <3>1
    <3>4. QED
      BY <3>2, <3>3
  <2>4. content' = [content EXCEPT ![f] = kept \o rest]
    BY <1>4 DEF WriteTemp
  <2> HIDE DEF kept, rest
  <2>5. kept \o rest \in Seq(Nat)
    BY <2>3
  <2>6. content' \in [1 .. MaxFile -> Seq(Nat)]
    BY <1>t, <2>4, <2>5
  <2>7. QED
    BY <1>4, <1>q, <2>6 DEF WriteTemp, Steps, Told
<1>5. ASSUME NEW p \in Process, Link(p) PROVE SharedTypes'
  <2>1. PICK to \in {"open", "rename", "move", "check"} :
           /\ Proceeds(p, to) /\ (to = "open" => proc[p].goal = "append")
           /\ (to = "rename" => proc[p].goal = "compact")
    BY <1>5, EntryIs DEF Link
  <2>2. QED
    BY <1>5, <1>q, <1>t, <2>1 DEF Link, Steps, Files, Told
<1>6. ASSUME NEW p \in Process, LockFileIsStale(p) PROVE SharedTypes'
  <2>1. CASE proc' = [proc EXCEPT ![p] = Idle] /\ temp' \in {temp, NoFile}
    BY <1>6, <1>i, <2>1 DEF LockFileIsStale, Told
  <2>2. ASSUME NEW to \in {"remove", "link"}, Proceeds(p, to), temp' = temp PROVE SharedTypes'
    BY <1>6, <1>q, <1>t, <2>2 DEF LockFileIsStale, Steps, Told
  <2>3. QED
    BY <1>6, <2>1, <2>2 DEF LockFileIsStale
<1>7. ASSUME NEW p \in Process, RemoveStale(p) PROVE SharedTypes'
  BY <1>7, <1>q, <1>t DEF RemoveStale, Steps, Files, Told
<1>8. ASSUME NEW p \in Process, Unlock(p) \/ Crash(p) PROVE SharedTypes'
  BY <1>8, <1>i DEF Unlock, Crash, Files, Told
<1>9. ASSUME NEW p \in Process, OpenTranscript(p) PROVE SharedTypes'
  <2>1. /\ files' \in 1 .. MaxFile /\ files <= files' /\ transcript' \in 1 .. files'
        /\ temp # NoFile => temp # transcript'
    <3>1. CASE transcript = NoFile
      BY <1>9, <1>t, <3>1 DEF OpenTranscript
    <3>2. CASE transcript # NoFile
      BY <1>9, <1>t, <3>2 DEF OpenTranscript, NoFile
    <3>3. QED
      BY <3>1, <3>2
  <2>2. proc[p].at = "open" /\ UNCHANGED <<temp, issued, content>>
    BY <1>9 DEF OpenTranscript, Told
  <2> DEFINE f == transcript'
  <2>3. OpensFile(p, "write", f)
    BY <1>9 DEF OpenTranscript, OpensFile
  <2>4. f \in Nat /\ f \in 1 .. files' /\ "write" \in Steps /\ temp \in 0 .. files' /\ transcript' \in 0 .. files'
    BY <1>t, <2>1 DEF Steps
  <2> HIDE DEF f
  <2>5. PICK n \in ProcState : /\ Sets(p, n) /\ n.at = "write" /\ n.file = f
                               /\ n.goal = proc[p].goal /\ n.line = proc[p].line /\ n.lines = proc[p].lines
    BY <2>3, <2>4, OpensEffect
  <2>6. n.goal = "append"
    BY <1>g, <2>2, <2>5
  <2>7. /\ temp' # NoFile => temp' # transcript'
        /\ issued' \in Nat /\ temp' \in 0 .. files' /\ content' \in [1 .. MaxFile -> Seq(Nat)]
    BY <1>t, <2>1, <2>2, <2>4
  <2>8. n.file \in 1 .. files' /\ n.at \notin {"save", "create", "fill", "rename"}
    BY <2>4, <2>5
  <2>9. QED
    BY <2>1, <2>4, <2>5, <2>6, <2>7, <2>8, SharedTypesMove
<1>10. ASSUME NEW p \in Process, WriteLine(p) PROVE SharedTypes'
  <2>1. proc[p].file \in 1 .. MaxFile /\ proc[p].line \in Nat
    BY <1>10, <1>g, <1>t DEF WriteLine, ProcState
  <2>2. Append(content[proc[p].file], proc[p].line) \in Seq(Nat)
    BY <1>t, <2>1
  <2>3. content' \in [1 .. MaxFile -> Seq(Nat)]
    BY <1>10, <1>t, <2>2 DEF WriteLine
  <2>4. QED
    BY <1>10, <1>q, <2>3 DEF WriteLine, Steps
<1>11. ASSUME NEW p \in Process, ShortWrite(p) PROVE SharedTypes'
  BY <1>11, <1>q, <1>t DEF ShortWrite, Steps, Told
<1>12. ASSUME NEW p \in Process, RenameTemp(p) PROVE SharedTypes'
  <2>1. Proceeds(p, "unlock") /\ UNCHANGED <<content, files, issued>>
    BY <1>12 DEF RenameTemp, Told
  <2>2. /\ transcript' \in 0 .. files /\ temp' \in 0 .. files /\ (temp' # NoFile => temp' # transcript')
    BY <1>12, <1>t DEF RenameTemp, NoFile
  <2>3. PICK n \in ProcState : Goes(p, "unlock", n)
    BY <2>1, ProceedsEffect DEF Steps
  <2>4. QED
    BY <1>t, <1>g, <2>1, <2>2, <2>3, SharedTypesMove DEF Goes
<1>13. ASSUME NEW p \in Process, ArchiveSession(p) PROVE SharedTypes'
  <2>1. Proceeds(p, "unlock") /\ UNCHANGED <<content, files, issued, temp>> /\ transcript' = NoFile
    BY <1>13 DEF ArchiveSession, Told
  <2>2. transcript' \in 0 .. files /\ (temp # NoFile => temp # transcript')
    BY <1>t, <2>1 DEF NoFile
  <2>3. PICK n \in ProcState : Goes(p, "unlock", n)
    BY <2>1, ProceedsEffect DEF Steps
  <2>4. QED
    BY <1>t, <1>g, <2>1, <2>2, <2>3, SharedTypesMove DEF Goes
<1>14. CASE LockAges \/ SecondPasses
  BY <1>14 DEF LockAges, SecondPasses, SharedTypes, Files, Told
<1>15. CASE UNCHANGED sharedVars
  BY <1>15 DEF sharedVars, SharedTypes
<1>16. QED
  BY <1>1, <1>2, <1>3, <1>4, <1>5, <1>6, <1>7, <1>8, <1>9, <1>10, <1>11, <1>12, <1>13, <1>14, <1>15
     DEF SharedNext, SharedStep

\* Process p keeps its goal, its line and what it read.
InHand(p, n) == n.goal = proc[p].goal /\ n.line = proc[p].line /\ n.lines = proc[p].lines

\* What each operation makes of its process.
StepOf(p, n) ==
    \/ (BeginAppend(p) \/ BeginArchiveSession(p)) /\ n.at = "link" /\ n.goal # "compact"
    \/ LoadForCompaction(p) /\ n.at = "save" /\ n.goal = "compact" /\ n.lines = TranscriptLines
    \/ WriteCompactionArchive(p) /\ n.at = "create" /\ InHand(p, n)
    \/ OpenTemp(p) /\ n.at = "fill" /\ n.file = temp' /\ InHand(p, n)
    \/ WriteTemp(p) /\ n.at = "link" /\ n.file = proc[p].file /\ InHand(p, n)
    \/ Link(p) /\ n.at \in {"open", "rename", "move", "check"} /\ n.file = proc[p].file /\ InHand(p, n)
         /\ (holder # Nobody => n.at = "check")
    \/ LockFileIsStale(p) /\ n.at \in {"remove", "link"} /\ n.file = proc[p].file /\ InHand(p, n) /\ temp' = temp
    \/ LockFileIsStale(p) /\ n.at = "idle"
    \/ RemoveStale(p) /\ n.at = "link" /\ n.file = proc[p].file /\ InHand(p, n)
    \/ (Unlock(p) \/ Crash(p)) /\ n.at = "idle"
    \/ OpenTranscript(p) /\ n.at = "write" /\ n.file = transcript' /\ InHand(p, n)
    \/ (WriteLine(p) \/ ShortWrite(p) \/ RenameTemp(p) \/ ArchiveSession(p)) /\ n.at = "unlock"

\* Every operation of a process has such an effect.
LEMMA StepEffect ==
  ASSUME SharedTypes, NEW p \in Process, SharedStep(p)
  PROVE  \E n \in ProcState : Sets(p, n) /\ StepOf(p, n)
<1>g. ASSUME NEW to \in Steps, Proceeds(p, to)
      PROVE  \E n \in ProcState : Sets(p, n) /\ n.at = to /\ n.file = proc[p].file /\ InHand(p, n)
  BY <1>g, ProceedsEffect DEF Goes, InHand
<1>i. ASSUME proc' = [proc EXCEPT ![p] = Idle]
      PROVE  Idle \in ProcState /\ Sets(p, Idle) /\ Idle.at = "idle"
  BY <1>i, IdleProcess DEF Sets
<1>1. CASE BeginAppend(p) \/ BeginArchiveSession(p) \/ LoadForCompaction(p)
  BY <1>1, BeginEffect DEF StepOf
<1>2. CASE WriteCompactionArchive(p)
  BY <1>2, <1>g DEF WriteCompactionArchive, StepOf, Steps
<1>3. CASE OpenTemp(p)
  <2> DEFINE f == temp'
  <2>1. OpensFile(p, "fill", f)
    BY <1>3 DEF OpenTemp, OpensFile
  <2>2. f \in Nat /\ "fill" \in Steps
    BY <1>3, SharedAssumption DEF OpenTemp, SharedTypes, Steps
  <2> HIDE DEF f
  <2>3. PICK n \in ProcState : /\ Sets(p, n) /\ n.at = "fill" /\ n.file = f
                               /\ n.goal = proc[p].goal /\ n.line = proc[p].line /\ n.lines = proc[p].lines
    BY <2>1, <2>2, OpensEffect
  <2>4. QED
    BY <1>3, <2>3 DEF StepOf, InHand, f
<1>4. CASE WriteTemp(p)
  BY <1>4, <1>g DEF WriteTemp, StepOf, Steps
<1>5. CASE Link(p)
  <2>1. PICK to \in {"open", "rename", "move", "check"} : Proceeds(p, to) /\ (holder # Nobody => to = "check")
    BY <1>5, EntryIs DEF Link
  <2>2. PICK n \in ProcState : Sets(p, n) /\ n.at = to /\ n.file = proc[p].file /\ InHand(p, n)
    BY <1>g, <2>1 DEF Steps
  <2>3. QED
    BY <1>5, <2>1, <2>2 DEF StepOf
<1>6. CASE LockFileIsStale(p)
  <2>1. CASE proc' = [proc EXCEPT ![p] = Idle]
    BY <1>6, <1>i, <2>1 DEF StepOf
  <2>2. ASSUME NEW to \in {"remove", "link"}, Proceeds(p, to), temp' = temp
        PROVE  \E n \in ProcState : Sets(p, n) /\ StepOf(p, n)
    <3>1. PICK n \in ProcState : Sets(p, n) /\ n.at = to /\ n.file = proc[p].file /\ InHand(p, n)
      BY <1>g, <2>2 DEF Steps
    <3>2. QED
      BY <1>6, <2>2, <3>1 DEF StepOf
  <2>3. QED
    BY <1>6, <2>1, <2>2 DEF LockFileIsStale
<1>7. CASE RemoveStale(p)
  BY <1>7, <1>g DEF RemoveStale, StepOf, Steps
<1>8. CASE Unlock(p) \/ Crash(p)
  <2>1. proc' = [proc EXCEPT ![p] = Idle]
    BY <1>8 DEF Unlock, Crash
  <2>2. QED
    BY <1>8, <1>i, <2>1 DEF StepOf
<1>9. CASE OpenTranscript(p)
  <2> DEFINE f == transcript'
  <2>1. OpensFile(p, "write", f)
    BY <1>9 DEF OpenTranscript, OpensFile
  <2>2. f \in Nat /\ "write" \in Steps
    BY <1>9, SharedAssumption DEF OpenTranscript, SharedTypes, Steps
  <2> HIDE DEF f
  <2>3. PICK n \in ProcState : /\ Sets(p, n) /\ n.at = "write" /\ n.file = f
                               /\ n.goal = proc[p].goal /\ n.line = proc[p].line /\ n.lines = proc[p].lines
    BY <2>1, <2>2, OpensEffect
  <2>4. QED
    BY <1>9, <2>3 DEF StepOf, InHand, f
<1>10. CASE WriteLine(p) \/ ShortWrite(p) \/ RenameTemp(p) \/ ArchiveSession(p)
  <2>1. Proceeds(p, "unlock")
    BY <1>10 DEF WriteLine, ShortWrite, RenameTemp, ArchiveSession
  <2>2. PICK n \in ProcState : Sets(p, n) /\ n.at = "unlock"
    BY <1>g, <2>1 DEF Steps
  <2>3. QED
    BY <1>10, <2>2 DEF StepOf
<1>11. QED
  BY <1>1, <1>2, <1>3, <1>4, <1>5, <1>6, <1>7, <1>8, <1>9, <1>10 DEF SharedStep

\* Of everything a process can do, only RemoveStale takes a lock from one that
\* is using it, and only LoadForCompaction crosses another compaction.
LEMMA FlagsStay ==
  ASSUME NEW p \in Process, SharedStep(p)
  PROVE  (robbed => robbed') /\ (crossed => crossed')
<1>1. CASE RemoveStale(p)
  BY <1>1 DEF RemoveStale
<1>2. CASE LoadForCompaction(p)
  BY <1>2 DEF LoadForCompaction
<1>3. CASE ~RemoveStale(p) /\ ~LoadForCompaction(p)
  <2>1. robbed' = robbed /\ crossed' = crossed
    BY <1>3 DEF SharedStep, BeginAppend, BeginArchiveSession, WriteCompactionArchive, OpenTemp, WriteTemp, Link,
       LockFileIsStale, Unlock, OpenTranscript, WriteLine, ShortWrite, RenameTemp, ArchiveSession, Crash
  <2>2. QED
    BY <2>1
<1>4. QED
  BY <1>1, <1>2, <1>3

\* Every step keeps the lock with whoever is inside.
LEMMA LockStep == SharedTypes /\ LockIsHeld /\ [SharedNext]_sharedVars => LockIsHeld'
<1> SUFFICES ASSUME SharedTypes, LockIsHeld, [SharedNext]_sharedVars, ~robbed', NEW q \in Process, Inside(q)'
             PROVE  holder' = q
  BY DEF LockIsHeld
<1>1. ASSUME NEW p \in Process, SharedStep(p) PROVE holder' = q
  <2>1. PICK n \in ProcState : Sets(p, n) /\ StepOf(p, n)
    BY <1>1, StepEffect
  <2>2. proc'[p] = n /\ \A x \in Process \ {p} : proc'[x] = proc[x]
    BY <2>1, OneSets
  <2>3. \A x \in Process : Inside(x) => holder = x
    BY <1>1, FlagsStay DEF LockIsHeld
  <2>4. q # p => Inside(q)
    BY <2>2 DEF Inside
  <2>5. CASE Link(p)
    BY <2>1, <2>2, <2>3, <2>4, <2>5, SharedAssumption DEF Link, StepOf, Inside, Lock,
       BeginAppend, BeginArchiveSession, LoadForCompaction, WriteCompactionArchive, OpenTemp, WriteTemp,
       LockFileIsStale, RemoveStale, Unlock, OpenTranscript, WriteLine, ShortWrite, RenameTemp, ArchiveSession, Crash
  <2>6. CASE RemoveStale(p)
    <3>1. n.at \in {"link", "idle"}
      BY <2>1, <2>6 DEF RemoveStale, StepOf,
         BeginAppend, BeginArchiveSession, LoadForCompaction, WriteCompactionArchive, OpenTemp, WriteTemp,
         LockFileIsStale, Link, Unlock, OpenTranscript, WriteLine, ShortWrite, RenameTemp, ArchiveSession
    <3>2. QED
      BY <2>2, <2>3, <2>4, <2>6, <3>1, SharedAssumption DEF RemoveStale, Inside
  <2>7. CASE Unlock(p)
    BY <2>2, <2>3, <2>4, <2>7, IdleProcess DEF Unlock, Inside, SharedTypes
  <2>8. CASE ~Link(p) /\ ~RemoveStale(p) /\ ~Unlock(p)
    <3>1. holder' = holder
      BY <1>1, <2>8 DEF SharedStep, Lock, BeginAppend, BeginArchiveSession, LoadForCompaction,
         WriteCompactionArchive, OpenTemp, WriteTemp, LockFileIsStale, OpenTranscript, WriteLine, ShortWrite,
         RenameTemp, ArchiveSession, Crash
    <3>2. q = p => Inside(p)
      BY <2>1, <2>2, <2>8 DEF StepOf, Inside, OpenTranscript, WriteLine, ShortWrite, RenameTemp, ArchiveSession
    <3>3. QED
      BY <2>3, <2>4, <3>1, <3>2
  <2>9. QED
    BY <2>5, <2>6, <2>7, <2>8
<1>2. CASE LockAges \/ SecondPasses \/ UNCHANGED sharedVars
  BY <1>2 DEF LockAges, SecondPasses, sharedVars, LockIsHeld, Inside, Lock
<1>3. QED
  BY <1>1, <1>2 DEF SharedNext

\* Every step keeps the writer's file the transcript.
LEMMA WriterStep == SharedTypes /\ LockIsHeld /\ WriterIsCurrent /\ [SharedNext]_sharedVars => WriterIsCurrent'
<1> SUFFICES ASSUME SharedTypes, LockIsHeld, WriterIsCurrent, [SharedNext]_sharedVars, ~robbed',
                    NEW q \in Process, proc'[q].at = "write"
             PROVE  proc'[q].file = transcript'
  BY DEF WriterIsCurrent
<1>1. ASSUME NEW p \in Process, SharedStep(p) PROVE proc'[q].file = transcript'
  <2>1. PICK n \in ProcState : Sets(p, n) /\ StepOf(p, n)
    BY <1>1, StepEffect
  <2>2. proc'[p] = n /\ \A x \in Process \ {p} : proc'[x] = proc[x]
    BY <2>1, OneSets
  <2>3. /\ \A x \in Process : Inside(x) => holder = x
        /\ \A x \in Process : proc[x].at = "write" => proc[x].file = transcript
    BY <1>1, FlagsStay DEF LockIsHeld, WriterIsCurrent
  <2>4. CASE q = p
    BY <2>1, <2>2, <2>4 DEF StepOf
  <2>5. CASE q # p /\ (OpenTranscript(p) \/ RenameTemp(p) \/ ArchiveSession(p))
    <3>1. Inside(p) /\ Inside(q)
      BY <2>2, <2>5 DEF OpenTranscript, RenameTemp, ArchiveSession, Inside
    <3>2. QED
      BY <2>3, <2>5, <3>1
  <2>6. CASE q # p /\ ~OpenTranscript(p) /\ ~RenameTemp(p) /\ ~ArchiveSession(p)
    <3>1. transcript' = transcript
      BY <1>1, <2>6 DEF SharedStep, Files, BeginAppend, BeginArchiveSession, LoadForCompaction,
         WriteCompactionArchive, OpenTemp, WriteTemp, Link, LockFileIsStale, RemoveStale, Unlock, WriteLine,
         ShortWrite, Crash
    <3>2. QED
      BY <2>2, <2>3, <2>6, <3>1
  <2>7. QED
    BY <2>4, <2>5, <2>6
<1>2. CASE LockAges \/ SecondPasses \/ UNCHANGED sharedVars
  BY <1>2 DEF LockAges, SecondPasses, sharedVars, WriterIsCurrent, Files
<1>3. QED
  BY <1>1, <1>2 DEF SharedNext

\* A compaction begins with LoadForCompaction.
LEMMA CompactionBegins ==
  ASSUME SharedTypes, NEW p \in Process, NEW n, StepOf(p, n), ~LoadForCompaction(p),
         n.at # "idle", n.at # "unlock", n.goal = "compact"
  PROVE  Compacting(p) /\ InHand(p, n)
BY DEF StepOf, Compacting, InHand, WriteCompactionArchive, OpenTemp, WriteTemp, Link, LockFileIsStale,
       RemoveStale, OpenTranscript

\* Every step keeps compactions apart, or has them crossed.
LEMMA OneCompactionStep == SharedTypes /\ OneCompaction /\ [SharedNext]_sharedVars => OneCompaction'
<1> SUFFICES ASSUME SharedTypes, OneCompaction, [SharedNext]_sharedVars, ~crossed',
                    NEW q \in Process, NEW r \in Process, Compacting(q)', Compacting(r)'
             PROVE  q = r
  BY DEF OneCompaction
<1>1. ASSUME NEW p \in Process, SharedStep(p) PROVE q = r
  <2>1. PICK n \in ProcState : Sets(p, n) /\ StepOf(p, n)
    BY <1>1, StepEffect
  <2>2. proc'[p] = n /\ \A x \in Process \ {p} : proc'[x] = proc[x]
    BY <2>1, OneSets
  <2>3. \A x, y \in Process : Compacting(x) /\ Compacting(y) => x = y
    BY <1>1, FlagsStay DEF OneCompaction
  <2>4. (q # p => Compacting(q)) /\ (r # p => Compacting(r))
    BY <2>2 DEF Compacting
  <2>5. CASE LoadForCompaction(p)
    <3>1. ~OtherCompacts(p)
      BY <2>5 DEF LoadForCompaction
    <3>2. QED
      BY <2>4, <3>1 DEF OtherCompacts
  <2>6. CASE ~LoadForCompaction(p)
    <3>1. (q = p => Compacting(q)) /\ (r = p => Compacting(r))
      BY <2>1, <2>2, <2>6, CompactionBegins DEF Compacting
    <3>2. QED
      BY <2>3, <2>4, <3>1
  <2>7. QED
    BY <2>5, <2>6
<1>2. CASE LockAges \/ SecondPasses \/ UNCHANGED sharedVars
  BY <1>2 DEF LockAges, SecondPasses, sharedVars, OneCompaction, Compacting
<1>3. QED
  BY <1>1, <1>2 DEF SharedNext

\* No step takes a line out of the archives without excusing it, and none takes
\* out what a compaction archived.
LEMMA ElsewhereStays ==
  ASSUME [SharedNext]_sharedVars
  PROVE  archived \subseteq archived' /\ Elsewhere \subseteq Elsewhere'
<1>1. ASSUME NEW p \in Process, SharedStep(p) PROVE archived \subseteq archived' /\ Elsewhere \subseteq Elsewhere'
  <2>1. CASE ArchiveSession(p)
    <3>1. archived' = archived /\ latest \cup excused \subseteq latest' \cup excused'
      BY <2>1 DEF ArchiveSession
    <3>2. QED
      BY <3>1 DEF Elsewhere
  <2>2. CASE WriteCompactionArchive(p)
    <3>1. archived \subseteq archived' /\ excused' = excused /\ latest' = latest
      BY <2>2 DEF WriteCompactionArchive, Told
    <3>2. QED
      BY <3>1 DEF Elsewhere
  <2>3. CASE WriteLine(p)
    <3>1. archived' = archived /\ excused \subseteq excused' /\ latest' = latest
      BY <2>3 DEF WriteLine
    <3>2. QED
      BY <3>1 DEF Elsewhere
  <2>4. CASE ~ArchiveSession(p) /\ ~WriteCompactionArchive(p) /\ ~WriteLine(p)
    <3>1. UNCHANGED <<archived, excused, latest>>
      BY <1>1, <2>4 DEF SharedStep, Files, Told, BeginAppend, BeginArchiveSession, LoadForCompaction, OpenTemp,
         WriteTemp, Link, LockFileIsStale, RemoveStale, Unlock, OpenTranscript, ShortWrite, RenameTemp, Crash
    <3>2. QED
      BY <3>1 DEF Elsewhere
  <2>5. QED
    BY <2>1, <2>2, <2>3, <2>4
<1>2. CASE SecondPasses
  BY <1>2 DEF SecondPasses, Elsewhere, Told
<1>3. CASE LockAges \/ UNCHANGED sharedVars
  <2>1. UNCHANGED <<archived, latest, excused>>
    BY <1>3 DEF LockAges, sharedVars, Files, Told
  <2>2. QED
    BY <2>1 DEF Elsewhere
<1>4. QED
  BY <1>1, <1>2, <1>3 DEF SharedNext

\* What a process that is not compacting leaves to the one that is.
LEMMA BesideACompaction ==
  ASSUME SharedTypes, NEW p \in Process, NEW q \in Process \ {p}, SharedStep(p), Compacting(q), ~Compacting(p),
         ~LoadForCompaction(p), proc[p].at = "write" => proc[p].file = transcript
  PROVE  /\ temp' = temp /\ (temp # NoFile => content'[temp] = content[temp])
         /\ stored' \subseteq stored \cup Elsewhere'
<1>g. /\ proc[p].at \in {"save", "create", "fill", "rename"} => proc[p].goal = "compact"
      /\ proc[p].at \in {"fill", "write"} => proc[p].file \in 1 .. files
      /\ content \in [1 .. MaxFile -> Seq(Nat)]
      /\ temp # NoFile => temp # transcript
  BY DEF SharedTypes
<1>1. ~WriteCompactionArchive(p) /\ ~OpenTemp(p) /\ ~WriteTemp(p) /\ ~RenameTemp(p)
  BY <1>g DEF WriteCompactionArchive, OpenTemp, WriteTemp, RenameTemp, Compacting
<1>2. CASE WriteLine(p)
  <2>1. OtherCompacts(p)
    BY DEF OtherCompacts
  <2>2. temp' = temp /\ proc[p].line \in excused' /\ stored' = stored \cup {proc[p].line}
    BY <1>2, <2>1 DEF WriteLine
  <2>3. ASSUME temp # NoFile PROVE content'[temp] = content[temp]
    <3>1. temp # proc[p].file
      BY <1>2, <1>g, <2>3 DEF WriteLine
    <3>2. temp \in 1 .. MaxFile
      BY <2>3, SharedAssumption DEF SharedTypes, NoFile
    <3>3. QED
      BY <1>2, <1>g, <3>1, <3>2 DEF WriteLine
  <2>4. QED
    BY <2>2, <2>3 DEF Elsewhere
<1>3. CASE LockFileIsStale(p)
  <2>1. proc[p].goal # "compact"
    BY <1>3 DEF LockFileIsStale, Compacting
  <2>2. QED
    BY <1>3, <2>1 DEF LockFileIsStale, Told
<1>4. CASE ArchiveSession(p)
  BY <1>4 DEF ArchiveSession
<1>5. CASE ~WriteLine(p) /\ ~LockFileIsStale(p) /\ ~ArchiveSession(p)
  <2>1. UNCHANGED <<temp, content, stored>>
    BY <1>1, <1>5 DEF SharedStep, Files, Told, BeginAppend, BeginArchiveSession, Link, RemoveStale, Unlock,
       OpenTranscript, ShortWrite, Crash
  <2>2. QED
    BY <2>1
<1>6. QED
  BY <1>2, <1>3, <1>4, <1>5

\* CompactionHasAll of the next state, of a process that has become x.
LEMMA HasAllNext ==
  ASSUME NEW q, NEW x, x = proc'[q],
         \A l \in stored' : l \in ToSet(x.lines) \/ l \in Elsewhere',
         x.at # "save" => \A i \in 1 .. Len(x.lines) - KeepLines : x.lines[i] \in archived',
         x.at \notin {"save", "create"} => x.file = temp' /\ temp' # NoFile,
         x.at \notin {"save", "create", "fill"} =>
           \A i \in Len(x.lines) - KeepLines + 1 .. Len(x.lines) : x.lines[i] \in ToSet(content'[temp'])
  PROVE  CompactionHasAll(q)'
BY DEF CompactionHasAll

\* What WriteCompactionArchive archives.
LEMMA SavedLines ==
  ASSUME SharedTypes, NEW p \in Process, WriteCompactionArchive(p), NEW lines, lines = proc[p].lines
  PROVE  \A i \in 1 .. Len(lines) - KeepLines : lines[i] \in archived'
<1> DEFINE s == SubSeq(lines, 1, SplitAt(p))
<1>1. lines \in Seq(Nat) /\ Len(lines) > KeepLines /\ KeepLines \in Nat /\ SplitAt(p) = Len(lines) - KeepLines
  BY SharedAssumption DEF SharedTypes, ProcState, WriteCompactionArchive, SplitAt
<1>2. SplitAt(p) \in Nat /\ SplitAt(p) <= Len(lines)
  BY <1>1
<1>3. Len(s) = SplitAt(p) /\ \A i \in 1 .. SplitAt(p) : s[i] = lines[i]
  BY <1>1, <1>2
<1>4. archived' = archived \cup ToSet(s)
  BY DEF WriteCompactionArchive
<1> HIDE DEF s
<1>5. \A i \in 1 .. SplitAt(p) : lines[i] \in ToSet(s)
  BY <1>3 DEF ToSet
<1>6. QED
  BY <1>1, <1>4, <1>5

\* The elements of a part of a sequence.
LEMMA PartAt ==
  ASSUME NEW s \in Seq(Nat), NEW a \in Nat, NEW b \in Nat, 1 <= a, b <= Len(s), NEW i \in 1 .. (b - a + 1)
  PROVE  SubSeq(s, a, b)[i] = s[a + i - 1]
OBVIOUS

\* What is left of a sequence without its first elements.
LEMMA WithoutFront ==
  ASSUME NEW c \in Seq(Nat), NEW k \in Nat
  PROVE  SubSeq(c, k + 1, Len(c)) \in Seq(Nat)
OBVIOUS

\* What WriteTemp leaves in the file it has open.
LEMMA FilledLines ==
  ASSUME SharedTypes, NEW p \in Process, WriteTemp(p), NEW lines, lines = proc[p].lines
  PROVE  \A i \in Len(lines) - KeepLines + 1 .. Len(lines) : lines[i] \in ToSet(content'[proc[p].file])
<1> DEFINE f == proc[p].file
           d == Len(lines) - KeepLines
           kept == SubSeq(lines, d + 1, Len(lines))
           rest == SubSeq(content[f], KeepLines + 1, Len(content[f]))
<1>1. lines \in Seq(Nat) /\ Len(lines) > KeepLines /\ KeepLines \in Nat /\ SplitAt(p) = d
  BY SharedAssumption DEF SharedTypes, ProcState, WriteTemp, SplitAt
<1>2. d \in Nat /\ d + 1 <= Len(lines) /\ d + 1 \in 1 .. Len(lines) /\ Len(lines) = d + KeepLines
  BY <1>1, SharedAssumption
<1>3. f \in 1 .. MaxFile
  BY SharedAssumption DEF SharedTypes, WriteTemp
<1>4. content[f] \in Seq(Nat)
  BY <1>3 DEF SharedTypes
<1>5. rest \in Seq(Nat)
  BY <1>1, <1>4, WithoutFront
<1>6. content' = [content EXCEPT ![f] = kept \o rest]
  BY <1>1 DEF WriteTemp
<1> HIDE DEF rest, d
<1>7. kept \in Seq(Nat) /\ Len(kept) = KeepLines /\ \A i \in 1 .. KeepLines : kept[i] = lines[d + i]
  <2>1. kept \in Seq(Nat)
    BY <1>1, <1>2
  <2>2. Len(kept) = Len(lines) - (d + 1) + 1
    BY <1>1, <1>2
  <2>3. Len(kept) = KeepLines
    BY <1>1, <1>2, <2>2
  <2>4. ASSUME NEW i \in 1 .. KeepLines PROVE kept[i] = lines[d + i]
    <3> DEFINE a == d + 1
               b == Len(lines)
    <3>1. a \in Nat /\ b \in Nat /\ 1 <= a /\ b <= Len(lines) /\ i \in 1 .. (b - a + 1) /\ a + i - 1 = d + i
      BY <1>1, <1>2
    <3> HIDE DEF a, b
    <3>2. SubSeq(lines, a, b)[i] = lines[a + i - 1]
      BY <1>1, <3>1, PartAt
    <3>3. QED
      BY <3>1, <3>2 DEF a, b
  <2>5. QED
    BY <2>1, <2>3, <2>4
<1> HIDE DEF kept
<1>8. content'[f] = kept \o rest
  BY <1>3, <1>6 DEF SharedTypes
<1>9. ASSUME NEW i \in d + 1 .. Len(lines) PROVE lines[i] \in ToSet(content'[f])
  <2>1. i - d \in 1 .. KeepLines /\ d + (i - d) = i
    BY <1>1, <1>2, <1>9
  <2>2. kept[i - d] = lines[i]
    BY <1>7, <2>1
  <2>3. i - d \in 1 .. Len(kept \o rest) /\ (kept \o rest)[i - d] = kept[i - d]
    BY <1>1, <1>5, <1>7, <2>1
  <2>4. QED
    BY <1>8, <2>2, <2>3 DEF ToSet
<1>10. QED
  BY <1>9 DEF d

\* A compacting process goes on.
LEMMA CompactionGoesOn ==
  ASSUME SharedTypes, NEW p \in Process, NEW n \in ProcState, Sets(p, n), StepOf(p, n), ~LoadForCompaction(p),
         n.at # "idle", n.at # "unlock", n.goal = "compact", CompactionHasAll(p)
  PROVE  CompactionHasAll(p)'
<1>1. Compacting(p) /\ InHand(p, n)
  BY CompactionBegins
<1>2. n = proc'[p] /\ archived \subseteq archived' /\ Elsewhere \subseteq Elsewhere'
  <2>1. SharedStep(p)
    BY DEF StepOf, SharedStep
  <2>2. QED
    BY <2>1, OneSets, ElsewhereStays DEF SharedNext
<1>3. /\ \A l \in stored : l \in ToSet(n.lines) \/ l \in Elsewhere
      /\ proc[p].at # "save" => \A i \in 1 .. Len(n.lines) - KeepLines : n.lines[i] \in archived
      /\ proc[p].at \notin {"save", "create"} => proc[p].file = temp /\ temp # NoFile
      /\ proc[p].at \notin {"save", "create", "fill"} =>
           \A i \in Len(n.lines) - KeepLines + 1 .. Len(n.lines) : n.lines[i] \in ToSet(content[temp])
  BY <1>1 DEF CompactionHasAll, InHand
<1>4. CASE WriteCompactionArchive(p) /\ n.at = "create"
  <2>1. UNCHANGED stored
    BY <1>4 DEF WriteCompactionArchive, Told
  <2>2. \A i \in 1 .. Len(n.lines) - KeepLines : n.lines[i] \in archived'
    BY <1>1, <1>4, SavedLines DEF InHand
  <2>3. QED
    BY <1>2, <1>3, <1>4, <2>1, <2>2, HasAllNext
<1>5. CASE OpenTemp(p) /\ n.at = "fill" /\ n.file = temp'
  <2>1. UNCHANGED stored /\ temp' # NoFile /\ proc[p].at = "create"
    BY <1>5, SharedAssumption DEF OpenTemp, Told, NoFile, SharedTypes
  <2>2. QED
    BY <1>2, <1>3, <1>5, <2>1, HasAllNext
<1>6. CASE WriteTemp(p) /\ n.at = "link" /\ n.file = proc[p].file
  <2>1. UNCHANGED <<stored, temp>> /\ proc[p].at = "fill"
    BY <1>6 DEF WriteTemp, Told
  <2>2. \A i \in Len(n.lines) - KeepLines + 1 .. Len(n.lines) : n.lines[i] \in ToSet(content'[proc[p].file])
    BY <1>1, <1>6, FilledLines DEF InHand
  <2>3. temp' = proc[p].file /\ temp' # NoFile
    BY <1>3, <2>1
  <2>4. \A i \in Len(n.lines) - KeepLines + 1 .. Len(n.lines) : n.lines[i] \in ToSet(content'[temp'])
    BY <2>2, <2>3
  <2>5. QED
    BY <1>2, <1>3, <1>6, <2>1, <2>3, <2>4, HasAllNext
<1>7. CASE n.file = proc[p].file /\ proc[p].at \notin {"save", "create", "fill"}
           /\ UNCHANGED <<stored, temp, content>>
  BY <1>2, <1>3, <1>7, HasAllNext
<1>8. CASE Link(p) /\ n.file = proc[p].file
  BY <1>7, <1>8 DEF Link, Files, Told
<1>9. CASE LockFileIsStale(p) /\ n.file = proc[p].file /\ temp' = temp
  BY <1>7, <1>9 DEF LockFileIsStale, Told
<1>10. CASE RemoveStale(p) /\ n.file = proc[p].file
  BY <1>7, <1>10 DEF RemoveStale, Files, Told
<1>11. ~OpenTranscript(p) \/ n.at # "write"
  BY <1>1 DEF OpenTranscript, SharedTypes, InHand
<1>12. QED
  BY <1>4, <1>5, <1>6, <1>8, <1>9, <1>10, <1>11 DEF StepOf

\* Every step keeps what a compaction has.
LEMMA CompactionsStep ==
  SharedTypes /\ WriterIsCurrent /\ OneCompaction /\ CompactionsHaveAll /\ LinesAreKept
    /\ [SharedNext]_sharedVars => CompactionsHaveAll'
<1> SUFFICES ASSUME SharedTypes, WriterIsCurrent, OneCompaction, CompactionsHaveAll, LinesAreKept,
                    [SharedNext]_sharedVars, ~robbed', ~crossed', NEW q \in Process, Compacting(q)'
             PROVE  CompactionHasAll(q)'
  BY DEF CompactionsHaveAll
<1>1. ASSUME NEW p \in Process, SharedStep(p) PROVE CompactionHasAll(q)'
  <2>1. PICK n \in ProcState : Sets(p, n) /\ StepOf(p, n)
    BY <1>1, StepEffect
  <2>2. proc'[p] = n /\ \A x \in Process \ {p} : proc'[x] = proc[x]
    BY <2>1, OneSets
  <2>3. ~robbed /\ ~crossed
    BY <1>1, FlagsStay
  <2>4. CASE q # p
    <3>1. Compacting(q) /\ proc'[q] = proc[q]
      BY <2>2, <2>4 DEF Compacting
    <3>2. ~Compacting(p)
      BY <2>3, <2>4, <3>1 DEF OneCompaction
    <3>3. ~LoadForCompaction(p)
      BY <2>4, <3>1 DEF LoadForCompaction, OtherCompacts
    <3>4. CompactionHasAll(q)
      BY <2>3, <3>1 DEF CompactionsHaveAll
    <3>5. proc[p].at = "write" => proc[p].file = transcript
      BY <2>3 DEF WriterIsCurrent
    <3>6. /\ temp' = temp /\ (temp # NoFile => content'[temp] = content[temp])
          /\ archived \subseteq archived' /\ Elsewhere \subseteq Elsewhere' /\ stored' \subseteq stored \cup Elsewhere'
      BY <1>1, <2>4, <3>1, <3>2, <3>3, <3>5, BesideACompaction, ElsewhereStays
    <3> DEFINE x == proc[q]
    <3>7. /\ \A l \in stored' : l \in ToSet(x.lines) \/ l \in Elsewhere'
          /\ x.at # "save" => \A i \in 1 .. Len(x.lines) - KeepLines : x.lines[i] \in archived'
          /\ x.at \notin {"save", "create"} => x.file = temp' /\ temp' # NoFile
      BY <3>4, <3>6 DEF CompactionHasAll
    <3>8. x.at \notin {"save", "create", "fill"} =>
            \A i \in Len(x.lines) - KeepLines + 1 .. Len(x.lines) : x.lines[i] \in ToSet(content'[temp'])
      BY <3>4, <3>6 DEF CompactionHasAll
    <3>9. x = proc'[q]
      BY <3>1
    <3> HIDE DEF x
    <3>10. QED
      BY <3>7, <3>8, <3>9, HasAllNext
  <2>5. CASE q = p /\ LoadForCompaction(p)
    <3>1. n.goal = "compact"
      BY <2>2, <2>5 DEF Compacting
    <3>2. n.at = "save" /\ n.lines = TranscriptLines
      BY <2>1, <2>5, <3>1 DEF StepOf, LoadForCompaction, WriteCompactionArchive, OpenTemp, WriteTemp, Link,
         LockFileIsStale, RemoveStale, Unlock, Crash, OpenTranscript, WriteLine, ShortWrite, RenameTemp,
         ArchiveSession
    <3>3. UNCHANGED stored /\ Elsewhere \subseteq Elsewhere'
      BY <2>5, ElsewhereStays DEF LoadForCompaction, Files, Told
    <3>4. \A l \in stored : l \in ToSet(n.lines) \/ l \in Elsewhere
      BY <2>3, <3>2 DEF LinesAreKept
    <3>5. QED
      BY <2>2, <2>5, <3>2, <3>3, <3>4, HasAllNext
  <2>6. CASE q = p /\ ~LoadForCompaction(p)
    <3>1. n.at # "idle" /\ n.at # "unlock" /\ n.goal = "compact"
      BY <2>2, <2>6 DEF Compacting
    <3>2. CompactionHasAll(p)
      BY <2>1, <2>3, <2>6, <3>1, CompactionBegins DEF CompactionsHaveAll
    <3>3. QED
      BY <2>1, <2>6, <3>1, <3>2, CompactionGoesOn
  <2>7. QED
    BY <2>4, <2>5, <2>6
<1>2. CASE LockAges \/ SecondPasses \/ UNCHANGED sharedVars
  <2>1. /\ UNCHANGED <<proc, content, temp, stored, robbed, crossed>>
        /\ archived \subseteq archived' /\ Elsewhere \subseteq Elsewhere'
    BY <1>2, ElsewhereStays DEF LockAges, SecondPasses, sharedVars, Files, Told
  <2>2. Compacting(q) /\ ~robbed /\ ~crossed
    BY <2>1 DEF Compacting
  <2>3. CompactionHasAll(q)
    BY <2>2 DEF CompactionsHaveAll
  <2>4. QED
    BY <2>1, <2>3 DEF CompactionHasAll
<1>3. QED
  BY <1>1, <1>2 DEF SharedNext

\* What is appended is in the transcript, next to what was there.
LEMMA AppendedLine ==
  ASSUME NEW s \in Seq(Nat), NEW l \in Nat
  PROVE  ToSet(s) \cup {l} \subseteq ToSet(Append(s, l))
<1> DEFINE t == Append(s, l)
<1>1. /\ Len(t) = Len(s) + 1 /\ t[Len(s) + 1] = l /\ Len(s) \in Nat
      /\ \A i \in 1 .. Len(s) : t[i] = s[i]
  OBVIOUS
<1> HIDE DEF t
<1>2. l \in ToSet(t)
  BY <1>1 DEF ToSet
<1>3. \A i \in 1 .. Len(s) : s[i] \in ToSet(t)
  BY <1>1 DEF ToSet
<1>4. ToSet(s) \subseteq ToSet(t)
  BY <1>3 DEF ToSet
<1>5. QED
  BY <1>2, <1>4 DEF t

\* Every step keeps the lines that were stored.
LEMMA KeptStep ==
  SharedTypes /\ WriterIsCurrent /\ CompactionsHaveAll /\ LinesAreKept
    /\ [SharedNext]_sharedVars => LinesAreKept'
<1> SUFFICES ASSUME SharedTypes, WriterIsCurrent, CompactionsHaveAll, LinesAreKept, [SharedNext]_sharedVars,
                    ~robbed', ~crossed', NEW l \in stored'
             PROVE  l \in ToSet(TranscriptLines') \/ l \in Elsewhere'
  BY DEF LinesAreKept
<1>t. /\ content \in [1 .. MaxFile -> Seq(Nat)]
      /\ temp # NoFile => temp # transcript
      /\ transcript # NoFile => transcript \in 1 .. MaxFile
  BY SharedAssumption DEF SharedTypes, NoFile
<1>e. Elsewhere \subseteq Elsewhere'
  BY ElsewhereStays
<1>s. ASSUME ~robbed, ~crossed, stored' = stored, transcript' = transcript,
             transcript # NoFile => content'[transcript] = content[transcript]
      PROVE  l \in ToSet(TranscriptLines') \/ l \in Elsewhere'
  <2>1. TranscriptLines' = TranscriptLines
    BY <1>s DEF TranscriptLines
  <2>2. QED
    BY <1>s, <1>e, <2>1 DEF LinesAreKept
<1>1. ASSUME NEW p \in Process, SharedStep(p)
      PROVE  l \in ToSet(TranscriptLines') \/ l \in Elsewhere'
  <2>1. ~robbed /\ ~crossed
    BY <1>1, FlagsStay
  <2>2. \A k \in stored : k \in ToSet(TranscriptLines) \/ k \in Elsewhere
    BY <2>1 DEF LinesAreKept
  <2>3. CASE OpenTemp(p)
    <3>1. transcript # NoFile => content'[transcript] = content[transcript]
      BY <1>t, <2>3 DEF OpenTemp
    <3>2. QED
      BY <1>s, <2>1, <2>3, <3>1 DEF OpenTemp, Told
  <2>4. CASE WriteTemp(p)
    <3>1. Compacting(p)
      BY <2>4 DEF WriteTemp, Compacting, SharedTypes
    <3>2. proc[p].file = temp /\ temp # NoFile
      BY <2>1, <2>4, <3>1 DEF WriteTemp, CompactionsHaveAll, CompactionHasAll
    <3>3. transcript # NoFile => content'[transcript] = content[transcript]
      BY <1>t, <2>4, <3>2 DEF WriteTemp
    <3>4. QED
      BY <1>s, <2>1, <2>4, <3>3 DEF WriteTemp, Told
  <2>5. CASE WriteCompactionArchive(p)
    <3>1. TranscriptLines' = TranscriptLines
      BY <2>5 DEF WriteCompactionArchive, TranscriptLines
    <3>2. QED
      BY <1>e, <2>2, <2>5, <3>1 DEF WriteCompactionArchive, Told
  <2>6. CASE OpenTranscript(p)
    <3>1. CASE transcript = NoFile
      <4>1. ToSet(TranscriptLines) = {}
        BY <3>1 DEF TranscriptLines, ToSet
      <4>2. QED
        BY <1>e, <2>2, <2>6, <4>1 DEF OpenTranscript, Told
    <3>2. CASE transcript # NoFile
      BY <1>s, <2>1, <2>6, <3>2 DEF OpenTranscript, Told
    <3>3. QED
      BY <3>1, <3>2
  <2>7. CASE WriteLine(p)
    <3>1. proc[p].file = transcript /\ transcript \in 1 .. MaxFile /\ transcript # NoFile /\ proc[p].line \in Nat
      BY <2>1, <2>7, SharedAssumption DEF WriteLine, WriterIsCurrent, SharedTypes, ProcState, NoFile
    <3>2. /\ Elsewhere \subseteq Elsewhere' /\ transcript' = transcript
          /\ stored' = stored \cup {proc[p].line}
      BY <1>e, <2>7 DEF WriteLine
    <3>3. CASE transcript \in torn
      <4>1. content' = content /\ proc[p].line \in Elsewhere'
        BY <2>7, <3>1, <3>3 DEF WriteLine, Elsewhere
      <4>2. TranscriptLines' = TranscriptLines
        BY <3>2, <4>1 DEF TranscriptLines
      <4>3. QED
        BY <2>2, <3>2, <4>1, <4>2
    <3>4. CASE transcript \notin torn
      <4>1. content' = [content EXCEPT ![transcript] = Append(content[transcript], proc[p].line)]
        BY <2>7, <3>1, <3>4 DEF WriteLine
      <4>2. content'[transcript] = Append(content[transcript], proc[p].line)
        BY <1>t, <3>1, <4>1
      <4>3. TranscriptLines' = Append(TranscriptLines, proc[p].line)
        BY <3>1, <3>2, <4>2 DEF TranscriptLines
      <4>4. ToSet(TranscriptLines) \cup {proc[p].line} \subseteq ToSet(TranscriptLines')
        BY <3>1, <4>3, AppendedLine, TranscriptShape
      <4>5. QED
        BY <2>2, <3>2, <4>4
    <3>5. QED
      BY <3>3, <3>4
  <2>8. CASE RenameTemp(p)
    <3>1. Compacting(p) /\ proc[p].at = "rename"
      BY <2>8 DEF RenameTemp, Compacting, SharedTypes
    <3> DEFINE x == proc[p].lines
               d == Len(x) - KeepLines
    <3>2. /\ \A k \in stored : k \in ToSet(x) \/ k \in Elsewhere
          /\ \A i \in 1 .. d : x[i] \in archived
          /\ \A i \in d + 1 .. Len(x) : x[i] \in ToSet(content[temp])
          /\ temp # NoFile
      BY <2>1, <3>1 DEF CompactionsHaveAll, CompactionHasAll
    <3>3. /\ transcript' = temp /\ UNCHANGED <<content, stored>>
          /\ archived \subseteq Elsewhere' /\ Elsewhere \subseteq Elsewhere'
      BY <1>e, <2>8, <3>2 DEF RenameTemp, Told, Elsewhere
    <3>4. TranscriptLines' = content[temp]
      BY <3>2, <3>3 DEF TranscriptLines
    <3>5. d \in Int /\ Len(x) \in Nat
      BY SharedAssumption DEF SharedTypes, ProcState
    <3> HIDE DEF d
    <3>6. \A i \in 1 .. Len(x) : i \in 1 .. d \/ i \in d + 1 .. Len(x)
      BY <3>5
    <3>7. \A k \in ToSet(x) : k \in archived \/ k \in ToSet(content[temp])
      <4> TAKE k \in ToSet(x)
      <4>1. PICK i \in 1 .. Len(x) : k = x[i]
        BY <3>5 DEF ToSet, SharedTypes, ProcState
      <4>2. CASE i \in 1 .. d
        BY <3>2, <4>1, <4>2
      <4>3. CASE i \in d + 1 .. Len(x)
        BY <3>2, <4>1, <4>3
      <4>4. QED
        BY <3>6, <4>2, <4>3
    <3>8. QED
      BY <3>2, <3>3, <3>4, <3>7
  <2>9. CASE ArchiveSession(p)
    <3>1. ToSet(TranscriptLines) \subseteq latest'
      BY <2>9 DEF ArchiveSession, TranscriptLines, ToSet
    <3>2. QED
      BY <1>e, <2>2, <2>9, <3>1 DEF ArchiveSession, Elsewhere
  <2>10. CASE ~OpenTemp(p) /\ ~WriteTemp(p) /\ ~WriteCompactionArchive(p) /\ ~OpenTranscript(p) /\ ~WriteLine(p)
              /\ ~RenameTemp(p) /\ ~ArchiveSession(p)
    <3>1. UNCHANGED <<content, transcript, stored>>
      BY <1>1, <2>10 DEF SharedStep, Files, Told, BeginAppend, BeginArchiveSession, LoadForCompaction, Link,
         LockFileIsStale, RemoveStale, Unlock, ShortWrite, Crash
    <3>2. QED
      BY <1>s, <2>1, <3>1
  <2>11. QED
    BY <2>3, <2>4, <2>5, <2>6, <2>7, <2>8, <2>9, <2>10
<1>2. CASE LockAges \/ SecondPasses \/ UNCHANGED sharedVars
  <2>1. UNCHANGED <<content, transcript, stored, robbed, crossed>>
    BY <1>2 DEF LockAges, SecondPasses, sharedVars, Files, Told
  <2>2. QED
    BY <1>s, <2>1
<1>3. QED
  BY <1>1, <1>2 DEF SharedNext

\* At the start nobody is inside and no line is stored.
LEMMA SharedStart == SharedInit => SharedIInv
<1> SUFFICES ASSUME SharedInit PROVE SharedIInv
  OBVIOUS
<1>1. \A p \in Process : proc[p] = Idle
  BY DEF SharedInit
<1>2. SharedTypes
  <2>1. proc \in [Process -> ProcState]
    BY IdleProcess DEF SharedInit
  <2>2. <<>> \in Seq(Nat)
    OBVIOUS
  <2>3. content \in [1 .. MaxFile -> Seq(Nat)]
    BY <2>2 DEF SharedInit
  <2>4. /\ files \in 1 .. MaxFile /\ transcript \in 0 .. files /\ temp \in 0 .. files
        /\ temp # NoFile => temp # transcript
    BY SharedAssumption DEF SharedInit, NoFile
  <2>5. issued \in Nat
    BY DEF SharedInit
  <2>6. QED
    BY <1>1, <2>1, <2>3, <2>4, <2>5, IdleProcess DEF SharedTypes
<1>3. LockIsHeld /\ WriterIsCurrent /\ OneCompaction /\ CompactionsHaveAll
  BY <1>1, IdleProcess DEF LockIsHeld, WriterIsCurrent, OneCompaction, CompactionsHaveAll, Inside, Compacting
<1>4. LinesAreKept
  BY DEF SharedInit, LinesAreKept
<1>5. QED
  BY <1>2, <1>3, <1>4 DEF SharedIInv

\* Two processes on the files of one session, each stopped, crashed or cut
\* short between any two system calls (lock.go, store.go, compaction.go): as
\* long as no lock was taken from a process inside it and no two compactions
\* overlapped, at most one is inside and a line whose append returned no error
\* is in the transcript or the archive, or met one of the three gaps the code
\* leaves open: half a line before it, a compaction of the other process around
\* it, or a second archive of the same second over it.
THEOREM LinesSurvive == SharedSpec => []LinesOutliveProcesses
<1>1. SharedIInv /\ [SharedNext]_sharedVars => SharedIInv'
  BY SharedTypesStep, LockStep, WriterStep, OneCompactionStep, CompactionsStep, KeptStep DEF SharedIInv
<1>2. SharedIInv => LinesOutliveProcesses
  BY DEF SharedIInv, LockIsHeld, LinesAreKept, LinesOutliveProcesses, Elsewhere
<1>3. QED
  BY SharedStart, <1>1, <1>2, PTL DEF SharedSpec

(***************************************************************************)
(* ContextWindow: the size of a transcript, and the prompts that fit.      *)
(***************************************************************************)

\* g gives the size of the first i lines of h, up to n.
AddsUp(g, h, n) ==
    /\ g \in [0 .. n -> Nat] /\ g[0] = 0
    /\ \A i \in 1 .. n : g[i] = g[i - 1] + h[i]

\* There is such a g.
LEMMA SumsExist ==
  ASSUME NEW h \in Seq(Nat), NEW n \in 0 .. Len(h)
  PROVE  \E g : AddsUp(g, h, n)
<1> DEFINE T == {m \in 0 .. Len(h) : \E g : AddsUp(g, h, m)}
<1>1. 0 \in T
  <2> DEFINE g == [i \in 0 .. 0 |-> 0]
  <2>1. AddsUp(g, h, 0)
    BY DEF AddsUp
  <2> HIDE DEF g
  <2>2. QED
    BY <2>1
<1>2. ASSUME NEW m \in 1 .. Len(h), m - 1 \in T PROVE m \in T
  <2> DEFINE k == m - 1
  <2>1. k \in Nat /\ m \in Nat /\ m = k + 1 /\ m \in 0 .. Len(h) /\ h[m] \in Nat
    OBVIOUS
  <2>2. PICK g : AddsUp(g, h, k)
    BY <1>2
  <2> HIDE DEF k
  <2> DEFINE e == [i \in 0 .. m |-> IF i = m THEN g[k] + h[m] ELSE g[i]]
  <2>3. e \in [0 .. m -> Nat] /\ e[0] = 0
    BY <2>1, <2>2 DEF AddsUp
  <2>4. ASSUME NEW i \in 1 .. m PROVE e[i] = e[i - 1] + h[i]
    <3>1. CASE i = m
      BY <2>1, <3>1
    <3>2. CASE i # m
      <4>1. i \in 1 .. k /\ i - 1 \in 0 .. k /\ i - 1 # m /\ i - 1 \in 0 .. m /\ i \in 0 .. m
        BY <2>1, <3>2
      <4>2. g[i] = g[i - 1] + h[i]
        BY <2>2, <4>1 DEF AddsUp
      <4>3. QED
        BY <3>2, <4>1, <4>2
    <3>3. QED
      BY <3>1, <3>2
  <2>5. AddsUp(e, h, m)
    BY <2>3, <2>4 DEF AddsUp
  <2> HIDE DEF e
  <2>6. QED
    BY <2>1, <2>5
<1>3. Len(h) \in Nat
  OBVIOUS
<1> HIDE DEF T
<1>4. 0 .. Len(h) \subseteq T
  BY <1>1, <1>2, <1>3, UpTo
<1>5. QED
  BY <1>4 DEF T

\* Sums is such a g.
LEMMA SumsAddUp ==
  ASSUME NEW h \in Seq(Nat)
  PROVE  AddsUp(Sums(h), h, Len(h)) /\ TotalSize(h) \in Nat
<1>1. Len(h) \in 0 .. Len(h) /\ Len(h) \in Nat
  OBVIOUS
<1>2. PICK g : AddsUp(g, h, Len(h))
  BY <1>1, SumsExist
<1> DEFINE Is(f) == f = [i \in 0 .. Len(h) |-> IF i = 0 THEN 0 ELSE f[i - 1] + h[i]]
<1>3. Is(g)
  <2>1. \A i \in 0 .. Len(h) : i = 0 \/ i \in 1 .. Len(h)
    BY <1>1
  <2>2. \A i \in 0 .. Len(h) : g[i] = IF i = 0 THEN 0 ELSE g[i - 1] + h[i]
    BY <1>2, <2>1 DEF AddsUp
  <2>3. QED
    BY <1>2, <2>2 DEF AddsUp
<1>4. Sums(h) = CHOOSE f : Is(f)
  BY DEF Sums
<1>5. Is(Sums(h))
  BY <1>3, <1>4
<1> DEFINE s == Sums(h)
<1>6. s = [i \in 0 .. Len(h) |-> IF i = 0 THEN 0 ELSE s[i - 1] + h[i]]
  BY <1>5
<1> HIDE DEF s, Is
<1>7. s[0] = 0 /\ \A i \in 1 .. Len(h) : s[i] = s[i - 1] + h[i]
  BY <1>1, <1>6
<1> DEFINE T == {i \in 0 .. Len(h) : s[i] \in Nat}
<1>8. 0 \in T
  BY <1>1, <1>7
<1>9. ASSUME NEW i \in 1 .. Len(h), i - 1 \in T PROVE i \in T
  BY <1>1, <1>7, <1>9
<1> HIDE DEF T
<1>10. 0 .. Len(h) \subseteq T
  BY <1>1, <1>8, <1>9, UpTo
<1>11. \A i \in 0 .. Len(h) : s[i] \in Nat
  BY <1>10 DEF T
<1>12. s \in [0 .. Len(h) -> Nat]
  BY <1>6, <1>11
<1>13. QED
  BY <1>1, <1>7, <1>11, <1>12 DEF AddsUp, TotalSize, s

\* Sequences with the same beginning add up to the same there.
LEMMA SameBeginning ==
  ASSUME NEW h \in Seq(Nat), NEW k \in Seq(Nat), Len(h) <= Len(k), \A i \in 1 .. Len(h) : k[i] = h[i]
  PROVE  Sums(k)[Len(h)] = TotalSize(h)
<1> DEFINE T == {i \in 0 .. Len(h) : Sums(k)[i] = Sums(h)[i]}
<1>1. AddsUp(Sums(h), h, Len(h)) /\ AddsUp(Sums(k), k, Len(k)) /\ Len(h) \in Nat /\ Len(k) \in Nat
  BY SumsAddUp
<1>2. 0 \in T
  BY <1>1 DEF AddsUp
<1>3. ASSUME NEW i \in 1 .. Len(h), i - 1 \in T PROVE i \in T
  <2>1. i \in 1 .. Len(k) /\ i \in 0 .. Len(h)
    BY <1>1
  <2>2. Sums(k)[i] = Sums(k)[i - 1] + k[i] /\ Sums(h)[i] = Sums(h)[i - 1] + h[i]
    BY <1>1, <2>1 DEF AddsUp
  <2>3. QED
    BY <1>3, <2>1, <2>2
<1> HIDE DEF T
<1>4. 0 .. Len(h) \subseteq T
  BY <1>1, <1>2, <1>3, UpTo
<1>5. QED
  BY <1>1, <1>4 DEF T, TotalSize

\* A line more adds its size.
LEMMA AppendedSize ==
  ASSUME NEW h \in Seq(Nat), NEW x \in Nat
  PROVE  /\ h \o <<x>> \in Seq(Nat) /\ h \o <<x>> # <<>> /\ Last(h \o <<x>>) = x
         /\ TotalSize(h \o <<x>>) = TotalSize(h) + x
<1> DEFINE k == h \o <<x>>
<1>1. k \in Seq(Nat) /\ Len(k) = Len(h) + 1 /\ k[Len(h) + 1] = x /\ Len(h) \in Nat
  OBVIOUS
<1>2. \A i \in 1 .. Len(h) : k[i] = h[i]
  OBVIOUS
<1> HIDE DEF k
<1>3. Sums(k)[Len(h)] = TotalSize(h)
  BY <1>1, <1>2, SameBeginning
<1>4. Len(k) \in 1 .. Len(k) /\ Len(k) - 1 = Len(h)
  BY <1>1
<1>5. Sums(k)[Len(k)] = Sums(k)[Len(k) - 1] + k[Len(k)]
  BY <1>1, <1>4, SumsAddUp DEF AddsUp
<1>6. TotalSize(k) = TotalSize(h) + x
  BY <1>1, <1>3, <1>4, <1>5 DEF TotalSize
<1>7. k # <<>> /\ Last(k) = x
  BY <1>1 DEF Last
<1>8. QED
  BY <1>1, <1>6, <1>7 DEF k

\* The last lines of a transcript are at most as large as all of them.
LEMMA CompactedSize ==
  ASSUME NEW h \in Seq(Nat), NEW keep \in Nat \ {0}
  PROVE  /\ Compacted(h, keep) \in Seq(Nat) /\ TotalSize(Compacted(h, keep)) <= TotalSize(h)
         /\ Compacted(h, keep) = <<>> \/ (h # <<>> /\ Last(Compacted(h, keep)) = Last(h))
<1>1. CASE ~(Len(h) > keep)
  <2>1. Compacted(h, keep) = h
    BY <1>1 DEF Compacted
  <2>2. TotalSize(h) \in Nat
    BY SumsAddUp
  <2>3. QED
    BY <2>1, <2>2
<1>2. CASE Len(h) > keep
  <2> DEFINE d == Len(h) - keep
             a == d + 1
             b == Len(h)
             k == SubSeq(h, a, b)
  <2>1. d \in Nat /\ a \in Nat /\ b \in Nat /\ 1 <= a /\ b <= Len(h) /\ a = d + 1 /\ b = d + keep /\ a \in 1 .. Len(h)
        /\ b - a + 1 = keep /\ b = Len(h) /\ keep \in Nat
    BY <1>2
  <2>2. Compacted(h, keep) = k
    BY <1>2 DEF Compacted
  <2> HIDE DEF d, a, b
  <2>3. k \in Seq(Nat) /\ Len(k) = b - a + 1
    BY <2>1
  <2>4. ASSUME NEW i \in 1 .. keep PROVE k[i] = h[a + i - 1]
    <3>1. i \in 1 .. (b - a + 1)
      BY <2>1
    <3>2. QED
      BY <2>1, <3>1, PartAt
  <2>5. \A i \in 1 .. keep : a + i - 1 = d + i
    BY <2>1
  <2>6. Len(k) = keep /\ \A i \in 1 .. keep : k[i] = h[d + i]
    BY <2>1, <2>3, <2>4, <2>5
  <2> HIDE DEF k
  <2> DEFINE T == {i \in 0 .. keep : Sums(h)[d + i] = Sums(h)[d] + Sums(k)[i]}
  <2>7. AddsUp(Sums(h), h, Len(h)) /\ AddsUp(Sums(k), k, keep)
    BY <2>3, <2>6, SumsAddUp
  <2>8. Sums(h)[d] \in Nat /\ d \in 0 .. Len(h)
    <3>1. d \in 0 .. Len(h)
      BY <2>1
    <3>2. QED
      BY <2>7, <3>1 DEF AddsUp
  <2>9. 0 \in T
    <3>1. d + 0 = d /\ Sums(k)[0] = 0
      BY <2>1, <2>7 DEF AddsUp
    <3>2. QED
      BY <2>1, <2>8, <3>1
  <2>10. ASSUME NEW i \in 1 .. keep, i - 1 \in T PROVE i \in T
    <3>1. d + i \in 1 .. Len(h) /\ (d + i) - 1 = d + (i - 1) /\ i \in 0 .. keep /\ i - 1 \in 0 .. keep
      BY <2>1
    <3>2. Sums(h)[d + i] = Sums(h)[d + (i - 1)] + h[d + i]
      BY <2>7, <3>1 DEF AddsUp
    <3>3. Sums(k)[i] = Sums(k)[i - 1] + k[i] /\ Sums(k)[i - 1] \in Nat
      BY <2>7, <3>1 DEF AddsUp
    <3>4. k[i] = h[d + i] /\ h[d + i] \in Nat
      BY <2>6, <3>1
    <3>5. QED
      BY <2>8, <2>10, <3>1, <3>2, <3>3, <3>4, SMTT(40)
  <2> HIDE DEF T
  <2>11. 0 .. keep \subseteq T
    BY <2>1, <2>9, <2>10, UpTo
  <2>12. TotalSize(h) = Sums(h)[d] + TotalSize(k)
    <3>1. keep \in 0 .. keep /\ d + keep = Len(h)
      BY <2>1
    <3>2. Sums(h)[d + keep] = Sums(h)[d] + Sums(k)[keep]
      BY <2>11, <3>1 DEF T
    <3>3. QED
      BY <2>6, <3>1, <3>2 DEF TotalSize
  <2>13. TotalSize(k) \in Nat
    BY <2>3, SumsAddUp
  <2>14. TotalSize(k) <= TotalSize(h)
    BY <2>8, <2>12, <2>13
  <2>15. h # <<>> /\ Last(k) = Last(h)
    BY <2>1, <2>6 DEF Last
  <2>16. QED
    BY <2>2, <2>3, <2>14, <2>15
<1>3. QED
  BY <1>1, <1>2

WindowSpec == WindowInit /\ [][WindowNext]_windowVars

WindowTypes ==
    /\ window \in Nat /\ history \in Seq(Nat) /\ fill \in Nat /\ asking \in Nat /\ prompt \in Nat
    /\ counted \in Nat /\ base \in Nat

\* The prompt of a turn begins with its first prompt and only grows.
PromptsGrow == asking # 0 => prompt >= FirstPrompt(base, history, asking)

\* What the tracker knows counts for all of the transcript but its last line.
Known == current /\ reports /\ window # 0
FillCountsHistory ==
    Known => history = <<>> \/ counted + TotalSize(history) <= fill + Last(history)

\* A turn that compacted nothing found the window below the threshold.
NotDueIsBelow == (asking # 0 /\ ~due) => window = 0 \/ fill <= threshold

WindowIInv == WindowTypes /\ PromptsGrow /\ FillCountsHistory /\ NotDueIsBelow

\* Shapes of what the prompts are made of.
LEMMA PromptShape ==
  ASSUME NEW b \in Nat, NEW h \in Seq(Nat), NEW m \in Nat
  PROVE  FirstPrompt(b, h, m) = b + TotalSize(h) + m /\ FirstPrompt(b, h, m) \in Nat /\ TotalSize(h) \in Nat
BY SumsAddUp DEF FirstPrompt

\* The window is a number.
LEMMA WindowsAreNumbers == Windows \subseteq Nat
BY WindowAssumption DEF Windows, ContextWindowMax, ProbeModelCapabilities, ModelObjectToCapabilities

\* At the start the transcript is empty.
LEMMA WindowStart == WindowInit => WindowIInv
<1> SUFFICES ASSUME WindowInit PROVE WindowIInv
  OBVIOUS
<1>1. <<>> \in Seq(Nat)
  OBVIOUS
<1>2. WindowTypes
  BY <1>1, WindowsAreNumbers DEF WindowInit, WindowTypes
<1>3. QED
  BY <1>2 DEF WindowInit, WindowIInv, PromptsGrow, FillCountsHistory, NotDueIsBelow

\* Compaction leaves what the tracker knows.
LEMMA CompactionStaysCounted ==
  ASSUME NEW h \in Seq(Nat), NEW keep \in Nat \ {0}, NEW f \in Nat, NEW b \in Nat,
         h = <<>> \/ b + TotalSize(h) <= f + Last(h)
  PROVE  LET k == Compacted(h, keep) IN k = <<>> \/ b + TotalSize(k) <= f + Last(k)
<1> DEFINE k == Compacted(h, keep)
<1>1. /\ k \in Seq(Nat) /\ TotalSize(k) <= TotalSize(h)
      /\ k = <<>> \/ (h # <<>> /\ Last(k) = Last(h))
  BY CompactedSize
<1>2. TotalSize(k) \in Nat /\ TotalSize(h) \in Nat
  BY <1>1, SumsAddUp
<1> HIDE DEF k
<1>3. CASE k # <<>>
  <2>1. h # <<>> /\ Last(k) = Last(h) /\ Last(h) \in Nat
    BY <1>1, <1>3 DEF Last
  <2>2. b + TotalSize(k) <= f + Last(k)
    BY <1>1, <1>2, <2>1
  <2>3. QED
    BY <2>2 DEF k
<1>4. QED
  BY <1>3 DEF k

\* Every step keeps the invariant.
LEMMA WindowStep == WindowIInv /\ [WindowNext]_windowVars => WindowIInv'
<1> SUFFICES ASSUME WindowIInv, [WindowNext]_windowVars PROVE WindowIInv'
  OBVIOUS
<1>t. /\ window \in Nat /\ history \in Seq(Nat) /\ fill \in Nat /\ asking \in Nat /\ prompt \in Nat
      /\ counted \in Nat /\ base \in Nat /\ Bases \subseteq Nat /\ <<>> \in Seq(Nat) /\ CompactKeep \in Nat \ {0} /\ CommandKeep \in Nat \ {0}
      /\ Size \subseteq Nat \ {0}
  BY WindowAssumption DEF WindowIInv, WindowTypes
<1>1. ASSUME NEW m \in Size, BeginTurn(m) PROVE WindowIInv'
  <2>1. /\ asking' = m /\ m \in Nat /\ prompt' = FirstPrompt(base', history', m) /\ base' \in Nat
        /\ UNCHANGED <<window, reports, fill, counted, current>> /\ due' = Due
        /\ history' \in {history, Compacted(history, CompactKeep)}
    BY <1>1, <1>t DEF BeginTurn
  <2>2. history' \in Seq(Nat)
    BY <1>t, <2>1, CompactedSize
  <2>3. prompt' \in Nat
    BY <2>1, <2>2, PromptShape
  <2>4. PromptsGrow'
    <3>1. prompt' = FirstPrompt(base', history', asking')
      BY <2>1
    <3>2. QED
      BY <2>3, <3>1 DEF PromptsGrow, FirstPrompt, TotalSize, Sums
  <2>5. FillCountsHistory'
    <3>1. SUFFICES ASSUME Known PROVE history' = <<>> \/ counted + TotalSize(history') <= fill + Last(history')
      BY <2>1 DEF FillCountsHistory, Known, TotalSize, Sums, Last
    <3>2. history = <<>> \/ counted + TotalSize(history) <= fill + Last(history)
      BY <3>1 DEF WindowIInv, FillCountsHistory
    <3>3. CASE history' = history
      BY <3>2, <3>3
    <3>4. CASE history' = Compacted(history, CompactKeep)
      BY <1>t, <3>2, <3>4, CompactionStaysCounted
    <3>5. QED
      BY <2>1, <3>3, <3>4
  <2>6. NotDueIsBelow'
    <3>1. ~due' => window = 0 \/ fill <= threshold
      <4>1. ~Due => window = 0 \/ ~(fill > threshold)
        BY DEF Due
      <4>2. threshold \in Nat
        BY <1>t, WindowAssumption DEF threshold
      <4>3. QED
        BY <1>t, <2>1, <4>1, <4>2
    <3>2. QED
      BY <2>1, <3>1 DEF NotDueIsBelow, threshold
  <2>7. QED
    BY <1>t, <2>1, <2>2, <2>3, <2>4, <2>5, <2>6 DEF WindowIInv, WindowTypes
<1>2. ASSUME NEW r \in Size, ToolStep(r) PROVE WindowIInv'
  <2>1. prompt' = prompt + r /\ r \in Nat
        /\ UNCHANGED <<window, reports, history, fill, counted, asking, base, due, current>>
    BY <1>2, <1>t DEF ToolStep
  <2>2. PromptsGrow'
    <3>1. asking # 0 => prompt' >= FirstPrompt(base, history, asking)
      <4>1. FirstPrompt(base, history, asking) \in Nat
        BY <1>t, PromptShape
      <4>2. asking # 0 => prompt >= FirstPrompt(base, history, asking)
        BY DEF WindowIInv, PromptsGrow
      <4>3. QED
        BY <1>t, <2>1, <4>1, <4>2
    <3>2. QED
      BY <2>1, <3>1 DEF PromptsGrow, FirstPrompt, TotalSize, Sums
  <2>3. QED
    BY <1>t, <2>1, <2>2 DEF WindowIInv, WindowTypes, FillCountsHistory, Known, NotDueIsBelow, threshold,
       TotalSize, Sums, Last
<1>3. CASE RetryTurn
  <2>1. /\ prompt' = FirstPrompt(base', history, asking) /\ prompt' \in Nat /\ base' \in Nat
        /\ UNCHANGED <<window, reports, history, fill, counted, asking, due, current>>
    BY <1>3, <1>t, PromptShape DEF RetryTurn
  <2>2. PromptsGrow'
    <3>1. prompt' >= FirstPrompt(base', history, asking)
      BY <2>1
    <3>2. QED
      BY <2>1, <3>1 DEF PromptsGrow, FirstPrompt, TotalSize, Sums
  <2>3. QED
    BY <1>t, <2>1, <2>2 DEF WindowIInv, WindowTypes, FillCountsHistory, Known, NotDueIsBelow, threshold,
       TotalSize, Sums, Last
<1>4. ASSUME asking' = 0, base' = 0, prompt' = 0, history' \in Seq(Nat), fill' \in Nat, window' \in Nat,
             counted' \in Nat,
             Known' => history' = <<>> \/ counted' + TotalSize(history') <= fill' + Last(history')
      PROVE  WindowIInv'
  <2>1. FillCountsHistory'
    BY <1>4 DEF FillCountsHistory, TotalSize, Sums, Last
  <2>2. QED
    BY <1>4, <2>1 DEF WindowIInv, WindowTypes, PromptsGrow, NotDueIsBelow
<1>5. ASSUME NEW a \in Size, RecordAnswer(a) PROVE WindowIInv'
  <2>1. /\ asking # 0 /\ fill' = Recorded(prompt) /\ asking' = 0 /\ base' = 0 /\ prompt' = 0
        /\ counted' = (IF reports /\ window # 0 THEN base ELSE counted) /\ counted' \in Nat
        /\ current' = (current \/ (reports /\ window # 0)) /\ UNCHANGED <<window, reports>>
        /\ a \in Nat /\ fill' \in Nat
    BY <1>5, <1>t DEF RecordAnswer, Between, Recorded
  <2>2. PICK said \in {<<>>, <<asking>>}, got \in {<<>>, <<a>>} : history' = history \o said \o got
    BY <1>5 DEF RecordAnswer
  <2>3. prompt >= base + TotalSize(history) + asking /\ TotalSize(history) \in Nat
    BY <1>t, <2>1, PromptShape DEF WindowIInv, PromptsGrow
  <2>4. ASSUME reports, window # 0 PROVE fill' = prompt /\ counted' = base
    BY <2>1, <2>4 DEF Recorded
  <2> DEFINE h == history \o said
  <2>5. h \in Seq(Nat) /\ TotalSize(h) \in Nat /\ TotalSize(h) <= TotalSize(history) + asking
        /\ (h # <<>> => Last(h) \in Nat)
    <3>1. CASE said = <<>>
      <4>1. h = history
        BY <1>t, <3>1
      <4>2. history # <<>> => Last(history) \in Nat
        BY <1>t DEF Last
      <4>3. QED
        BY <1>t, <2>3, <4>1, <4>2
    <3>2. CASE said = <<asking>>
      BY <1>t, <2>3, <3>2, AppendedSize
    <3>3. QED
      BY <2>2, <3>1, <3>2
  <2> HIDE DEF h
  <2>6. /\ history' \in Seq(Nat)
        /\ history' = <<>> \/ base + TotalSize(history') <= prompt + Last(history')
    <3>1. CASE got = <<>>
      <4>1. history' = h
        BY <1>t, <2>2, <2>5, <3>1 DEF h
      <4>2. h # <<>> => base + TotalSize(h) <= prompt + Last(h)
        BY <1>t, <2>3, <2>5
      <4>3. QED
        BY <2>5, <4>1, <4>2
    <3>2. CASE got = <<a>>
      <4>1. history' = h \o <<a>>
        BY <2>2, <3>2 DEF h
      <4>2. history' \in Seq(Nat) /\ Last(history') = a /\ TotalSize(history') = TotalSize(h) + a
        BY <2>1, <2>5, <4>1, AppendedSize
      <4>3. QED
        BY <1>t, <2>1, <2>3, <2>5, <4>2, SMTT(40)
    <3>3. QED
      BY <2>2, <3>1, <3>2
  <2>7. Known' => history' = <<>> \/ counted' + TotalSize(history') <= fill' + Last(history')
    <3>1. Known' => reports /\ window # 0
      BY <2>1 DEF Known
    <3>2. QED
      BY <2>4, <2>6, <3>1
  <2>8. QED
    BY <1>4, <1>t, <2>1, <2>6, <2>7
<1>6. CASE GiveUpTurn
  <2>1. asking' = 0 /\ base' = 0 /\ prompt' = 0 /\ UNCHANGED <<window, reports, history, fill, counted, current>>
    BY <1>6 DEF GiveUpTurn, Between
  <2>2. Known' => history = <<>> \/ counted + TotalSize(history) <= fill + Last(history)
    BY <2>1 DEF Known, WindowIInv, FillCountsHistory
  <2>3. QED
    BY <1>4, <1>t, <2>1, <2>2
<1>7. ASSUME asking = 0, asking' = 0, base' = base, counted' \in Nat, prompt' = prompt, history' \in Seq(Nat), fill' \in Nat, window' \in Nat,
             Known' => history' = <<>> \/ counted' + TotalSize(history') <= fill' + Last(history')
      PROVE  WindowIInv'
  <2>1. FillCountsHistory'
    BY <1>7 DEF FillCountsHistory, TotalSize, Sums, Last
  <2>2. QED
    BY <1>7, <1>t, <2>1 DEF WindowIInv, WindowTypes, PromptsGrow, NotDueIsBelow
<1>8. CASE CmdNew
  <2>1. PICK archives \in BOOLEAN, creates \in BOOLEAN :
           /\ history' = IF archives THEN <<>> ELSE history
           /\ fill' = IF creates THEN 0 ELSE fill
           /\ counted' = IF creates THEN 0 ELSE counted
           /\ current' = (history' = <<>> \/ (current /\ ~creates))
    BY <1>8 DEF CmdNew
  <2>2. asking = 0 /\ UNCHANGED <<window, reports, asking, base, prompt, due>>
    BY <1>8 DEF CmdNew
  <2>3. history' \in Seq(Nat) /\ fill' \in Nat /\ counted' \in Nat
    BY <1>t, <2>1
  <2>4. ASSUME Known', history' # <<>>
        PROVE  counted' + TotalSize(history') <= fill' + Last(history')
    <3>1. current /\ ~creates /\ reports /\ window # 0 /\ history' = history
      BY <2>1, <2>2, <2>4 DEF Known
    <3>2. fill' = fill /\ counted' = counted
      BY <2>1, <3>1
    <3>3. counted + TotalSize(history) <= fill + Last(history)
      BY <2>4, <3>1 DEF Known, WindowIInv, FillCountsHistory
    <3>4. QED
      BY <3>1, <3>2, <3>3
  <2>5. QED
    BY <1>7, <1>t, <2>2, <2>3, <2>4
<1>9. CASE CmdCompact
  <2>1. /\ asking = 0 /\ history' = Compacted(history, CommandKeep)
        /\ UNCHANGED <<window, reports, fill, counted, asking, base, prompt, due, current>>
    BY <1>9 DEF CmdCompact
  <2>2. history' \in Seq(Nat)
    BY <1>t, <2>1, CompactedSize
  <2>3. ASSUME Known' PROVE history' = <<>> \/ counted' + TotalSize(history') <= fill' + Last(history')
    <3>1. history = <<>> \/ counted + TotalSize(history) <= fill + Last(history)
      BY <2>1, <2>3 DEF Known, WindowIInv, FillCountsHistory
    <3>2. QED
      BY <1>t, <2>1, <3>1, CompactionStaysCounted
  <2>4. QED
    BY <1>7, <1>t, <2>1, <2>2, <2>3
<1>10. CASE RestartAgent
  <2>1. /\ fill' = 0 /\ counted' = 0 /\ ~current' /\ window' \in Windows /\ asking' = 0 /\ base' = 0 /\ prompt' = 0
        /\ history' = history
    BY <1>10 DEF RestartAgent, Between
  <2>2. QED
    BY <1>4, <1>t, <2>1, WindowsAreNumbers DEF Known
<1>11. CASE UNCHANGED windowVars
  BY <1>11 DEF windowVars, WindowIInv, WindowTypes, PromptsGrow, FillCountsHistory, Known, NotDueIsBelow,
     threshold, FirstPrompt, TotalSize, Sums, Last
<1>12. QED
  BY <1>1, <1>2, <1>3, <1>5, <1>6, <1>8, <1>9, <1>10, <1>11 DEF WindowNext

\* The first prompt of a turn fits the window (handleMessage step 2.5), for
\* every window, threshold and sizes of messages and of system prompts, with
\* the exceptions that PromptsFitTheWindow lists.
THEOREM FirstPromptFits == WindowSpec => []PromptsFitTheWindow
<1>1. WindowIInv => PromptsFitTheWindow
  <2> SUFFICES ASSUME WindowIInv, asking # 0, ~due, window # 0, ~(window > WindowMax), reports, current,
                      ~(base + asking > WindowMax)
               PROVE  \/ FirstPrompt(base, history, asking) <= WindowMax
                      \/ history # <<>> /\ Last(history) + asking + base > (WindowMax - threshold) + counted
    BY DEF PromptsFitTheWindow
  <2>1. /\ window \in Nat /\ history \in Seq(Nat) /\ fill \in Nat /\ asking \in Nat /\ base \in Nat /\ counted \in Nat
        /\ WindowMax \in Nat /\ threshold \in Nat
    BY WindowAssumption DEF WindowIInv, WindowTypes, threshold
  <2>2. fill <= threshold
    BY DEF WindowIInv, NotDueIsBelow
  <2>3. FirstPrompt(base, history, asking) = base + TotalSize(history) + asking /\ TotalSize(history) \in Nat
    BY <2>1, PromptShape
  <2>4. CASE history = <<>>
    <3>1. TotalSize(<<>>) = 0
      <4>1. <<>> \in Seq(Nat) /\ Len(<<>>) = 0
        OBVIOUS
      <4>2. AddsUp(Sums(<<>>), <<>>, Len(<<>>))
        BY <4>1, SumsAddUp
      <4>3. QED
        BY <4>1, <4>2 DEF AddsUp, TotalSize
    <3>2. QED
      BY <2>1, <2>3, <2>4, <3>1
  <2>5. CASE history # <<>>
    <3>1. counted + TotalSize(history) <= fill + Last(history) /\ Last(history) \in Nat
      BY <2>1, <2>5 DEF WindowIInv, FillCountsHistory, Known, Last
    <3>2. QED
      BY <2>1, <2>2, <2>3, <2>5, <3>1
  <2>6. QED
    BY <2>4, <2>5
<1>2. QED
  BY WindowStart, WindowStep, <1>1, PTL DEF WindowSpec
================================================================================
