----------------------------- MODULE RateLimiter -----------------------------
(***************************************************************************)
(* The sliding-window limiter of registrations                             *)
(* (internal/ratelimit/limiter.go).  An event is kept as its age in ticks, *)
(* oldest first, so time needs no bound; ages stop at Window + 1, which is *)
(* already outside the window.  Events are pruned when the limiter is      *)
(* asked, not when they expire.                                            *)
(***************************************************************************)
EXTENDS Naturals, Sequences, SequencesExt

CONSTANTS LimitKey,   \* token prefixes
          Window,     \* the window, in ticks
          MaxEvents   \* registrations allowed in a window

ASSUME LimiterAssumption == Window \in Nat /\ MaxEvents \in Nat \ {0}

VARIABLES windows,    \* key -> ages of the recorded events, oldest first
          allowedAges \* history: key -> ages of the last MaxEvents + 1 allowed events

limiterVars == <<windows, allowedAges>>

LimiterInit ==
    /\ windows = [k \in LimitKey |-> <<>>]
    /\ allowedAges = [k \in LimitKey |-> <<>>]

FromFirst(ages, live) == IF live = {} THEN <<>> ELSE SubSeq(ages, Min(live), Len(ages))
\* Mutant: the window is half open.
PruneOnTime(ages) == FromFirst(ages, {i \in DOMAIN ages : ages[i] < Window})
\* Mutant: nothing is ever pruned.
PruneNothing(ages) == ages
\* prune drops events up to the first that is not older than the cutoff (Before).
Prune(ages) == FromFirst(ages, {i \in DOMAIN ages : ages[i] <= Window})

HasRoom(k) == Len(Prune(windows[k])) < MaxEvents

Allow(k) ==
    /\ HasRoom(k)
    /\ windows' = [windows EXCEPT ![k] = Append(Prune(@), 0)]
    /\ allowedAges' = [allowedAges EXCEPT ![k] = Append(IF Len(@) > MaxEvents THEN Tail(@) ELSE @, 0)]

\* 429: only the pruning is recorded.
Deny(k) ==
    /\ ~HasRoom(k)
    /\ windows' = [windows EXCEPT ![k] = Prune(@)]
    /\ UNCHANGED allowedAges

Older(ages) == [i \in 1 .. Len(ages) |-> IF ages[i] > Window THEN ages[i] ELSE ages[i] + 1]

\* Time passes.
LimiterTick ==
    /\ \E k \in LimitKey : \E i \in DOMAIN allowedAges[k] : allowedAges[k][i] <= Window
    /\ windows' = [k \in LimitKey |-> Older(windows[k])]
    /\ allowedAges' = [k \in LimitKey |-> Older(allowedAges[k])]

LimiterTypeOK ==
    /\ windows \in [LimitKey -> BoundedSeq(0 .. Window + 1, MaxEvents)]
    /\ allowedAges \in [LimitKey -> BoundedSeq(0 .. Window + 1, MaxEvents + 1)]

\* However registrations and ticks interleave, no window of Window ticks,
\* both ends included, holds more than MaxEvents allowed registrations of a
\* token: of any MaxEvents + 1 allowed in a row, the first is out of the
\* window when the last is allowed (Limiter.allowAt, prune).
AtMostMaxPerWindow ==
    \A k \in LimitKey : Len(allowedAges[k]) > MaxEvents => allowedAges[k][1] > Window
=============================================================================
