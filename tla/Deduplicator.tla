----------------------------- MODULE Deduplicator -----------------------------
(***************************************************************************)
(* The in-memory deduplicator (internal/gateway/dedup.go).  IsDuplicate    *)
(* checks and registers a key in one critical section; a key counts as     *)
(* seen strictly before its expiry.  The cleanup goroutine removes entries *)
(* strictly after theirs.                                                  *)
(***************************************************************************)
EXTENDS Naturals

CONSTANTS
    DedupKey,   \* user, strategy and raw key (buildKey)
    Window,     \* defaultWindow, in clock ticks
    MaxTime     \* bound on the clock

VARIABLES
    now,        \* time.Now(), in ticks
    expiresAt   \* key -> expiry of its entry, 0 when there is none

DedupInit ==
    /\ now = 1
    /\ expiresAt = [k \in DedupKey |-> 0]

Seen(k) == now < expiresAt[k]

\* Mutant: the key is checked and never registered.
FreshUnregistered(k) == ~Seen(k) /\ expiresAt' = expiresAt /\ now' = now

\* IsDuplicate returns false and (re-)registers the key.
Fresh(k) ==
    /\ ~Seen(k)
    /\ expiresAt' = [expiresAt EXCEPT ![k] = now + Window]
    /\ now' = now

\* IsDuplicate returns true.
Duplicate(k) == Seen(k) /\ UNCHANGED <<now, expiresAt>>

\* The ticker's cleanup run, when it has something to remove.
EvictExpired ==
    LET old == {k \in DedupKey : expiresAt[k] # 0 /\ now > expiresAt[k]} IN
    /\ old # {}
    /\ expiresAt' = [k \in DedupKey |-> IF k \in old THEN 0 ELSE expiresAt[k]]
    /\ now' = now

Tick == now < MaxTime /\ now' = now + 1 /\ expiresAt' = expiresAt

Forget == now' = now /\ expiresAt' = [k \in DedupKey |-> 0]
=============================================================================
