------------------------------- MODULE Registry -------------------------------
(***************************************************************************)
(* The delivery registry of the gateway (internal/gateway/registry.go):    *)
(* per session key a FIFO of delivery contexts.  Every method holds the    *)
(* registry's mutex, so each is one step.  A context is named by the       *)
(* inbound request that registered it; a session without entries and one   *)
(* without a key in the Go map are the same here, as they are to callers.  *)
(***************************************************************************)
EXTENDS Sequences

CONSTANT Session

VARIABLE registry

RegistryInit == registry = [s \in Session |-> <<>>]

Register(s, ctx) == registry' = [registry EXCEPT ![s] = Append(@, ctx)]

Found(s) == registry[s] # <<>>

\* Mutant: the newest entry is taken for the front.
LookupNewest(s) == registry[s][Len(registry[s])]

\* Lookup returns the front entry and leaves it there.
Lookup(s) == Head(registry[s])

\* Mutant: the terminal event peeks instead of popping.
ConsumeKeepsEntry(s) == Found(s) /\ registry' = registry

\* Consume returns the front entry (Lookup(s)) and removes it.
Consume(s) == Found(s) /\ registry' = [registry EXCEPT ![s] = Tail(@)]
=============================================================================
