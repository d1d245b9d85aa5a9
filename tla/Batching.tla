------------------------------- MODULE Batching -------------------------------
(***************************************************************************)
(* What collect mode promises (docs/QUEUE_ARCHITECTURE.md, "Collect Mode   *)
(* (Message Batching)"): the messages of a key are accepted one at a time, *)
(* and a batch is everything accepted for its key since the last batch, in *)
(* order.  When a batch is cut is left open here.                          *)
(***************************************************************************)
EXTENDS Sequences

CONSTANTS Key, Msg, KeyOf

VARIABLES
    pool,     \* messages not accepted yet
    open,     \* key -> messages accepted since the key's last batch
    sealed    \* all batches cut so far

vars == <<pool, open, sealed>>

Init ==
    /\ pool = Msg
    /\ open = [k \in Key |-> <<>>]
    /\ sealed = {}

Accept(m) ==
    /\ m \in pool
    /\ pool' = pool \ {m}
    /\ open' = [open EXCEPT ![KeyOf[m]] = Append(@, m)]
    /\ sealed' = sealed

\* Cut one batch for every key of K.
Seal(K) ==
    /\ \A k \in K : open[k] # <<>>
    /\ sealed' = sealed \cup {[key |-> k, msgs |-> open[k]] : k \in K}
    /\ open' = [k \in Key |-> IF k \in K THEN <<>> ELSE open[k]]
    /\ pool' = pool

Next ==
    \/ \E m \in Msg : Accept(m)
    \/ \E K \in SUBSET Key : Seal(K)

Spec == Init /\ [][Next]_vars
=============================================================================
