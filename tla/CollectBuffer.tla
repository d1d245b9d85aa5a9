---------------------------- MODULE CollectBuffer ----------------------------
(***************************************************************************)
(* The collect-mode buffers of the gateway's router                        *)
(* (internal/gateway/router.go, enqueueCollect and flushCollectBuffer).    *)
(*                                                                         *)
(* A buffer is kept per key (user and channel).  The first message of a    *)
(* buffer arms a one-shot timer; a message that brings the buffer to its   *)
(* cap stops that timer and starts a flush goroutine.  A flush goroutine,  *)
(* started by either, is bound to the KEY and not to the buffer: it takes  *)
(* whatever the key's buffer holds when it gets the mutex, and publishes   *)
(* it as one queue item after releasing the mutex.                         *)
(*                                                                         *)
(* The two critical sections under collectMu are one action each; the      *)
(* publish outside the mutex is an action of its own.                      *)
(***************************************************************************)
EXTENDS Naturals, Sequences, Functions

CONSTANTS
    Key,          \* buffer keys, "userID:channelType"
    Msg,          \* inbound messages that reach enqueueCollect, each once
    KeyOf,        \* the key of a message
    CollectCap    \* collectBuffer.cap

ASSUME CollectAssumption ==
    /\ KeyOf \in [Msg -> Key]
    /\ CollectCap \in Nat \ {0}

VARIABLES
    waiting,      \* messages that have not reached enqueueCollect yet
    buffers,      \* collectBuffers: key -> msgs (<<>>: no buffer in the map)
    gen,          \* how many buffers were created for the key so far
    armed,        \* running timers, each named by its buffer <<key, gen>>
    flushers,     \* flush goroutines of the key that have not got the mutex
    taken,        \* batches taken by a flush and not published yet
    published,    \* batches that PublishMessage accepted
    failed,       \* batches whose publish failed (logged, then dropped)
    lost          \* batches that were in memory when the process ended

vars == <<waiting, buffers, gen, armed, flushers, taken, published, failed,
          lost>>

Batch == [key : Key, gen : Nat, msgs : Seq(Msg)]

\* Init: NewRouter creates an empty buffer map.
Init ==
    /\ waiting = Msg
    /\ buffers = [k \in Key |-> <<>>]
    /\ gen = [k \in Key |-> 0]
    /\ armed = {}
    /\ flushers = [k \in Key |-> 0]
    /\ taken = {}
    /\ published = {}
    /\ failed = {}
    /\ lost = {}

\* The generation of the buffer a message for k goes to.
CurrentGen(k) == IF buffers[k] = <<>> THEN gen[k] + 1 ELSE gen[k]

\* Mutant: the timer is created once per key instead of once per buffer.
TimersArmedOncePerKey(k) == armed \cup
    (IF gen[k] = 0 THEN {<<k, 1>>} ELSE {})

\* The timers once the buffer for k exists: creating it arms one.
TimersWithBuffer(k) == armed \cup
    (IF buffers[k] = <<>> THEN {<<k, gen[k] + 1>>} ELSE {})

\* The append below brings k's buffer to its cap, or finds it there already.
ReachesCap(k) == Len(buffers[k]) + 1 >= CollectCap

\* buf.msgs = append(buf.msgs, msg)
AppendMsg(s, m) == Append(s, m)

\* enqueueCollect, the whole critical section.
EnqueueCollect(m) ==
    LET k == KeyOf[m] IN
    /\ m \in waiting
    /\ waiting' = waiting \ {m}
    /\ buffers' = [buffers EXCEPT ![k] = AppendMsg(@, m)]
    /\ gen' = [gen EXCEPT ![k] = CurrentGen(k)]
    /\ IF ReachesCap(k)
       THEN /\ armed' = TimersWithBuffer(k) \ {<<k, CurrentGen(k)>>}
            /\ flushers' = [flushers EXCEPT ![k] = @ + 1]
       ELSE /\ armed' = TimersWithBuffer(k)
            /\ flushers' = flushers
    /\ UNCHANGED <<taken, published, failed, lost>>

\* time.AfterFunc: an armed timer starts a flush goroutine for its key.
TimerFires(t) ==
    /\ t \in armed
    /\ armed' = armed \ {t}
    /\ flushers' = [flushers EXCEPT ![t[1]] = @ + 1]
    /\ UNCHANGED <<waiting, buffers, gen, taken, published, failed, lost>>

\* flushCollectBuffer finds no buffer for its key: another flush took it.
FlushFindsNothing(k) ==
    /\ flushers[k] > 0
    /\ buffers[k] = <<>>
    /\ flushers' = [flushers EXCEPT ![k] = @ - 1]
    /\ UNCHANGED <<waiting, buffers, gen, armed, taken, published, failed,
                   lost>>

OpenBatch(k) == [key |-> k, gen |-> gen[k], msgs |-> buffers[k]]

\* Mutant: the buffer is left in the map with its messages.
FlushTakesWithoutDelete(k) ==
    /\ flushers[k] > 0
    /\ buffers[k] # <<>>
    /\ flushers' = [flushers EXCEPT ![k] = @ - 1]
    /\ taken' = taken \cup {OpenBatch(k)}
    /\ UNCHANGED <<waiting, buffers, gen, armed, published, failed, lost>>

\* flushCollectBuffer takes all messages and deletes the buffer.  It does
\* not stop the timer of the buffer it takes.
FlushTakes(k) ==
    /\ flushers[k] > 0
    /\ buffers[k] # <<>>
    /\ flushers' = [flushers EXCEPT ![k] = @ - 1]
    /\ taken' = taken \cup {OpenBatch(k)}
    /\ buffers' = [buffers EXCEPT ![k] = <<>>]
    /\ UNCHANGED <<waiting, gen, armed, published, failed, lost>>

\* PublishMessage succeeds for the whole batch as one item.
PublishBatch(b) ==
    /\ b \in taken
    /\ taken' = taken \ {b}
    /\ published' = published \cup {b}
    /\ UNCHANGED <<waiting, buffers, gen, armed, flushers, failed, lost>>

\* PublishMessage fails or no publisher is configured: the error is logged
\* and nothing is retried.
PublishBatchFails(b) ==
    /\ b \in taken
    /\ taken' = taken \ {b}
    /\ failed' = failed \cup {b}
    /\ UNCHANGED <<waiting, buffers, gen, armed, flushers, published, lost>>

\* The gateway process ends and starts again: the buffers, their timers and
\* the flush goroutines are memory only; nothing flushes them on shutdown.
Restart ==
    /\ lost' = lost \cup taken
                    \cup {OpenBatch(k) : k \in {j \in Key : buffers[j] # <<>>}}
    /\ buffers' = [k \in Key |-> <<>>]
    /\ armed' = {}
    /\ flushers' = [k \in Key |-> 0]
    /\ taken' = {}
    /\ UNCHANGED <<waiting, gen, published, failed>>

Next ==
    \/ \E m \in Msg : EnqueueCollect(m)
    \/ \E t \in armed : TimerFires(t)
    \/ \E k \in Key : FlushFindsNothing(k) \/ FlushTakes(k)
    \/ \E b \in taken : PublishBatch(b) \/ PublishBatchFails(b)
    \/ Restart

\* Timers expire, goroutines get the mutex and the publish call returns
\* (it has a 10 s timeout).  Arrivals and restarts are not guaranteed.
Fairness ==
    /\ WF_vars(\E t \in armed : TimerFires(t))
    /\ \A k \in Key : WF_vars(FlushFindsNothing(k) \/ FlushTakes(k))
    /\ WF_vars(\E b \in taken : PublishBatch(b) \/ PublishBatchFails(b))

Spec == Init /\ [][Next]_vars

FairSpec == Spec /\ Fairness
-----------------------------------------------------------------------------
\* Every batch that was ever taken out of a buffer.
Closed == taken \cup published \cup failed \cup lost

\* The variables range over what the Go types and the mutex allow.
TypeOK ==
    /\ waiting \subseteq Msg
    /\ buffers \in [Key -> Seq(Msg)]
    /\ gen \in [Key -> Nat]
    /\ armed \subseteq Key \X Nat
    /\ flushers \in [Key -> Nat]
    /\ taken \subseteq Batch
    /\ published \subseteq Batch
    /\ failed \subseteq Batch
    /\ lost \subseteq Batch

\* A buffer that holds messages is never stranded: its own timer is still
\* running or a flush goroutine for its key is on its way, although timers
\* are stopped at the cap and flushes may take a buffer they were not
\* started for.  A full buffer does not wait for a timer.
NoStrandedBuffer ==
    \A k \in Key :
        /\ buffers[k] # <<>> => <<k, gen[k]>> \in armed \/ flushers[k] > 0
        /\ Len(buffers[k]) >= CollectCap => flushers[k] > 0

\* Every enqueued message is in exactly one place: the buffer of its key or
\* one batch with exactly one outcome, and once there.  No flush, stale or
\* not, duplicates or drops one.
ExactlyOnePlace ==
    /\ \A k \in Key : IsInjective(buffers[k])
    /\ \A b \in Closed : IsInjective(b.msgs)
    /\ \A m \in Msg : m \in waiting <=>
         /\ \A k \in Key : m \notin Range(buffers[k])
         /\ \A b \in Closed : m \notin Range(b.msgs)
    /\ \A b \in Closed, k \in Key : Range(b.msgs) \cap Range(buffers[k]) = {}
    /\ \A b, c \in Closed : b # c => Range(b.msgs) \cap Range(c.msgs) = {}
    /\ \A j, k \in Key : j # k => Range(buffers[j]) \cap Range(buffers[k]) = {}
    /\ taken \cap (published \cup failed \cup lost) = {}
    /\ published \cap (failed \cup lost) = {}
    /\ failed \cap lost = {}

\* Every message that was enqueued ends up in a batch with an outcome; it
\* does not sit in the buffer forever.
EnqueuedIsEventuallyFlushed ==
    \A m \in Msg : (m \notin waiting) ~>
        (\E b \in published \cup failed \cup lost : m \in Range(b.msgs))

\* The buffers behave as the batching that collect mode promises: stale
\* flushes, late timers and restarts only decide when a batch is cut.
Promise == INSTANCE Batching WITH
    pool <- waiting,
    open <- buffers,
    sealed <- {[key |-> b.key, msgs |-> b.msgs] : b \in Closed}

ImplementsBatching == Promise!Spec

\* docs/QUEUE_ARCHITECTURE.md:166 says of collectCap "Max 5 messages in one
\* batch": no batch is larger than the cap.
BatchWithinCap == \A b \in Closed : Len(b.msgs) <= CollectCap
=============================================================================
