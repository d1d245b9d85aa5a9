------------------------------- MODULE Gateway -------------------------------
(***************************************************************************)
(* The message path of the gateway: inbound requests, the router           *)
(* (internal/gateway/router.go), the delivery registry, the deduplicator   *)
(* and the collect buffers, the user's agent queue in RabbitMQ, the agent  *)
(* that consumes it (internal/agent/runtime.go, consume), the event queue  *)
(* and the dispatcher (internal/gateway/dispatcher.go).                    *)
(*                                                                         *)
(* Every inbound request runs handleNormalizedMessage in a goroutine of    *)
(* its own; the steps between two accesses to shared state are one action. *)
(* Agent events carry a session key and nothing that names the message     *)
(* they answer: what an answer is about is history, which the dispatcher   *)
(* does not see.                                                           *)
(***************************************************************************)
EXTENDS Naturals, Sequences, Functions

CONSTANTS
    Request,      \* inbound deliveries by a channel; a redelivery is another
    Msg, MsgOf,   \* the message a request carries
    Session, SessionOf,     \* the session key of a message (Resolver.Resolve)
    User, UserOf,           \* the user of a session
    DedupKey, DedupKeyOf,   \* the dedup key of a message, or NoKey
    NoKey,
    Cron,         \* requests of the internal cron channel (no allowlist)
    Collecting,   \* requests of a channel in collect mode
    Interrupting, \* requests of a channel in interrupt mode
    CollectKey, CollectKeyOf, CollectCap,
    QueueCap,     \* x-max-length of the user's agent queue
    Window, MaxTime,        \* dedup window and clock bound, in ticks
    MaxFaults     \* bound on crashes, lost acks, tool errors, allowlist changes

ASSUME GatewayAssumption ==
    /\ MsgOf \in [Request -> Msg]
    /\ SessionOf \in [Msg -> Session]
    /\ UserOf \in [Session -> User]
    /\ DedupKeyOf \in [Msg -> DedupKey \cup {NoKey}]
    /\ NoKey \notin DedupKey
    /\ Cron \subseteq Request
    /\ Collecting \subseteq Request
    /\ Interrupting \subseteq Request \ Collecting
    /\ CollectKeyOf \in [Collecting -> CollectKey]
    /\ CollectCap \in Nat \ {0}
    /\ QueueCap \in Nat
    /\ Window \in Nat \ {0}
    /\ MaxTime \in Nat
    /\ MaxFaults \in Nat

VARIABLES
    pc,           \* where the goroutine of each request is
    allowed,      \* users that pass the allowlist guard
    registry,     \* Registry
    now, expiresAt,         \* Deduplicator
    waiting, buffers, gen, armed, flushers, taken, published, failed, lost,
                  \* CollectBuffer
    userQueue,    \* user -> items in the agent queue, oldest first
    run,          \* user -> the delivery its agent holds unacknowledged
    control,      \* user -> control messages in the control queue
    events,       \* terminal events in nipper-events-gateway
    replies,      \* history: [to, about] of the answers handed to a context
    passedAt,     \* history: dedup key -> when a message last passed (0: never)
    skewed,       \* history: sessions whose registry no longer lines up
    faults        \* history: the events that MaxFaults bounds, so far

Collect == INSTANCE CollectBuffer WITH
    Key <- CollectKey, Msg <- Collecting, KeyOf <- CollectKeyOf

Dedup == INSTANCE Deduplicator

Reg == INSTANCE Registry

dedupVars == <<now, expiresAt>>
collectVars == <<waiting, buffers, gen, armed, flushers, taken, published,
                 failed, lost>>
agentVars == <<userQueue, run>>
historyVars == <<replies, passedAt, skewed, faults>>
vars == <<pc, allowed, registry, dedupVars, collectVars, agentVars, control,
          events, historyVars>>

Sess(r) == SessionOf[MsgOf[r]]
Usr(r) == UserOf[Sess(r)]

\* A queue item is the sequence of requests it was built from; the agent
\* works on its primary message, the newest one.
Primary(item) == item[Len(item)]

Idle == <<>>
Running(item, phase) == [item |-> item, phase |-> phase]

Init ==
    /\ pc = [r \in Request |-> "idle"]
    /\ allowed \in SUBSET User
    /\ Reg!RegistryInit
    /\ Dedup!DedupInit
    /\ Collect!Init
    /\ userQueue = [u \in User |-> <<>>]
    /\ run = [u \in User |-> Running(Idle, "idle")]
    /\ control = [u \in User |-> 0]
    /\ events = <<>>
    /\ replies = <<>>
    /\ passedAt = [k \in DedupKey |-> 0]
    /\ skewed = {}
    /\ faults = 0

Goto(r, from, to) == pc[r] = from /\ pc' = [pc EXCEPT ![r] = to]

(***************************************************************************)
(* The router: handleNormalizedMessage.                                    *)
(***************************************************************************)

\* Steps 1 to 4 let the message through: the user is resolved, the guard
\* allows it (cron is not asked) and the session key is derived.
Admitted(r) == r \in Cron \/ Usr(r) \in allowed

\* The guard rejects (silently, nil) or a datastore lookup fails (error).
Reject(r) ==
    /\ \/ ~Admitted(r) /\ Goto(r, "idle", "rejected")
       \/ Goto(r, "idle", "error")
    /\ UNCHANGED <<allowed, registry, dedupVars, collectVars, agentVars,
                   control, events, historyVars>>

\* Mutant: the session key is derived from the user alone.
RegisterUnderUser(r) ==
    /\ Admitted(r)
    /\ Goto(r, "idle", "registered")
    /\ Reg!Register(CHOOSE s \in Session : UserOf[s] = Usr(r), r)
    /\ UNCHANGED <<allowed, dedupVars, collectVars, agentVars, control, events,
                   historyVars>>

\* A request arrives, passes steps 1 to 4 and reaches step 5: its context
\* is registered before the message is known to be new.
RegisterContext(r) ==
    /\ Admitted(r)
    /\ Goto(r, "idle", "registered")
    /\ Reg!Register(Sess(r), r)
    /\ UNCHANGED <<allowed, dedupVars, collectVars, agentVars, control, events,
                   historyVars>>

\* Step 6: the deduplicator lets the message pass.
PassDedup(r) ==
    LET k == DedupKeyOf[MsgOf[r]] IN
    /\ Goto(r, "registered", "accepted")
    /\ IF k = NoKey
       THEN UNCHANGED <<dedupVars, passedAt>>
       ELSE Dedup!Fresh(k) /\ passedAt' = [passedAt EXCEPT ![k] = now]
    /\ UNCHANGED <<allowed, registry, collectVars, agentVars, control, events,
                   replies, skewed, faults>>

\* Step 6: the message is a duplicate; its registry entry stays behind.
SuppressDuplicate(r) ==
    LET k == DedupKeyOf[MsgOf[r]] IN
    /\ Goto(r, "registered", "duplicate")
    /\ k # NoKey /\ Dedup!Duplicate(k)
    /\ skewed' = skewed \cup {Sess(r)}
    /\ UNCHANGED <<allowed, registry, collectVars, agentVars, control, events,
                   replies, passedAt, faults>>

\* r is registered and its item has not reached the agent queue.
Unpublished(r) ==
    \/ pc[r] \in {"registered", "accepted"}
    \/ pc[r] = "enqueued" /\ \A b \in published : r \notin Range(b.msgs)

\* An older entry of r's session belongs to a request not published yet.
Overtakes(r) ==
    LET q == registry[Sess(r)] IN
    \E i, j \in DOMAIN q : i < j /\ q[j] = r /\ Unpublished(q[i])

\* The sessions that stop lining up when an item is published: those of
\* messages that will not be answered on their own, and the primary's own
\* session when it overtakes an older entry.
Disturbed(item, rejected) ==
    {Sess(item[i]) : i \in {j \in DOMAIN item : j < Len(item) \/ rejected}}
    \cup (IF Overtakes(Primary(item)) THEN {Sess(Primary(item))} ELSE {})

\* The broker's side of PublishMessage.  The publisher uses no confirms: an
\* item that the queue rejects (x-overflow=reject-publish), or that is lost
\* with the connection, looks published.
Enqueue(item) ==
    LET u == Usr(Primary(item)) IN
    \/ /\ Len(userQueue[u]) < QueueCap
       /\ userQueue' = [userQueue EXCEPT ![u] = Append(@, item)]
       /\ skewed' = skewed \cup Disturbed(item, FALSE)
    \/ /\ userQueue' = userQueue
       /\ skewed' = skewed \cup Disturbed(item, TRUE)

\* Step 9: publish; interrupt mode goes on to step 10.
Publish(r) ==
    /\ r \notin Collecting
    /\ Goto(r, "accepted", IF r \in Interrupting THEN "signal" ELSE "ok")
    /\ Enqueue(<<r>>)
    /\ UNCHANGED <<allowed, registry, dedupVars, collectVars, run, control,
                   events, replies, passedAt, faults>>

\* Step 9 fails: the error goes to the caller, which answers 200 all the
\* same; the registry entry and the dedup key stay behind.
PublishFails(r) ==
    /\ r \notin Collecting
    /\ Goto(r, "accepted", "error")
    /\ skewed' = skewed \cup {Sess(r)}
    /\ UNCHANGED <<allowed, registry, dedupVars, collectVars, agentVars,
                   control, events, replies, passedAt, faults>>

\* Step 10: the control message of interrupt mode; a failure is logged.
SignalInterrupt(r) ==
    /\ Goto(r, "signal", "ok")
    /\ \/ control' = [control EXCEPT ![Usr(r)] = @ + 1]
       \/ control' = control
    /\ UNCHANGED <<allowed, registry, dedupVars, collectVars, agentVars,
                   events, historyVars>>

\* Step 8: the collect buffer takes the message.
EnqueueCollect(r) ==
    /\ r \in Collecting
    /\ Goto(r, "accepted", "enqueued")
    /\ Collect!EnqueueCollect(r)
    /\ UNCHANGED <<allowed, registry, dedupVars, agentVars, control, events,
                   historyVars>>

\* The collect buffers' timers and flush goroutines.
FlushStarts ==
    /\ \/ \E t \in armed : Collect!TimerFires(t)
       \/ \E k \in CollectKey :
            Collect!FlushFindsNothing(k) \/ Collect!FlushTakes(k)
    /\ UNCHANGED <<pc, allowed, registry, dedupVars, agentVars, control,
                   events, historyVars>>

FlushPublishes(b) ==
    /\ Collect!PublishBatch(b)
    /\ Enqueue(b.msgs)
    /\ UNCHANGED <<pc, allowed, registry, dedupVars, run, control, events,
                   replies, passedAt, faults>>

FlushFails(b) ==
    /\ Collect!PublishBatchFails(b)
    /\ skewed' = skewed \cup {Sess(r) : r \in Range(b.msgs)}
    /\ UNCHANGED <<pc, allowed, registry, dedupVars, agentVars, control,
                   events, replies, passedAt, faults>>
-----------------------------------------------------------------------------
(***************************************************************************)
(* The agent of a user: prefetch 1, manual acknowledgement.                *)
(***************************************************************************)

AgentReceives(u) ==
    /\ run[u].phase = "idle"
    /\ userQueue[u] # <<>>
    /\ run' = [run EXCEPT ![u] = Running(Head(userQueue[u]), "working")]
    /\ userQueue' = [userQueue EXCEPT ![u] = Tail(@)]
    /\ UNCHANGED <<pc, allowed, registry, dedupVars, collectVars, control,
                   events, historyVars>>

\* Mutant: a path of handleMessage returns nil without a terminal event.
AgentReportsNothing(u) ==
    /\ run[u].phase = "working"
    /\ run' = [run EXCEPT ![u].phase = "reported"]
    /\ UNCHANGED <<pc, allowed, registry, dedupVars, collectVars, userQueue,
                   control, events, historyVars>>

\* The turn ends: PublishDone or PublishError for the primary message.
AgentReports(u) ==
    LET r == Primary(run[u].item) IN
    /\ run[u].phase = "working"
    /\ run' = [run EXCEPT ![u].phase = "reported"]
    /\ events' = Append(events, [session |-> Sess(r), about |-> r])
    /\ UNCHANGED <<pc, allowed, registry, dedupVars, collectVars, userQueue,
                   control, historyVars>>

\* A native tool fails in the middle of the turn: the OnError callback
\* publishes an error event as well, and the turn goes on.  The dispatcher
\* takes it for an answer and pops a context for it.
AgentToolErrors(u) ==
    LET r == Primary(run[u].item) IN
    /\ faults < MaxFaults
    /\ run[u].phase = "working"
    /\ faults' = faults + 1
    /\ events' = Append(events, [session |-> Sess(r), about |-> r])
    /\ skewed' = skewed \cup {Sess(r)}
    /\ UNCHANGED <<pc, allowed, registry, dedupVars, collectVars, agentVars,
                   control, replies, passedAt>>

\* handleMessage returns an error without an event (the session cannot be
\* loaded, the context is cancelled, the publish of the event fails).
AgentFailsSilently(u) ==
    /\ run[u].phase = "working"
    /\ run' = [run EXCEPT ![u].phase = "reported"]
    /\ skewed' = skewed \cup {Sess(Primary(run[u].item))}
    /\ UNCHANGED <<pc, allowed, registry, dedupVars, collectVars, userQueue,
                   control, events, replies, passedAt, faults>>

\* Ack, or Nack without requeue: either way the broker forgets the item.
AgentSettles(u) ==
    /\ run[u].phase = "reported"
    /\ run' = [run EXCEPT ![u] = Running(Idle, "idle")]
    /\ UNCHANGED <<pc, allowed, registry, dedupVars, collectVars, userQueue,
                   control, events, historyVars>>

\* The agent or its connection dies: the broker redelivers the item.
AgentCrashes(u) ==
    /\ faults < MaxFaults
    /\ run[u].phase # "idle"
    /\ faults' = faults + 1
    /\ userQueue' = [userQueue EXCEPT ![u] = <<run[u].item>> \o @]
    /\ run' = [run EXCEPT ![u] = Running(Idle, "idle")]
    /\ skewed' = skewed \cup
        (IF run[u].phase = "reported" THEN {Sess(Primary(run[u].item))} ELSE {})
    /\ UNCHANGED <<pc, allowed, registry, dedupVars, collectVars, control,
                   events, replies, passedAt>>

\* x-message-ttl: the oldest item is dead-lettered.
ItemExpires(u) ==
    /\ userQueue[u] # <<>>
    /\ userQueue' = [userQueue EXCEPT ![u] = Tail(@)]
    /\ skewed' = skewed \cup {Sess(Primary(Head(userQueue[u])))}
    /\ UNCHANGED <<pc, allowed, registry, dedupVars, collectVars, run, control,
                   events, replies, passedAt, faults>>
-----------------------------------------------------------------------------
(***************************************************************************)
(* The dispatcher: HandleEvent for a terminal event, on the single         *)
(* goroutine of the event consumer.                                        *)
(***************************************************************************)

\* The answer goes to the context popped from the front of the session's
\* queue.  deliverWithRetry reports nothing back: whether one of its three
\* attempts succeeds changes no state of the gateway.
Deliver(e) ==
    /\ Reg!Consume(e.session)
    /\ replies' = Append(replies,
         [to |-> Reg!Lookup(e.session), about |-> e.about])

\* Handled and acknowledged.
Dispatch ==
    /\ events # <<>>
    /\ Deliver(Head(events))
    /\ events' = Tail(events)
    /\ UNCHANGED <<pc, allowed, dedupVars, collectVars, agentVars, control,
                   passedAt, skewed, faults>>

\* No context for the session: the event is acknowledged and dropped.
DispatchFindsNothing ==
    /\ events # <<>>
    /\ ~Reg!Found(Head(events).session)
    /\ events' = Tail(events)
    /\ UNCHANGED <<pc, allowed, registry, dedupVars, collectVars, agentVars,
                   control, historyVars>>

\* Handled, but the channel to the broker closes before the ack: the broker
\* delivers the same event again.
DispatchAckLost ==
    /\ faults < MaxFaults
    /\ events # <<>>
    /\ Deliver(Head(events))
    /\ faults' = faults + 1
    /\ skewed' = skewed \cup {Head(events).session}
    /\ UNCHANGED <<pc, allowed, dedupVars, collectVars, agentVars, control,
                   events, passedAt>>
-----------------------------------------------------------------------------
InHandler == {"registered", "accepted", "signal"}

\* The gateway process dies and starts again: goroutines, registry, dedup
\* cache and collect buffers are gone, the broker's queues are not.
GatewayRestarts ==
    /\ faults < MaxFaults
    /\ faults' = faults + 1
    /\ pc' = [r \in Request |-> IF pc[r] \in InHandler THEN "killed" ELSE pc[r]]
    /\ registry' = [s \in Session |-> <<>>]
    /\ Dedup!Forget
    /\ Collect!Restart
    /\ skewed' = Session
    /\ passedAt' = [k \in DedupKey |-> 0]
    /\ UNCHANGED <<allowed, agentVars, control, events, replies>>

\* An administrator grants or revokes access.
AllowlistChanges(u) ==
    /\ faults < MaxFaults
    /\ allowed' = IF u \in allowed THEN allowed \ {u} ELSE allowed \cup {u}
    /\ faults' = faults + 1
    /\ UNCHANGED <<pc, registry, dedupVars, collectVars, agentVars, control,
                   events, replies, passedAt, skewed>>

ClockOrCleanup ==
    /\ Dedup!Tick \/ Dedup!EvictExpired
    /\ UNCHANGED <<pc, allowed, registry, collectVars, agentVars, control,
                   events, historyVars>>

HandlerStep(r) ==
    \/ PassDedup(r) \/ SuppressDuplicate(r)
    \/ Publish(r) \/ PublishFails(r) \/ SignalInterrupt(r) \/ EnqueueCollect(r)

FlushStep == FlushStarts \/ \E b \in taken : FlushPublishes(b) \/ FlushFails(b)

AgentStep(u) ==
    AgentReceives(u) \/ AgentReports(u) \/ AgentFailsSilently(u) \/ AgentSettles(u)

DispatchStep == Dispatch \/ DispatchFindsNothing

Next ==
    \/ \E r \in Request : Reject(r) \/ RegisterContext(r) \/ HandlerStep(r)
    \/ FlushStep
    \/ \E u \in User : AgentStep(u) \/ AgentToolErrors(u) \/ AgentCrashes(u)
                       \/ ItemExpires(u) \/ AllowlistChanges(u)
    \/ DispatchStep
    \/ DispatchAckLost
    \/ GatewayRestarts
    \/ ClockOrCleanup

\* Goroutines run, timers expire, a running agent works off its queue and
\* the event consumer its own.
Fairness ==
    /\ \A r \in Request : WF_vars(HandlerStep(r))
    /\ WF_vars(FlushStep)
    /\ \A u \in User : WF_vars(AgentStep(u))
    /\ WF_vars(DispatchStep)

Spec == Init /\ [][Next]_vars

FairSpec == Spec /\ Fairness
-----------------------------------------------------------------------------
Phase == {"idle", "working", "reported"}
Place == {"idle", "rejected", "duplicate", "enqueued", "ok", "error", "killed"}
         \cup InHandler
Reply == [to : Request, about : Request]

\* The variables keep their types, and the agent queue its length: the item
\* an agent gives back may put it one over x-max-length.
TypeOK ==
    /\ pc \in [Request -> Place]
    /\ allowed \subseteq User
    /\ registry \in [Session -> Seq(Request)]
    /\ now \in Nat
    /\ expiresAt \in [DedupKey -> Nat]
    /\ Collect!TypeOK
    /\ userQueue \in [User -> Seq(Seq(Request))]
    /\ \A u \in User : Len(userQueue[u]) <= QueueCap + 1
    /\ run \in [User -> [item : Seq(Request), phase : Phase]]
    /\ control \in [User -> Nat]
    /\ events \in Seq([session : Session, about : Request])
    /\ replies \in Seq(Reply)
    /\ passedAt \in [DedupKey -> Nat]
    /\ skewed \subseteq Session
    /\ faults \in Nat

\* One inbound request gets at most one final response, whatever is
\* redelivered: agent items, events, or both (Registry.Consume).
OneReplyPerContext ==
    \A i, j \in DOMAIN replies : replies[i].to = replies[j].to => i = j

\* A response never leaves its session: it may be attached to the wrong
\* message of a conversation, but never reaches another conversation.
RepliesStayInSession ==
    \A i \in DOMAIN replies :
        SessionOf[MsgOf[replies[i].to]] = SessionOf[MsgOf[replies[i].about]]

\* While the gateway process lives, messages with one dedup key pass at
\* most once per window, however their goroutines interleave with each
\* other and with the cleanup (Deduplicator.IsDuplicate).
OncePerWindow ==
    [][\A r \in Request :
         LET k == DedupKeyOf[MsgOf[r]] IN
         (pc[r] = "registered" /\ pc'[r] = "accepted" /\ k # NoKey)
         => passedAt[k] = 0 \/ now >= passedAt[k] + Window]_vars

\* The requests of session s in a sequence of requests.
OfSession(s, q) ==
    LET upTo[i \in 0 .. Len(q)] ==
          IF i = 0 THEN <<>>
          ELSE IF Sess(q[i]) = s THEN Append(upTo[i - 1], q[i]) ELSE upTo[i - 1]
    IN  upTo[Len(q)]

\* The requests that a terminal event was published for, that user u's agent
\* works on, and that wait for it.
Reported == [i \in DOMAIN events |-> events[i].about]
AtWork(u) == IF run[u].phase = "working" THEN <<Primary(run[u].item)>> ELSE <<>>
Queued(u) == [i \in DOMAIN userQueue[u] |-> Primary(userQueue[u][i])]

\* The requests of session s that a terminal event was or will be published
\* for, in the order the dispatcher will see the events.
Outstanding(s) ==
    OfSession(s, Reported \o AtWork(UserOf[s]) \o Queued(UserOf[s]))

\* registry.go:22-24 holds as long as nothing upset the session: the
\* registry lists exactly the requests that will be answered, in that
\* order, followed by those not published yet; so every answer went to the
\* request it is about.  What upsets a session: a duplicate, a message that
\* is not published, rejected, expired or merged into another one, a publish
\* that overtakes an older request, a turn that ends without an event or is
\* run again after it, an error event in the middle of a turn, an event
\* delivered twice, a restart of the gateway.
AlignedUnlessDisturbed ==
    \A s \in Session \ skewed :
        LET due == Outstanding(s) IN
        /\ Len(due) <= Len(registry[s])
        /\ SubSeq(registry[s], 1, Len(due)) = due
        /\ \A i \in Len(due) + 1 .. Len(registry[s]) : Unpublished(registry[s][i])
        /\ \A i \in DOMAIN replies :
             Sess(replies[i].about) = s => replies[i].to = replies[i].about

\* A message that passed dedup is eventually answered in its own context,
\* unless its session was upset (AlignedUnlessDisturbed lists by what).
AcceptedIsAnswered ==
    \A r \in Request :
        pc[r] = "accepted" ~>
            \/ Sess(r) \in skewed
            \/ \E i \in DOMAIN replies :
                 replies[i].to = r /\ replies[i].about = r

\* registry.go:22-24, "The dispatcher Consumes (pops) the front on each
\* "done" or "error" event, so the first response matches the first queued
\* message.": every response goes to the message it answers.
FirstResponseMatchesFirstMessage ==
    \A i \in DOMAIN replies : MsgOf[replies[i].to] = MsgOf[replies[i].about]
=============================================================================
