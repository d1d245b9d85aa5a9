---------------------------- MODULE Gateway_proofs ----------------------------
(***************************************************************************)
(* Proofs about Gateway, for every set of requests, messages, sessions and *)
(* users, every dedup window, queue length and collect cap, and any number *)
(* of crashes, lost acknowledgements and restarts.                         *)
(***************************************************************************)
EXTENDS Gateway, SequenceTheorems, WellFoundedInduction, TLAPS


(***************************************************************************)
(* Which steps touch what.                                                 *)
(***************************************************************************)

\* The registry and the answers change only when a context is registered
\* (handleNormalizedMessage, step 5), when the dispatcher answers one, and
\* when the process starts again.
LEMMA RegistrySteps ==
    ASSUME [Next]_vars,
           \A r \in Request : ~RegisterContext(r),
           ~Dispatch, ~DispatchAckLost, ~GatewayRestarts
    PROVE  UNCHANGED <<registry, replies>>
<1> USE DEF dedupVars, collectVars, agentVars, historyVars
<1>1. ASSUME NEW r \in Request, Reject(r) PROVE UNCHANGED <<registry, replies>>
  BY <1>1 DEF Reject
<1>2. ASSUME NEW r \in Request, HandlerStep(r)
      PROVE  UNCHANGED <<registry, replies>>
  BY <1>2 DEF HandlerStep, PassDedup, SuppressDuplicate, Publish, PublishFails,
              SignalInterrupt, EnqueueCollect
<1>3. ASSUME FlushStep PROVE UNCHANGED <<registry, replies>>
  BY <1>3 DEF FlushStep, FlushStarts, FlushPublishes, FlushFails
<1>4. ASSUME NEW u \in User, AgentStep(u) PROVE UNCHANGED <<registry, replies>>
  BY <1>4 DEF AgentStep, AgentReceives, AgentReports, AgentFailsSilently,
              AgentSettles
<1>5. ASSUME NEW u \in User,
             AgentToolErrors(u) \/ AgentCrashes(u) \/ ItemExpires(u)
             \/ AllowlistChanges(u)
      PROVE  UNCHANGED <<registry, replies>>
  BY <1>5 DEF AgentToolErrors, AgentCrashes, ItemExpires, AllowlistChanges
<1>6. ASSUME DispatchFindsNothing \/ ClockOrCleanup \/ UNCHANGED vars
      PROVE  UNCHANGED <<registry, replies>>
  BY <1>6 DEF DispatchFindsNothing, ClockOrCleanup, vars
<1>7. QED
  BY <1>1, <1>2, <1>3, <1>4, <1>5, <1>6 DEF Next, DispatchStep

\* The agent of u publishes a "done" or "error" event, at the end of a turn
\* or for a tool that fails in the middle of it.
AgentPublishes(u) == AgentReports(u) \/ AgentToolErrors(u)

\* Terminal events are published by agents and taken by the dispatcher.
LEMMA EventSteps ==
    ASSUME [Next]_vars,
           \A u \in User : ~AgentPublishes(u),
           ~Dispatch, ~DispatchFindsNothing
    PROVE  UNCHANGED events
<1> USE DEF dedupVars, collectVars, agentVars, historyVars
<1>1. ASSUME NEW r \in Request, Reject(r) \/ RegisterContext(r)
      PROVE  UNCHANGED events
  BY <1>1 DEF Reject, RegisterContext
<1>2. ASSUME NEW r \in Request, HandlerStep(r) PROVE UNCHANGED events
  BY <1>2 DEF HandlerStep, PassDedup, SuppressDuplicate, Publish, PublishFails,
              SignalInterrupt, EnqueueCollect
<1>3. ASSUME FlushStep PROVE UNCHANGED events
  BY <1>3 DEF FlushStep, FlushStarts, FlushPublishes, FlushFails
<1>4. ASSUME NEW u \in User, AgentStep(u) PROVE UNCHANGED events
  BY <1>4 DEF AgentStep, AgentReceives, AgentFailsSilently, AgentSettles,
              AgentPublishes
<1>5. ASSUME NEW u \in User,
             AgentCrashes(u) \/ ItemExpires(u) \/ AllowlistChanges(u)
      PROVE  UNCHANGED events
  BY <1>5 DEF AgentCrashes, ItemExpires, AllowlistChanges
<1>6. ASSUME DispatchAckLost \/ GatewayRestarts \/ ClockOrCleanup
             \/ UNCHANGED vars
      PROVE  UNCHANGED events
  BY <1>6 DEF DispatchAckLost, GatewayRestarts, ClockOrCleanup, vars
<1>7. QED
  BY <1>1, <1>2, <1>3, <1>4, <1>5, <1>6
     DEF Next, DispatchStep, AgentPublishes

\* The agent queues and the agents' deliveries change when an item is
\* published and when an agent, or the broker, does something with one.
LEMMA QueueSteps ==
    ASSUME [Next]_vars,
           \A r \in Request : ~Publish(r),
           \A b \in taken : ~FlushPublishes(b),
           \A u \in User : ~AgentStep(u) /\ ~AgentCrashes(u) /\ ~ItemExpires(u)
    PROVE  UNCHANGED <<userQueue, run>>
<1> USE DEF dedupVars, collectVars, agentVars, historyVars
<1>1. ASSUME NEW r \in Request, Reject(r) \/ RegisterContext(r)
      PROVE  UNCHANGED <<userQueue, run>>
  BY <1>1 DEF Reject, RegisterContext
<1>2. ASSUME NEW r \in Request, HandlerStep(r) PROVE UNCHANGED <<userQueue, run>>
  BY <1>2 DEF HandlerStep, PassDedup, SuppressDuplicate, PublishFails,
              SignalInterrupt, EnqueueCollect
<1>3. ASSUME FlushStep PROVE UNCHANGED <<userQueue, run>>
  BY <1>3 DEF FlushStep, FlushStarts, FlushFails
<1>4. ASSUME NEW u \in User, AgentToolErrors(u) \/ AllowlistChanges(u)
      PROVE  UNCHANGED <<userQueue, run>>
  BY <1>4 DEF AgentToolErrors, AllowlistChanges
<1>5. ASSUME DispatchStep \/ DispatchAckLost \/ GatewayRestarts
             \/ ClockOrCleanup \/ UNCHANGED vars
      PROVE  UNCHANGED <<userQueue, run>>
  BY <1>5 DEF DispatchStep, Dispatch, DispatchFindsNothing, DispatchAckLost,
              GatewayRestarts, ClockOrCleanup, vars
<1>6. QED
  BY <1>1, <1>2, <1>3, <1>4, <1>5 DEF Next

\* Every step of the gateway is a step of its collect buffers, or leaves
\* them alone.
LEMMA CollectSteps ==
    ASSUME [Next]_vars
    PROVE  [Collect!Next]_(Collect!vars)
<1> USE DEF dedupVars, collectVars, agentVars, historyVars
<1> DEFINE Alone == UNCHANGED collectVars
<1>1. ASSUME NEW r \in Request, Reject(r) \/ RegisterContext(r) PROVE Alone
  BY <1>1 DEF Reject, RegisterContext
<1>2. ASSUME NEW r \in Request, HandlerStep(r), ~EnqueueCollect(r) PROVE Alone
  BY <1>2 DEF HandlerStep, PassDedup, SuppressDuplicate, Publish, PublishFails,
              SignalInterrupt
<1>3. ASSUME NEW r \in Request, EnqueueCollect(r) PROVE Collect!Next
  <2>1. r \in Collecting /\ Collect!EnqueueCollect(r)
    BY <1>3 DEF EnqueueCollect
  <2>2. QED
    BY <2>1 DEF Collect!Next
<1>4. ASSUME FlushStarts PROVE Collect!Next
  BY <1>4 DEF FlushStarts, Collect!Next
<1>5. ASSUME NEW b \in taken, FlushPublishes(b) \/ FlushFails(b)
      PROVE  Collect!Next
  BY <1>5 DEF FlushPublishes, FlushFails, Collect!Next
<1>6. ASSUME NEW u \in User, AgentStep(u) PROVE Alone
  BY <1>6 DEF AgentStep, AgentReceives, AgentReports, AgentFailsSilently,
              AgentSettles
<1>7. ASSUME NEW u \in User,
             AgentToolErrors(u) \/ AgentCrashes(u) \/ ItemExpires(u)
             \/ AllowlistChanges(u)
      PROVE  Alone
  BY <1>7 DEF AgentToolErrors, AgentCrashes, ItemExpires, AllowlistChanges
<1>8. ASSUME DispatchStep \/ DispatchAckLost \/ ClockOrCleanup
             \/ UNCHANGED vars
      PROVE  Alone
  BY <1>8 DEF DispatchStep, Dispatch, DispatchFindsNothing, DispatchAckLost,
              ClockOrCleanup, vars
<1>9. ASSUME GatewayRestarts PROVE Collect!Next
  BY <1>9 DEF GatewayRestarts, Collect!Next
<1>10. Alone => UNCHANGED Collect!vars
  BY DEF Collect!vars
<1> HIDE DEF Alone
<1>11. QED
  BY <1>1, <1>2, <1>3, <1>4, <1>5, <1>6, <1>7, <1>8, <1>9, <1>10
     DEF Next, FlushStep

\* The gateway runs its collect buffers as CollectBuffer specifies them:
\* the router adds no access to them that the component does not know
\* (enqueueCollect, flushCollectBuffer), so whatever is proved of the
\* component holds inside the gateway.
THEOREM GatewayRunsCollectBuffers == Spec => Collect!Spec
<1>1. Init => Collect!Init
  BY DEF Init
<1>2. [Next]_vars => [Collect!Next]_(Collect!vars)
  BY CollectSteps
<1>3. QED
  BY <1>1, <1>2, PTL DEF Spec, Collect!Spec
-----------------------------------------------------------------------------
(***************************************************************************)
(* Types.  They are not inductive: the agent's answer is about the newest  *)
(* message of its item, so items must not be empty, and the queue may be   *)
(* one over its length only because an agent that gives an item back had   *)
(* taken it out.                                                           *)
(***************************************************************************)

\* A batch that a flush has taken, an item in an agent queue and the item
\* an agent works on hold at least one message.
ItemsHoldMessages ==
    /\ \A b \in taken : b.msgs # <<>>
    /\ \A u \in User : \A i \in DOMAIN userQueue[u] : userQueue[u][i] # <<>>
    /\ \A u \in User : run[u].phase # "idle" => run[u].item # <<>>

\* The queue of an agent that holds an item has room for it.
RoomForItem ==
    \A u \in User : run[u].phase # "idle" => Len(userQueue[u]) <= QueueCap

Types == TypeOK /\ ItemsHoldMessages /\ RoomForItem

\* The collect buffers keep their types (CollectBuffer's steps, inside the
\* gateway), and a flush takes no empty batch.
LEMMA CollectTypeStep ==
    ASSUME Collect!TypeOK, \A b \in taken : b.msgs # <<>>,
           [Collect!Next]_(Collect!vars)
    PROVE  Collect!TypeOK' /\ \A b \in taken' : b.msgs # <<>>
<1> USE GatewayAssumption DEF Collect!TypeOK
<1> DEFINE Goal == Collect!TypeOK' /\ \A b \in taken' : b.msgs # <<>>
<1>1. ASSUME NEW m \in Collecting, Collect!EnqueueCollect(m) PROVE Goal
  <2> DEFINE k == CollectKeyOf[m]
  <2>1. k \in CollectKey /\ Collect!CurrentGen(k) \in Nat
    BY DEF Collect!CurrentGen
  <2>2. buffers' \in [CollectKey -> Seq(Collecting)]
    BY <1>1, <2>1 DEF Collect!EnqueueCollect, Collect!AppendMsg
  <2>3. gen' \in [CollectKey -> Nat]
    BY <1>1, <2>1 DEF Collect!EnqueueCollect
  <2>4. flushers' \in [CollectKey -> Nat]
    <3>1. CASE flushers' = [flushers EXCEPT ![k] = @ + 1]
      BY <2>1, <3>1
    <3>2. CASE flushers' = flushers
      BY <3>2
    <3>3. QED
      BY <1>1, <3>1, <3>2 DEF Collect!EnqueueCollect
  <2>5. Collect!TimersWithBuffer(k) \subseteq CollectKey \X Nat
    BY <2>1 DEF Collect!TimersWithBuffer
  <2>6. armed' \subseteq CollectKey \X Nat
    BY <1>1, <2>5 DEF Collect!EnqueueCollect
  <2>7. QED
    BY <1>1, <2>2, <2>3, <2>4, <2>6 DEF Collect!EnqueueCollect
<1>2. ASSUME NEW t \in armed, Collect!TimerFires(t) PROVE Goal
  BY <1>2 DEF Collect!TimerFires
<1>3. ASSUME NEW k \in CollectKey, Collect!FlushFindsNothing(k) PROVE Goal
  BY <1>3 DEF Collect!FlushFindsNothing
<1>4. ASSUME NEW k \in CollectKey, Collect!FlushTakes(k) PROVE Goal
  <2>1. Collect!OpenBatch(k) \in Collect!Batch
    BY DEF Collect!OpenBatch, Collect!Batch
  <2>2. Collect!OpenBatch(k).msgs # <<>>
    BY <1>4 DEF Collect!OpenBatch, Collect!FlushTakes
  <2>3. QED
    BY <1>4, <2>1, <2>2 DEF Collect!FlushTakes
<1>5. ASSUME NEW b \in taken,
             Collect!PublishBatch(b) \/ Collect!PublishBatchFails(b)
      PROVE  Goal
  BY <1>5 DEF Collect!PublishBatch, Collect!PublishBatchFails
<1>6. ASSUME Collect!Restart PROVE Goal
  BY <1>6 DEF Collect!Restart, Collect!OpenBatch, Collect!Batch
<1>7. ASSUME UNCHANGED Collect!vars PROVE Goal
  BY <1>7 DEF Collect!vars
<1>8. QED
  BY <1>1, <1>2, <1>3, <1>4, <1>5, <1>6, <1>7 DEF Collect!Next

\* The session and the user of a request.
LEMMA RequestTypes ==
    ASSUME NEW r \in Request
    PROVE  Sess(r) \in Session /\ Usr(r) \in User
BY GatewayAssumption DEF Sess, Usr

\* The newest message of an item (the primary message of handleMessage).
LEMMA PrimaryType ==
    ASSUME NEW item \in Seq(Request), item # <<>>
    PROVE  Primary(item) \in Request
<1>1. Len(item) \in DOMAIN item
  OBVIOUS
<1>2. QED
  BY <1>1 DEF Primary

\* An item that is about to be published is one of requests.
LEMMA BatchIsItem ==
    ASSUME Types, NEW b \in taken
    PROVE  b.msgs \in Seq(Request) /\ b.msgs # <<>>
<1>1. b.msgs \in Seq(Collecting)
  BY DEF Types, TypeOK, Collect!TypeOK, Collect!Batch
<1>2. Collecting \subseteq Request
  BY GatewayAssumption
<1>3. QED
  BY <1>1, <1>2 DEF Types, ItemsHoldMessages

\* The sessions that publishing an item disturbs are sessions.
LEMMA DisturbedType ==
    ASSUME NEW item \in Seq(Request), item # <<>>, NEW rejected
    PROVE  Disturbed(item, rejected) \subseteq Session
<1>1. \A i \in DOMAIN item : Sess(item[i]) \in Session
  BY RequestTypes
<1>2. Sess(Primary(item)) \in Session
  BY PrimaryType, RequestTypes
<1>3. QED
  BY <1>1, <1>2 DEF Disturbed

\* What a publish does to the agent queues (PublishMessage, and the broker's
\* reject-publish).
LEMMA EnqueueTypes ==
    ASSUME Types, NEW item \in Seq(Request), item # <<>>, Enqueue(item),
           run' = run
    PROVE  /\ userQueue' \in [User -> Seq(Seq(Request))]
           /\ \A u \in User : Len(userQueue'[u]) <= QueueCap + 1
           /\ \A u \in User : \A i \in DOMAIN userQueue'[u] :
                userQueue'[u][i] # <<>>
           /\ RoomForItem'
           /\ skewed' \subseteq Session
<1> DEFINE u == Usr(Primary(item))
<1>1. u \in User
  BY PrimaryType, RequestTypes
<1>2. QueueCap \in Nat
  BY GatewayAssumption
<1>3. skewed' \subseteq Session
  BY DisturbedType DEF Enqueue, Types, TypeOK
<1>4. /\ userQueue \in [User -> Seq(Seq(Request))]
      /\ \A v \in User : Len(userQueue[v]) <= QueueCap + 1
      /\ \A v \in User : \A i \in DOMAIN userQueue[v] : userQueue[v][i] # <<>>
      /\ \A v \in User : run[v].phase # "idle" => Len(userQueue[v]) <= QueueCap
  BY DEF Types, TypeOK, ItemsHoldMessages, RoomForItem
<1>5. CASE userQueue' = userQueue
  BY <1>3, <1>4, <1>5 DEF RoomForItem
<1>6. CASE /\ Len(userQueue[u]) < QueueCap
           /\ userQueue' = [userQueue EXCEPT ![u] = Append(@, item)]
  <2> DEFINE q == Append(userQueue[u], item)
  <2>1. /\ q \in Seq(Seq(Request))
        /\ Len(q) <= QueueCap
        /\ \A i \in DOMAIN q : q[i] # <<>>
    <3>1. userQueue[u] \in Seq(Seq(Request))
      BY <1>1, <1>4
    <3>2. /\ q \in Seq(Seq(Request)) /\ Len(q) = Len(userQueue[u]) + 1
          /\ Len(userQueue[u]) \in Nat
          /\ \A i \in 1 .. Len(userQueue[u]) : q[i] = userQueue[u][i]
          /\ q[Len(userQueue[u]) + 1] = item
      BY <3>1, AppendProperties
    <3>3. Len(q) <= QueueCap
      BY <1>2, <1>6, <3>2
    <3>4. DOMAIN q = 1 .. Len(userQueue[u]) + 1
          /\ DOMAIN userQueue[u] = 1 .. Len(userQueue[u])
      BY <3>1, <3>2
    <3> HIDE DEF q
    <3>5. \A i \in DOMAIN q : q[i] # <<>>
      BY <1>1, <1>4, <3>2, <3>4, SMTT(40)
    <3>6. QED
      BY <3>2, <3>3, <3>5
  <2> HIDE DEF q
  <2>2. /\ userQueue'[u] = q
        /\ \A v \in User : v # u => userQueue'[v] = userQueue[v]
        /\ userQueue' = [userQueue EXCEPT ![u] = q]
    BY <1>1, <1>4, <1>6 DEF q
  <2> HIDE DEF u
  <2>3. userQueue' \in [User -> Seq(Seq(Request))]
    BY <1>1, <1>4, <2>1, <2>2
  <2>4. Len(q) \in Nat
    BY <2>1
  <2>5. \A v \in User : Len(userQueue'[v]) <= QueueCap + 1
    BY <1>2, <1>4, <2>1, <2>2, <2>4
  <2>6. QED
    BY <1>3, <1>4, <2>1, <2>2, <2>3, <2>5 DEF RoomForItem
<1>7. QED
  BY <1>5, <1>6 DEF Enqueue

\* What the types say about the agent queues and the agents' deliveries.
QueueTypes ==
    /\ userQueue \in [User -> Seq(Seq(Request))]
    /\ \A u \in User : Len(userQueue[u]) <= QueueCap + 1
    /\ run \in [User -> [item : Seq(Request), phase : Phase]]
    /\ \A u \in User : \A i \in DOMAIN userQueue[u] : userQueue[u][i] # <<>>
    /\ \A u \in User : run[u].phase # "idle" => run[u].item # <<>>
    /\ RoomForItem

\* The agent queues and the agents' deliveries keep their types: prefetch 1,
\* acknowledgement, redelivery, expiry.
LEMMA QueueTypeStep ==
    ASSUME Types, [Next]_vars
    PROVE  QueueTypes'
<1> USE DEF agentVars, historyVars
<1>1. QueueTypes
  BY DEF Types, TypeOK, ItemsHoldMessages, QueueTypes
<1>2. QueueCap \in Nat
  BY GatewayAssumption
<1>3. ASSUME NEW r \in Request, Publish(r) PROVE QueueTypes'
  <2>1. <<r>> \in Seq(Request) /\ <<r>> # <<>> /\ Enqueue(<<r>>) /\ run' = run
    BY <1>3 DEF Publish
  <2>2. QED
    BY <1>1, <2>1, EnqueueTypes DEF QueueTypes
<1>4. ASSUME NEW b \in taken, FlushPublishes(b) PROVE QueueTypes'
  <2>1. Enqueue(b.msgs) /\ run' = run
    BY <1>4 DEF FlushPublishes
  <2>2. QED
    BY <1>1, <2>1, BatchIsItem, EnqueueTypes DEF QueueTypes
<1>5. \A u \in User : /\ userQueue[u] \in Seq(Seq(Request))
                      /\ run[u] \in [item : Seq(Request), phase : Phase]
                      /\ Len(userQueue[u]) \in Nat
  BY <1>1 DEF QueueTypes
<1>6. ASSUME NEW u \in User, NEW q \in Seq(Seq(Request)), Len(q) <= QueueCap + 1,
             \A i \in DOMAIN q : q[i] # <<>>,
             NEW d \in [item : Seq(Request), phase : Phase],
             d.phase # "idle" => d.item # <<>> /\ Len(q) <= QueueCap,
             userQueue' = [userQueue EXCEPT ![u] = q],
             run' = [run EXCEPT ![u] = d]
      PROVE  QueueTypes'
  <2>1. /\ userQueue'[u] = q /\ run'[u] = d
        /\ \A v \in User : v # u =>
             userQueue'[v] = userQueue[v] /\ run'[v] = run[v]
    BY <1>1, <1>6 DEF QueueTypes
  <2>2. userQueue' \in [User -> Seq(Seq(Request))]
    BY <1>1, <1>6 DEF QueueTypes
  <2>3. run' \in [User -> [item : Seq(Request), phase : Phase]]
    BY <1>1, <1>6 DEF QueueTypes
  <2>4. QED
    BY <1>1, <1>6, <2>1, <2>2, <2>3 DEF QueueTypes, RoomForItem
<1>7. ASSUME NEW u \in User, userQueue[u] # <<>>
      PROVE  /\ Tail(userQueue[u]) \in Seq(Seq(Request))
             /\ Len(Tail(userQueue[u])) <= QueueCap
             /\ \A i \in DOMAIN Tail(userQueue[u]) : Tail(userQueue[u])[i] # <<>>
             /\ Head(userQueue[u]) \in Seq(Request)
             /\ Head(userQueue[u]) # <<>>
  <2> DEFINE q == userQueue[u]
  <2>1. q \in Seq(Seq(Request)) /\ q # <<>> /\ Len(q) \in Nat
    BY <1>5, <1>7
  <2>2. Len(q) <= QueueCap + 1 /\ \A i \in DOMAIN q : q[i] # <<>>
    BY <1>1 DEF QueueTypes
  <2> HIDE DEF q
  <2>3. /\ Tail(q) \in Seq(Seq(Request)) /\ Head(q) \in Seq(Request)
        /\ Len(Tail(q)) = Len(q) - 1 /\ Head(q) = q[1] /\ 1 \in DOMAIN q
        /\ DOMAIN Tail(q) = 1 .. Len(q) - 1
        /\ \A i \in 1 .. Len(q) - 1 : Tail(q)[i] = q[i + 1] /\ i + 1 \in DOMAIN q
    BY <2>1
  <2>4. QED
    BY <1>2, <2>1, <2>2, <2>3 DEF q
<1>8. ASSUME NEW u \in User, AgentReceives(u) PROVE QueueTypes'
  <2> DEFINE d == Running(Head(userQueue[u]), "working")
             q == Tail(userQueue[u])
  <2>1. /\ userQueue[u] # <<>>
        /\ userQueue' = [userQueue EXCEPT ![u] = q]
        /\ run' = [run EXCEPT ![u] = d]
    BY <1>8 DEF AgentReceives
  <2>2. /\ d \in [item : Seq(Request), phase : Phase]
        /\ d.item # <<>>
    BY <1>7, <2>1 DEF Running, Phase
  <2>3. /\ q \in Seq(Seq(Request)) /\ Len(q) <= QueueCap
        /\ \A i \in DOMAIN q : q[i] # <<>>
    BY <1>7, <2>1
  <2>4. Len(q) <= QueueCap + 1
    BY <1>2, <2>3
  <2> HIDE DEF d, q
  <2>5. QED
    BY <1>6, <2>1, <2>2, <2>3, <2>4
<1>9. ASSUME NEW u \in User, NEW d \in [item : Seq(Request), phase : Phase],
             d.phase # "idle" => d.item # <<>> /\ run[u].phase # "idle",
             run' = [run EXCEPT ![u] = d], userQueue' = userQueue
      PROVE  QueueTypes'
  <2>1. /\ run'[u] = d
        /\ \A v \in User : v # u => run'[v] = run[v]
    BY <1>1, <1>9 DEF QueueTypes
  <2>2. run' \in [User -> [item : Seq(Request), phase : Phase]]
    BY <1>1, <1>9 DEF QueueTypes
  <2>3. QED
    BY <1>1, <1>9, <2>1, <2>2 DEF QueueTypes, RoomForItem
<1>10. ASSUME NEW u \in User, AgentReports(u) \/ AgentFailsSilently(u)
       PROVE  QueueTypes'
  <2> DEFINE d == [run[u] EXCEPT !.phase = "reported"]
  <2>1. /\ run[u].phase = "working" /\ userQueue' = userQueue
        /\ run' = [run EXCEPT ![u] = d]
    BY <1>10 DEF AgentReports, AgentFailsSilently
  <2>2. /\ d \in [item : Seq(Request), phase : Phase]
        /\ d.item = run[u].item
    BY <1>5 DEF Phase
  <2>3. d.item # <<>>
    BY <1>1, <2>1, <2>2 DEF QueueTypes
  <2> HIDE DEF d
  <2>4. QED
    BY <1>9, <2>1, <2>2, <2>3
<1>11. ASSUME NEW u \in User, AgentSettles(u) PROVE QueueTypes'
  <2> DEFINE d == Running(Idle, "idle")
  <2>1. userQueue' = userQueue /\ run' = [run EXCEPT ![u] = d]
    BY <1>11 DEF AgentSettles
  <2>2. d \in [item : Seq(Request), phase : Phase] /\ d.phase = "idle"
    BY DEF Running, Idle, Phase
  <2> HIDE DEF d
  <2>3. QED
    BY <1>9, <2>1, <2>2
<1>12. ASSUME NEW u \in User, AgentCrashes(u) PROVE QueueTypes'
  <2> DEFINE d == Running(Idle, "idle")
             q == <<run[u].item>> \o userQueue[u]
  <2>1. /\ run[u].phase # "idle"
        /\ userQueue' = [userQueue EXCEPT ![u] = q]
        /\ run' = [run EXCEPT ![u] = d]
    BY <1>12 DEF AgentCrashes
  <2>2. d \in [item : Seq(Request), phase : Phase] /\ d.phase = "idle"
    BY DEF Running, Idle, Phase
  <2>3. /\ run[u].item \in Seq(Request) /\ run[u].item # <<>>
        /\ Len(userQueue[u]) <= QueueCap
    BY <1>1, <1>5, <2>1 DEF QueueTypes, RoomForItem
  <2>4. /\ q \in Seq(Seq(Request)) /\ Len(q) = Len(userQueue[u]) + 1
        /\ DOMAIN q = 1 .. Len(userQueue[u]) + 1
        /\ q[1] = run[u].item
        /\ \A i \in 2 .. Len(userQueue[u]) + 1 :
             q[i] = userQueue[u][i - 1] /\ i - 1 \in DOMAIN userQueue[u]
    BY <1>5, <2>3
  <2> HIDE DEF d, q
  <2>5. \A i \in DOMAIN q : q[i] # <<>>
    <3>1. \A i \in DOMAIN q : i = 1 \/ i \in 2 .. Len(userQueue[u]) + 1
      BY <1>5, <2>4
    <3>2. QED
      BY <1>1, <2>3, <2>4, <3>1 DEF QueueTypes
  <2>6. Len(q) <= QueueCap + 1
    BY <1>2, <1>5, <2>3, <2>4
  <2>7. QED
    BY <1>6, <2>1, <2>2, <2>4, <2>5, <2>6
<1>13. ASSUME NEW u \in User, ItemExpires(u) PROVE QueueTypes'
  <2> DEFINE q == Tail(userQueue[u])
  <2>1. /\ userQueue[u] # <<>>
        /\ userQueue' = [userQueue EXCEPT ![u] = q]
        /\ run' = run
    BY <1>13 DEF ItemExpires
  <2>2. /\ q \in Seq(Seq(Request)) /\ Len(q) <= QueueCap
        /\ \A i \in DOMAIN q : q[i] # <<>>
    BY <1>7, <2>1
  <2>3. Len(q) <= QueueCap + 1
    BY <1>2, <2>2
  <2>4. run' = [run EXCEPT ![u] = run[u]]
    BY <1>1, <2>1 DEF QueueTypes
  <2>5. run[u].phase # "idle" => run[u].item # <<>>
    BY <1>1 DEF QueueTypes
  <2> HIDE DEF q
  <2>6. QED
    BY <1>5, <1>6, <2>1, <2>2, <2>3, <2>4, <2>5
<1>14. ASSUME UNCHANGED <<userQueue, run>> PROVE QueueTypes'
  BY <1>1, <1>14 DEF QueueTypes, RoomForItem
<1>15. QED
  BY <1>3, <1>4, <1>8, <1>10, <1>11, <1>12, <1>13, <1>14, QueueSteps
     DEF AgentStep

\* What the types say about the dispatcher's side.
DispatchTypes ==
    /\ registry \in [Session -> Seq(Request)]
    /\ events \in Seq([session : Session, about : Request])
    /\ replies \in Seq(Reply)

\* The first element of a queue is one of its elements.
LEMMA HeadType ==
    ASSUME NEW S, NEW q \in Seq(S), q # <<>>
    PROVE  Head(q) \in S
OBVIOUS

\* What the dispatcher takes and whom it answers (HandleEvent).
LEMMA DeliverTypes ==
    ASSUME DispatchTypes, events # <<>>, Deliver(Head(events))
    PROVE  LET e == Head(events) IN
           /\ e \in [session : Session, about : Request]
           /\ registry[e.session] \in Seq(Request)
           /\ registry[e.session] # <<>>
           /\ Head(registry[e.session]) \in Request
           /\ registry' = [registry EXCEPT ![e.session] = Tail(@)]
           /\ replies' = Append(replies,
                [to |-> Head(registry[e.session]), about |-> e.about])
           /\ [to |-> Head(registry[e.session]), about |-> e.about] \in Reply
<1> DEFINE e == Head(events)
<1>1. e \in [session : Session, about : Request]
  BY HeadType DEF DispatchTypes
<1>2. e.session \in Session /\ e.about \in Request
  BY <1>1
<1>3. Deliver(e)
  OBVIOUS
<1> HIDE DEF e
<1>4. registry[e.session] \in Seq(Request) /\ registry[e.session] # <<>>
  BY <1>2, <1>3 DEF DispatchTypes, Deliver, Reg!Consume, Reg!Found
<1>5. Head(registry[e.session]) \in Request
  BY <1>4
<1>6. /\ registry' = [registry EXCEPT ![e.session] = Tail(@)]
      /\ replies' = Append(replies,
           [to |-> Head(registry[e.session]), about |-> e.about])
  BY <1>3 DEF Deliver, Reg!Consume, Reg!Lookup
<1>7. [to |-> Head(registry[e.session]), about |-> e.about] \in Reply
  BY <1>2, <1>5 DEF Reply
<1>8. QED
  BY <1>1, <1>4, <1>5, <1>6, <1>7 DEF e

\* Registry, events and answers keep their types.
LEMMA DispatchTypeStep ==
    ASSUME Types, [Next]_vars
    PROVE  DispatchTypes'
<1> USE DEF dedupVars, collectVars, agentVars, historyVars
<1>1. DispatchTypes
  BY DEF Types, TypeOK, DispatchTypes
<1>2. events' \in Seq([session : Session, about : Request])
  <2>1. ASSUME NEW u \in User, AgentPublishes(u)
        PROVE  events' \in Seq([session : Session, about : Request])
    <3> DEFINE r == Primary(run[u].item)
    <3>1. run[u].item \in Seq(Request) /\ run[u].item # <<>>
      BY <2>1 DEF AgentPublishes, AgentReports, AgentToolErrors, Types, TypeOK,
                  ItemsHoldMessages
    <3>2. r \in Request /\ Sess(r) \in Session
      BY <3>1, PrimaryType, RequestTypes
    <3>3. events' = Append(events, [session |-> Sess(r), about |-> r])
      BY <2>1 DEF AgentPublishes, AgentReports, AgentToolErrors
    <3> HIDE DEF r
    <3>4. QED
      BY <1>1, <3>2, <3>3 DEF DispatchTypes
  <2>2. ASSUME Dispatch \/ DispatchFindsNothing
        PROVE  events' \in Seq([session : Session, about : Request])
    <3>1. events # <<>> /\ events' = Tail(events)
      BY <2>2 DEF Dispatch, DispatchFindsNothing
    <3>2. QED
      BY <1>1, <3>1 DEF DispatchTypes
  <2>3. ASSUME UNCHANGED events
        PROVE  events' \in Seq([session : Session, about : Request])
    BY <1>1, <2>3 DEF DispatchTypes
  <2>4. QED
    BY <2>1, <2>2, <2>3, EventSteps
<1>3. registry' \in [Session -> Seq(Request)] /\ replies' \in Seq(Reply)
  <2> DEFINE Goal ==
        registry' \in [Session -> Seq(Request)] /\ replies' \in Seq(Reply)
  <2>1. ASSUME NEW r \in Request, RegisterContext(r) PROVE Goal
    BY <1>1, <2>1, RequestTypes DEF RegisterContext, Reg!Register, DispatchTypes
  <2>2. ASSUME Dispatch \/ DispatchAckLost PROVE Goal
    <3> DEFINE e == Head(events)
               rp == [to |-> Head(registry[e.session]), about |-> e.about]
               q == registry[e.session]
    <3>1. events # <<>> /\ Deliver(Head(events))
      BY <2>2 DEF Dispatch, DispatchAckLost
    <3>2. /\ q \in Seq(Request) /\ q # <<>>
          /\ registry' = [registry EXCEPT ![e.session] = Tail(@)]
          /\ replies' = Append(replies, rp) /\ rp \in Reply
      BY <1>1, <3>1, DeliverTypes
    <3>3. Tail(q) \in Seq(Request)
      BY <3>2
    <3>4. registry' = [registry EXCEPT ![e.session] = Tail(q)]
      BY <3>2
    <3> HIDE DEF rp, q, e
    <3>5. registry' \in [Session -> Seq(Request)]
      BY <1>1, <3>3, <3>4 DEF DispatchTypes
    <3>6. replies' \in Seq(Reply)
      BY <1>1, <3>2, AppendProperties DEF DispatchTypes
    <3>7. QED
      BY <3>5, <3>6
  <2>3. ASSUME GatewayRestarts PROVE Goal
    BY <1>1, <2>3 DEF GatewayRestarts, DispatchTypes
  <2>4. ASSUME UNCHANGED <<registry, replies>> PROVE Goal
    BY <1>1, <2>4 DEF DispatchTypes
  <2>5. QED
    BY <2>1, <2>2, <2>3, <2>4, RegistrySteps
<1>4. QED
  BY <1>2, <1>3 DEF DispatchTypes

\* What the types say about the handlers, the deduplicator and the history.
HandlerTypes ==
    /\ pc \in [Request -> Place]
    /\ allowed \subseteq User
    /\ now \in Nat
    /\ expiresAt \in [DedupKey -> Nat]
    /\ control \in [User -> Nat]
    /\ passedAt \in [DedupKey -> Nat]
    /\ skewed \subseteq Session
    /\ faults \in Nat

\* The handlers' program counters, the deduplicator, the control queue and
\* the history keep their types.
LEMMA HandlerTypeStep ==
    ASSUME Types, [Next]_vars
    PROVE  HandlerTypes'
<1> USE DEF dedupVars, collectVars, agentVars, historyVars
<1>1. HandlerTypes
  BY DEF Types, TypeOK, HandlerTypes
<1>2. DedupKeyOf \in [Msg -> DedupKey \cup {NoKey}] /\ Window \in Nat
  BY GatewayAssumption
<1> USE DEF HandlerTypes, Goto, Place, InHandler
<1>3. ASSUME NEW r \in Request, Reject(r) PROVE HandlerTypes'
  BY <1>1, <1>3 DEF Reject
<1>4. ASSUME NEW r \in Request, RegisterContext(r) PROVE HandlerTypes'
  BY <1>1, <1>4 DEF RegisterContext
<1>5. ASSUME NEW r \in Request, PassDedup(r) PROVE HandlerTypes'
  <2> DEFINE k == DedupKeyOf[MsgOf[r]]
  <2>1. k \in DedupKey \cup {NoKey}
    BY GatewayAssumption
  <2>2. /\ pc' = [pc EXCEPT ![r] = "accepted"]
        /\ UNCHANGED <<allowed, control, skewed, faults>>
    BY <1>5 DEF PassDedup
  <2>3. CASE k = NoKey
    BY <1>1, <1>5, <2>2, <2>3 DEF PassDedup
  <2>4. CASE k # NoKey
    <3>1. /\ expiresAt' = [expiresAt EXCEPT ![k] = now + Window] /\ now' = now
          /\ passedAt' = [passedAt EXCEPT ![k] = now]
      BY <1>5, <2>4 DEF PassDedup, Dedup!Fresh
    <3>2. k \in DedupKey /\ now + Window \in Nat
      BY <1>1, <1>2, <2>1, <2>4
    <3> HIDE DEF k
    <3>3. expiresAt' \in [DedupKey -> Nat] /\ passedAt' \in [DedupKey -> Nat]
      BY <1>1, <3>1, <3>2
    <3>4. pc' \in [Request -> Place]
      BY <1>1, <2>2
    <3>5. QED
      BY <1>1, <2>2, <3>1, <3>3, <3>4
  <2>5. QED
    BY <2>3, <2>4
<1>6. ASSUME NEW r \in Request, SuppressDuplicate(r) PROVE HandlerTypes'
  BY <1>1, <1>6, RequestTypes DEF SuppressDuplicate, Dedup!Duplicate
<1>7. ASSUME NEW r \in Request, Publish(r) PROVE HandlerTypes'
  <2>1. <<r>> \in Seq(Request) /\ <<r>> # <<>> /\ Enqueue(<<r>>) /\ run' = run
    BY <1>7 DEF Publish
  <2>2. skewed' \subseteq Session
    BY <2>1, EnqueueTypes
  <2>3. QED
    BY <1>1, <1>7, <2>2 DEF Publish
<1>8. ASSUME NEW r \in Request, PublishFails(r) PROVE HandlerTypes'
  BY <1>1, <1>8, RequestTypes DEF PublishFails
<1>9. ASSUME NEW r \in Request, SignalInterrupt(r) PROVE HandlerTypes'
  <2>1. control' \in [User -> Nat]
    BY <1>1, <1>9, RequestTypes DEF SignalInterrupt
  <2>2. QED
    BY <1>1, <1>9, <2>1 DEF SignalInterrupt
<1>10. ASSUME NEW r \in Request, EnqueueCollect(r) PROVE HandlerTypes'
  BY <1>1, <1>10 DEF EnqueueCollect
<1>11. ASSUME FlushStarts PROVE HandlerTypes'
  BY <1>1, <1>11 DEF FlushStarts
<1>12. ASSUME NEW b \in taken, FlushPublishes(b) PROVE HandlerTypes'
  <2>1. Enqueue(b.msgs) /\ run' = run
    BY <1>12 DEF FlushPublishes
  <2>2. skewed' \subseteq Session
    BY <2>1, BatchIsItem, EnqueueTypes
  <2>3. QED
    BY <1>1, <1>12, <2>2 DEF FlushPublishes
<1>13. ASSUME NEW b \in taken, FlushFails(b) PROVE HandlerTypes'
  <2>1. \A r \in Range(b.msgs) : Sess(r) \in Session
    BY BatchIsItem, RequestTypes DEF Range
  <2>2. QED
    BY <1>1, <1>13, <2>1 DEF FlushFails
<1>14. ASSUME NEW u \in User, AgentReceives(u) \/ AgentReports(u) \/ AgentSettles(u)
       PROVE  HandlerTypes'
  BY <1>1, <1>14 DEF AgentReceives, AgentReports, AgentSettles
<1>15. ASSUME NEW u \in User, run[u].phase # "idle"
       PROVE  Sess(Primary(run[u].item)) \in Session
  <2>1. run[u].item \in Seq(Request) /\ run[u].item # <<>>
    BY <1>15 DEF Types, TypeOK, ItemsHoldMessages
  <2>2. QED
    BY <2>1, PrimaryType, RequestTypes
<1>16. ASSUME NEW u \in User, AgentFailsSilently(u) PROVE HandlerTypes'
  BY <1>1, <1>15, <1>16 DEF AgentFailsSilently
<1>17. ASSUME NEW u \in User, AgentToolErrors(u) \/ AgentCrashes(u)
       PROVE  HandlerTypes'
  BY <1>1, <1>15, <1>17 DEF AgentToolErrors, AgentCrashes
<1>18. ASSUME NEW u \in User, ItemExpires(u) PROVE HandlerTypes'
  <2> DEFINE h == Head(userQueue[u])
  <2>1. userQueue[u] \in Seq(Seq(Request)) /\ userQueue[u] # <<>>
    BY <1>18 DEF ItemExpires, Types, TypeOK
  <2>2. h \in Seq(Request) /\ h # <<>>
    <3>1. h = userQueue[u][1] /\ 1 \in DOMAIN userQueue[u] /\ h \in Seq(Request)
      BY <2>1
    <3>2. QED
      BY <3>1 DEF Types, ItemsHoldMessages
  <2>3. Sess(Primary(h)) \in Session
    BY <2>2, PrimaryType, RequestTypes
  <2>4. QED
    BY <1>1, <1>18, <2>3 DEF ItemExpires
<1>19. ASSUME NEW u \in User, AllowlistChanges(u) PROVE HandlerTypes'
  BY <1>1, <1>19 DEF AllowlistChanges
<1>20. ASSUME DispatchStep PROVE HandlerTypes'
  BY <1>1, <1>20 DEF DispatchStep, Dispatch, DispatchFindsNothing
<1>21. ASSUME DispatchAckLost PROVE HandlerTypes'
  <2>1. Head(events) \in [session : Session, about : Request]
    BY <1>21, HeadType DEF DispatchAckLost, Types, TypeOK
  <2>2. Head(events).session \in Session
    BY <2>1
  <2>3. QED
    BY <1>1, <1>21, <2>2 DEF DispatchAckLost
<1>22. ASSUME GatewayRestarts PROVE HandlerTypes'
  BY <1>1, <1>22 DEF GatewayRestarts, Dedup!Forget
<1>23. ASSUME ClockOrCleanup PROVE HandlerTypes'
  BY <1>1, <1>23 DEF ClockOrCleanup, Dedup!Tick, Dedup!EvictExpired
<1>24. ASSUME UNCHANGED vars PROVE HandlerTypes'
  BY <1>1, <1>24 DEF vars
<1> HIDE DEF HandlerTypes
<1>25. QED
  BY <1>3, <1>4, <1>5, <1>6, <1>7, <1>8, <1>9, <1>10, <1>11, <1>12, <1>13,
     <1>14, <1>16, <1>17, <1>18, <1>19, <1>20, <1>21, <1>22, <1>23, <1>24
     DEF Next, HandlerStep, FlushStep, AgentStep

\* The types are an invariant, together with what they rest on.
LEMMA TypesInvariant == Spec => []Types
<1>1. Init => Types
  <2> SUFFICES ASSUME Init PROVE Types
    OBVIOUS
  <2> USE GatewayAssumption DEF Init
  <2>1. HandlerTypes
    BY DEF Dedup!DedupInit, HandlerTypes, Place
  <2>2. DispatchTypes
    BY DEF Reg!RegistryInit, DispatchTypes
  <2>3. QueueTypes
    <3>1. run \in [User -> [item : Seq(Request), phase : Phase]]
          /\ \A u \in User : run[u].phase = "idle"
      BY DEF Running, Idle, Phase
    <3>2. QED
      BY <3>1 DEF QueueTypes, RoomForItem
  <2>4. Collect!TypeOK /\ taken = {}
    BY DEF Collect!Init, Collect!TypeOK
  <2>5. QED
    BY <2>1, <2>2, <2>3, <2>4
       DEF HandlerTypes, DispatchTypes, QueueTypes, Types, TypeOK,
           ItemsHoldMessages
<1>2. Types /\ [Next]_vars => Types'
  <2> SUFFICES ASSUME Types, [Next]_vars PROVE Types'
    OBVIOUS
  <2>1. Collect!TypeOK' /\ \A b \in taken' : b.msgs # <<>>
    BY CollectSteps, CollectTypeStep DEF Types, TypeOK, ItemsHoldMessages
  <2>2. HandlerTypes' /\ DispatchTypes' /\ QueueTypes'
    BY HandlerTypeStep, DispatchTypeStep, QueueTypeStep
  <2>3. QED
    BY <2>1, <2>2 DEF HandlerTypes, DispatchTypes, QueueTypes, Types, TypeOK,
                      ItemsHoldMessages
<1>3. QED
  BY <1>1, <1>2, PTL DEF Spec

\* The gateway's variables keep their types, and no agent queue grows more
\* than one over its x-max-length.
THEOREM TypeCorrect == Spec => []TypeOK
<1>1. Types => TypeOK
  BY DEF Types
<1>2. QED
  BY <1>1, TypesInvariant, PTL
-----------------------------------------------------------------------------
(***************************************************************************)
(* Who is answered.                                                        *)
(***************************************************************************)

\* The registry files a context under the session of its request.
FiledUnderSession ==
    \A s \in Session : \A i \in DOMAIN registry[s] : Sess(registry[s][i]) = s

\* An event carries the session of the request it is about.
EventsNameSession ==
    \A i \in DOMAIN events : events[i].session = Sess(events[i].about)

\* What a registration, an answer and a restart do to one session's queue.
LEMMA RegistryEntries ==
    ASSUME Types, [Next]_vars, NEW s \in Session
    PROVE  \A i \in DOMAIN registry'[s] :
              \/ \E j \in DOMAIN registry[s] : registry'[s][i] = registry[s][j]
              \/ /\ s = Sess(registry'[s][i])
                 /\ RegisterContext(registry'[s][i])
                 /\ registry'[s][i] \in Request
<1> DEFINE Goal == \A i \in DOMAIN registry'[s] :
              \/ \E j \in DOMAIN registry[s] : registry'[s][i] = registry[s][j]
              \/ /\ s = Sess(registry'[s][i])
                 /\ RegisterContext(registry'[s][i])
                 /\ registry'[s][i] \in Request
<1>1. DispatchTypes
  BY DEF Types, TypeOK, DispatchTypes
<1>2. registry[s] \in Seq(Request)
  BY <1>1 DEF DispatchTypes
<1>3. ASSUME registry'[s] = registry[s] PROVE Goal
  BY <1>3
<1>4. ASSUME registry'[s] = Tail(registry[s]), registry[s] # <<>> PROVE Goal
  <2>1. \A i \in DOMAIN Tail(registry[s]) :
           i + 1 \in DOMAIN registry[s] /\ Tail(registry[s])[i] = registry[s][i + 1]
    BY <1>2, <1>4
  <2>2. QED
    BY <1>4, <2>1
<1>5. ASSUME NEW r \in Request, RegisterContext(r) PROVE Goal
  <2>1. registry' = [registry EXCEPT ![Sess(r)] = Append(@, r)]
    BY <1>5 DEF RegisterContext, Reg!Register
  <2>2. CASE s # Sess(r)
    <3>1. registry'[s] = registry[s]
      BY <1>1, <2>1, <2>2 DEF DispatchTypes
    <3>2. QED
      BY <1>3, <3>1
  <2>3. CASE s = Sess(r)
    <3>1. registry'[s] = Append(registry[s], r)
      BY <1>1, <2>1, <2>3 DEF DispatchTypes
    <3>2. /\ DOMAIN Append(registry[s], r) = 1 .. Len(registry[s]) + 1
          /\ DOMAIN registry[s] = 1 .. Len(registry[s])
          /\ Len(registry[s]) \in Nat
          /\ \A i \in 1 .. Len(registry[s]) :
               Append(registry[s], r)[i] = registry[s][i]
          /\ Append(registry[s], r)[Len(registry[s]) + 1] = r
      BY <1>2
    <3>3. \A i \in DOMAIN registry'[s] :
             \/ i \in DOMAIN registry[s] /\ registry'[s][i] = registry[s][i]
             \/ registry'[s][i] = r
      BY <3>1, <3>2
    <3>4. QED
      BY <1>5, <2>3, <3>3
  <2>4. QED
    BY <2>2, <2>3
<1>6. ASSUME Dispatch \/ DispatchAckLost PROVE Goal
  <2> DEFINE e == Head(events)
  <2>1. events # <<>> /\ Deliver(Head(events))
    BY <1>6 DEF Dispatch, DispatchAckLost
  <2>2. /\ registry[e.session] # <<>>
        /\ registry' = [registry EXCEPT ![e.session] = Tail(@)]
    BY <1>1, <2>1, DeliverTypes
  <2> HIDE DEF e
  <2>3. CASE s = e.session
    <3>1. registry'[s] = Tail(registry[s])
      BY <1>1, <2>2, <2>3 DEF DispatchTypes
    <3>2. QED
      BY <1>4, <2>2, <2>3, <3>1
  <2>4. CASE s # e.session
    <3>1. registry'[s] = registry[s]
      BY <1>1, <2>2, <2>4 DEF DispatchTypes
    <3>2. QED
      BY <1>3, <3>1
  <2>5. QED
    BY <2>3, <2>4
<1>7. ASSUME GatewayRestarts PROVE Goal
  <2>1. registry'[s] = <<>>
    BY <1>7 DEF GatewayRestarts
  <2>2. QED
    BY <2>1
<1>8. QED
  BY <1>3, <1>5, <1>6, <1>7, RegistrySteps

\* The answer that a dispatch adds, if it adds one.
LEMMA NewReply ==
    ASSUME Types, [Next]_vars, replies' # replies
    PROVE  LET e == Head(events)
               q == registry[e.session]
           IN  /\ Dispatch \/ DispatchAckLost
               /\ events # <<>>
               /\ e \in [session : Session, about : Request]
               /\ q \in Seq(Request) /\ q # <<>>
               /\ registry' = [registry EXCEPT ![e.session] = Tail(@)]
               /\ DOMAIN replies' = 1 .. Len(replies) + 1
               /\ \A i \in 1 .. Len(replies) : replies'[i] = replies[i]
               /\ replies'[Len(replies) + 1] = [to |-> q[1], about |-> e.about]
<1> USE DEF dedupVars, collectVars, agentVars, historyVars
<1>1. DispatchTypes
  BY DEF Types, TypeOK, DispatchTypes
<1>2. ASSUME NEW r \in Request, RegisterContext(r) PROVE replies' = replies
  BY <1>2 DEF RegisterContext
<1>3. ASSUME GatewayRestarts PROVE replies' = replies
  BY <1>3 DEF GatewayRestarts
<1>4. Dispatch \/ DispatchAckLost
  BY <1>2, <1>3, RegistrySteps
<1>5. events # <<>> /\ Deliver(Head(events))
  BY <1>4 DEF Dispatch, DispatchAckLost
<1> DEFINE e == Head(events)
           q == registry[e.session]
           rp == [to |-> Head(q), about |-> e.about]
<1>6. /\ e \in [session : Session, about : Request]
      /\ q \in Seq(Request) /\ q # <<>>
      /\ registry' = [registry EXCEPT ![e.session] = Tail(@)]
      /\ replies' = Append(replies, rp) /\ rp \in Reply
  BY <1>1, <1>5, DeliverTypes
<1>7. Head(q) = q[1]
  BY <1>6
<1> HIDE DEF rp
<1>8. /\ DOMAIN replies' = 1 .. Len(replies) + 1
      /\ \A i \in 1 .. Len(replies) : replies'[i] = replies[i]
      /\ replies'[Len(replies) + 1] = rp
  BY <1>1, <1>6, AppendProperties DEF DispatchTypes
<1>9. QED
  BY <1>4, <1>5, <1>6, <1>7, <1>8 DEF rp

\* Contexts, events and answers name the session they belong to.
NamesSession == FiledUnderSession /\ EventsNameSession /\ RepliesStayInSession

\* They do so in every state: a context is registered under the session of
\* its request, and an event is published under the session of the request
\* it is about (handleNormalizedMessage, PublishDone).
LEMMA NamesSessionInvariant == Spec => []NamesSession
<1> DEFINE Inv == FiledUnderSession /\ EventsNameSession /\ RepliesStayInSession
<1>1. Init => Inv
  BY DEF Init, Reg!RegistryInit, FiledUnderSession, EventsNameSession,
         RepliesStayInSession
<1>2. Types /\ Inv /\ [Next]_vars => Inv'
  <2> SUFFICES ASSUME Types, Inv, [Next]_vars PROVE Inv'
    OBVIOUS
  <2>1. DispatchTypes
    BY DEF Types, TypeOK, DispatchTypes
  <2>2. FiledUnderSession'
    BY RegistryEntries DEF FiledUnderSession
  <2>3. EventsNameSession'
    <3>1. ASSUME NEW u \in User, AgentPublishes(u) PROVE EventsNameSession'
      <4> DEFINE r == Primary(run[u].item)
                 ev == [session |-> Sess(r), about |-> r]
      <4>1. run[u].item \in Seq(Request) /\ run[u].item # <<>>
        BY <3>1 DEF AgentPublishes, AgentReports, AgentToolErrors, Types, TypeOK,
                    ItemsHoldMessages
      <4>2. r \in Request /\ Sess(r) \in Session
        BY <4>1, PrimaryType, RequestTypes
      <4>3. events' = Append(events, ev)
        BY <3>1 DEF AgentPublishes, AgentReports, AgentToolErrors
      <4> HIDE DEF r
      <4>4. /\ ev \in [session : Session, about : Request]
            /\ ev.session = Sess(ev.about)
        BY <4>2
      <4> HIDE DEF ev
      <4>5. /\ DOMAIN events' = 1 .. Len(events) + 1
            /\ DOMAIN events = 1 .. Len(events)
            /\ Len(events) \in Nat
            /\ \A i \in 1 .. Len(events) : events'[i] = events[i]
            /\ events'[Len(events) + 1] = ev
        BY <2>1, <4>3, <4>4, AppendProperties DEF DispatchTypes
      <4>6. ASSUME NEW i \in DOMAIN events'
            PROVE  events'[i].session = Sess(events'[i].about)
        <5>1. CASE i = Len(events) + 1
          BY <4>4, <4>5, <5>1
        <5>2. CASE i \in DOMAIN events
          BY <4>5, <5>2 DEF EventsNameSession
        <5>3. QED
          BY <4>5, <5>1, <5>2
      <4>7. QED
        BY <4>6 DEF EventsNameSession, Sess
    <3>2. ASSUME Dispatch \/ DispatchFindsNothing PROVE EventsNameSession'
      <4>1. events' = Tail(events) /\ events # <<>>
        BY <3>2 DEF Dispatch, DispatchFindsNothing
      <4>2. \A i \in DOMAIN events' :
               i + 1 \in DOMAIN events /\ events'[i] = events[i + 1]
        BY <2>1, <4>1 DEF DispatchTypes
      <4>3. QED
        BY <4>2 DEF EventsNameSession, Sess
    <3>3. ASSUME UNCHANGED events PROVE EventsNameSession'
      BY <3>3 DEF EventsNameSession, Sess
    <3>4. QED
      BY <3>1, <3>2, <3>3, EventSteps
  <2>4. RepliesStayInSession'
    <3>1. CASE replies' = replies
      BY <3>1 DEF RepliesStayInSession
    <3>2. CASE replies' # replies
      <4> DEFINE e == Head(events)
                 q == registry[e.session]
                 rp == [to |-> q[1], about |-> e.about]
      <4>1. /\ events # <<>>
            /\ e \in [session : Session, about : Request]
            /\ q \in Seq(Request) /\ q # <<>>
            /\ DOMAIN replies' = 1 .. Len(replies) + 1
            /\ \A i \in 1 .. Len(replies) : replies'[i] = replies[i]
            /\ replies'[Len(replies) + 1] = rp
        BY <3>2, NewReply
      <4>2. e.session \in Session /\ 1 \in DOMAIN q
        BY <4>1
      <4>3. Sess(q[1]) = e.session
        BY <4>2 DEF FiledUnderSession
      <4>4. e.session = Sess(e.about)
        <5>1. e = events[1] /\ 1 \in DOMAIN events
          BY <2>1, <4>1 DEF DispatchTypes
        <5>2. QED
          BY <5>1 DEF EventsNameSession
      <4>5. Sess(rp.to) = Sess(rp.about)
        BY <4>3, <4>4
      <4>6. DOMAIN replies = 1 .. Len(replies) /\ Len(replies) \in Nat
        BY <2>1 DEF DispatchTypes
      <4> HIDE DEF rp, e, q
      <4>7. ASSUME NEW i \in DOMAIN replies'
            PROVE  Sess(replies'[i].to) = Sess(replies'[i].about)
        <5>1. CASE i = Len(replies) + 1
          BY <4>1, <4>5, <5>1
        <5>2. CASE i \in 1 .. Len(replies)
          BY <4>1, <4>6, <5>2 DEF RepliesStayInSession, Sess
        <5>3. QED
          BY <4>1, <4>6, <5>1, <5>2
      <4>8. QED
        BY <4>7 DEF RepliesStayInSession, Sess
    <3>3. QED
      BY <3>1, <3>2
  <2>5. QED
    BY <2>2, <2>3, <2>4
<1>3. QED
  BY <1>1, <1>2, TypesInvariant, PTL DEF Spec, NamesSession

\* No answer of the dispatcher leaves its session: a context is registered
\* under the session of its request, an event names the session of the
\* request it is about, and HandleEvent joins the two by that key alone,
\* whatever is redelivered or lost in between.
THEOREM AnswersStayInSession == Spec => []RepliesStayInSession
<1>1. NamesSession => RepliesStayInSession
  BY DEF NamesSession
<1>2. QED
  BY <1>1, NamesSessionInvariant, PTL
-----------------------------------------------------------------------------
\* A handler does not start over: its request is not idle again.
LEMMA HandlersStartOnce ==
    ASSUME Types, [Next]_vars, NEW r \in Request, pc[r] # "idle"
    PROVE  pc'[r] # "idle"
<1> USE DEF dedupVars, collectVars, agentVars, historyVars
<1>1. pc \in [Request -> Place]
  BY DEF Types, TypeOK
<1>2. ASSUME NEW x \in Request, NEW f, NEW t, Goto(x, f, t), t # "idle"
      PROVE  pc'[r] # "idle"
  BY <1>1, <1>2 DEF Goto
<1>3. ASSUME UNCHANGED pc PROVE pc'[r] # "idle"
  BY <1>3
<1>4. ASSUME NEW x \in Request, Reject(x) \/ RegisterContext(x)
      PROVE  pc'[r] # "idle"
  BY <1>2, <1>4 DEF Reject, RegisterContext
<1>5. ASSUME NEW x \in Request, HandlerStep(x) PROVE pc'[r] # "idle"
  BY <1>2, <1>5 DEF HandlerStep, PassDedup, SuppressDuplicate, Publish,
                    PublishFails, SignalInterrupt, EnqueueCollect
<1>6. ASSUME FlushStep PROVE UNCHANGED pc
  BY <1>6 DEF FlushStep, FlushStarts, FlushPublishes, FlushFails
<1>7. ASSUME NEW u \in User, AgentStep(u) PROVE UNCHANGED pc
  BY <1>7 DEF AgentStep, AgentReceives, AgentReports, AgentFailsSilently,
              AgentSettles
<1>8. ASSUME NEW u \in User,
             AgentToolErrors(u) \/ AgentCrashes(u) \/ ItemExpires(u)
             \/ AllowlistChanges(u)
      PROVE  UNCHANGED pc
  BY <1>8 DEF AgentToolErrors, AgentCrashes, ItemExpires, AllowlistChanges
<1>9. ASSUME DispatchStep \/ DispatchAckLost \/ ClockOrCleanup
             \/ UNCHANGED vars
      PROVE  UNCHANGED pc
  BY <1>9 DEF DispatchStep, Dispatch, DispatchFindsNothing, DispatchAckLost,
              ClockOrCleanup, vars
<1>10. ASSUME GatewayRestarts PROVE pc'[r] # "idle"
  BY <1>1, <1>10 DEF GatewayRestarts
<1>11. QED
  BY <1>3, <1>4, <1>5, <1>6, <1>7, <1>8, <1>9, <1>10 DEF Next

\* A context is in the registry once.
RegisteredOnce == \A s \in Session : IsInjective(registry[s])

\* Registered and answered requests have started.
KnownHaveStarted ==
    /\ \A s \in Session : \A i \in DOMAIN registry[s] :
         pc[registry[s][i]] # "idle"
    /\ \A i \in DOMAIN replies : pc[replies[i].to] # "idle"

\* A context in the registry has not been answered.
RegisteredNotAnswered ==
    \A s \in Session : \A i \in DOMAIN registry[s], k \in DOMAIN replies :
        registry[s][i] # replies[k].to

\* Taking the front entry, or adding a context that is not there, keeps a
\* queue of contexts free of duplicates (Registry.Consume, Register).
LEMMA QueueStaysInjective ==
    ASSUME NEW q \in Seq(Request), IsInjective(q), NEW r \in Request
    PROVE  /\ q # <<>> => IsInjective(Tail(q))
           /\ (\A i \in DOMAIN q : q[i] # r) => IsInjective(Append(q, r))
<1>1. DOMAIN q = 1 .. Len(q) /\ Len(q) \in Nat
  OBVIOUS
<1>2. ASSUME q # <<>> PROVE IsInjective(Tail(q))
  <2>1. /\ DOMAIN Tail(q) = 1 .. Len(q) - 1
        /\ \A i \in 1 .. Len(q) - 1 :
             Tail(q)[i] = q[i + 1] /\ i + 1 \in DOMAIN q
    BY <1>2
  <2> SUFFICES ASSUME NEW i \in 1 .. Len(q) - 1, NEW j \in 1 .. Len(q) - 1,
                      Tail(q)[i] = Tail(q)[j]
               PROVE  i = j
    BY <2>1 DEF IsInjective
  <2>2. i + 1 = j + 1
    BY <2>1 DEF IsInjective
  <2>3. QED
    BY <2>2
<1>3. ASSUME \A i \in DOMAIN q : q[i] # r PROVE IsInjective(Append(q, r))
  <2> DEFINE t == Append(q, r)
  <2>1. /\ DOMAIN t = 1 .. Len(q) + 1
        /\ t[Len(q) + 1] = r
        /\ \A i \in 1 .. Len(q) : t[i] = q[i]
    OBVIOUS
  <2> HIDE DEF t
  <2>2. IsInjective(t)
    BY <1>1, <1>3, <2>1 DEF IsInjective
  <2>3. QED
    BY <2>2 DEF t
<1>4. QED
  BY <1>2, <1>3

\* No step of the gateway registers a context a second time.
LEMMA RegisteredOnceStep ==
    ASSUME Types, RegisteredOnce, KnownHaveStarted, [Next]_vars
    PROVE  RegisteredOnce'
<1> USE DEF RegisteredOnce
<1>1. DispatchTypes
  BY DEF Types, TypeOK, DispatchTypes
<1>2. \A s \in Session : registry[s] \in Seq(Request)
  BY <1>1 DEF DispatchTypes
<1>3. ASSUME NEW r \in Request, RegisterContext(r) PROVE RegisteredOnce'
  <2>1. /\ registry' = [registry EXCEPT ![Sess(r)] = Append(@, r)]
        /\ pc[r] = "idle"
    BY <1>3 DEF RegisterContext, Reg!Register, Goto
  <2>2. Sess(r) \in Session
    BY RequestTypes
  <2>3. \A i \in DOMAIN registry[Sess(r)] : registry[Sess(r)][i] # r
    BY <2>1, <2>2 DEF KnownHaveStarted
  <2>4. IsInjective(Append(registry[Sess(r)], r))
    BY <1>2, <2>2, <2>3, QueueStaysInjective
  <2>5. \A s \in Session : registry'[s] =
          IF s = Sess(r) THEN Append(registry[Sess(r)], r) ELSE registry[s]
    BY <1>1, <2>1 DEF DispatchTypes
  <2>6. QED
    BY <2>4, <2>5
<1>4. ASSUME Dispatch \/ DispatchAckLost PROVE RegisteredOnce'
  <2> DEFINE e == Head(events)
  <2>1. events # <<>> /\ Deliver(Head(events))
    BY <1>4 DEF Dispatch, DispatchAckLost
  <2>2. /\ e \in [session : Session, about : Request]
        /\ registry[e.session] \in Seq(Request)
        /\ registry[e.session] # <<>>
        /\ Head(registry[e.session]) \in Request
        /\ registry' = [registry EXCEPT ![e.session] = Tail(@)]
    BY <1>1, <2>1, DeliverTypes
  <2> HIDE DEF e
  <2>3. e.session \in Session
    BY <2>2
  <2>4. IsInjective(Tail(registry[e.session]))
    BY <2>2, <2>3, QueueStaysInjective
  <2>5. \A s \in Session : registry'[s] =
          IF s = e.session THEN Tail(registry[e.session]) ELSE registry[s]
    BY <1>1, <2>2 DEF DispatchTypes
  <2>6. QED
    BY <2>4, <2>5
<1>5. ASSUME GatewayRestarts PROVE RegisteredOnce'
  BY <1>5 DEF GatewayRestarts, IsInjective
<1>6. ASSUME UNCHANGED <<registry, replies>> PROVE RegisteredOnce'
  BY <1>6
<1>7. QED
  BY <1>3, <1>4, <1>5, <1>6, RegistrySteps

\* Registered and answered requests have started, after any step.
LEMMA KnownHaveStartedStep ==
    ASSUME Types, KnownHaveStarted, [Next]_vars
    PROVE  KnownHaveStarted'
<1>1. DispatchTypes
  BY DEF Types, TypeOK, DispatchTypes
<1>2. ASSUME NEW s \in Session, NEW i \in DOMAIN registry'[s]
      PROVE  pc'[registry'[s][i]] # "idle"
  <2>1. CASE \E j \in DOMAIN registry[s] : registry'[s][i] = registry[s][j]
    <3>1. PICK j \in DOMAIN registry[s] : registry'[s][i] = registry[s][j]
      BY <2>1
    <3>2. registry[s][j] \in Request
      BY <1>1, <3>1 DEF DispatchTypes
    <3>3. QED
      BY <3>1, <3>2, HandlersStartOnce DEF KnownHaveStarted
  <2>2. CASE RegisterContext(registry'[s][i]) /\ registry'[s][i] \in Request
    <3> DEFINE r == registry'[s][i]
    <3>1. r \in Request /\ pc' = [pc EXCEPT ![r] = "registered"]
      BY <2>2 DEF RegisterContext, Goto
    <3> HIDE DEF r
    <3>2. pc'[r] = "registered"
      BY <3>1 DEF Types, TypeOK
    <3>3. QED
      BY <3>2 DEF r
  <2>3. QED
    BY <2>1, <2>2, RegistryEntries
<1>3. ASSUME NEW i \in DOMAIN replies' PROVE pc'[replies'[i].to] # "idle"
  <2>1. DOMAIN replies = 1 .. Len(replies) /\ Len(replies) \in Nat
        /\ \A j \in DOMAIN replies : replies[j].to \in Request
    <3>1. /\ DOMAIN replies = 1 .. Len(replies) /\ Len(replies) \in Nat
          /\ \A j \in DOMAIN replies : replies[j] \in Reply
      BY <1>1 DEF DispatchTypes
    <3>2. \A rp \in Reply : rp.to \in Request
      BY DEF Reply
    <3>3. QED
      BY <3>1, <3>2
  <2>2. \A j \in DOMAIN replies : pc'[replies[j].to] # "idle"
    BY <2>1, HandlersStartOnce DEF KnownHaveStarted
  <2>3. CASE replies' = replies
    BY <2>2, <2>3
  <2>4. CASE replies' # replies
    <3> DEFINE e == Head(events)
               q == registry[e.session]
    <3>1. /\ e \in [session : Session, about : Request]
          /\ q \in Seq(Request) /\ q # <<>>
          /\ DOMAIN replies' = 1 .. Len(replies) + 1
          /\ \A j \in 1 .. Len(replies) : replies'[j] = replies[j]
          /\ replies'[Len(replies) + 1].to = q[1]
      BY <2>4, NewReply
    <3>2. e.session \in Session /\ 1 \in DOMAIN q /\ q[1] \in Request
      BY <3>1
    <3>3. pc[q[1]] # "idle"
      BY <3>2 DEF KnownHaveStarted
    <3>4. pc'[q[1]] # "idle"
      BY <3>2, <3>3, HandlersStartOnce
    <3>5. CASE i = Len(replies) + 1
      BY <3>1, <3>4, <3>5
    <3>6. CASE i \in 1 .. Len(replies)
      BY <2>1, <2>2, <3>1, <3>6
    <3>7. QED
      BY <2>1, <3>1, <3>5, <3>6
  <2>5. QED
    BY <2>3, <2>4
<1>4. QED
  BY <1>2, <1>3 DEF KnownHaveStarted

\* A context is in one place: once in the registry, or once among the
\* answered.
ContextsAreOnce ==
    /\ FiledUnderSession /\ RegisteredOnce /\ KnownHaveStarted
    /\ RegisteredNotAnswered /\ OneReplyPerContext

\* It is so in every state (Registry.Register, Consume).
LEMMA ContextsAreOnceInvariant == Spec => []ContextsAreOnce
<1> DEFINE Inv == /\ FiledUnderSession /\ RegisteredOnce /\ KnownHaveStarted
                  /\ RegisteredNotAnswered /\ OneReplyPerContext
<1>1. Init => Inv
  <2>1. IsInjective(<<>>)
    BY DEF IsInjective
  <2>2. QED
    BY <2>1 DEF Init, Reg!RegistryInit, FiledUnderSession, RegisteredOnce,
                KnownHaveStarted, RegisteredNotAnswered, OneReplyPerContext
<1>2. Types /\ Inv /\ [Next]_vars => Inv'
  <2> SUFFICES ASSUME Types, Inv, [Next]_vars PROVE Inv'
    OBVIOUS
  <2>1. DispatchTypes
    BY DEF Types, TypeOK, DispatchTypes
  <2>2. FiledUnderSession' /\ RegisteredOnce' /\ KnownHaveStarted'
    BY RegistryEntries, RegisteredOnceStep, KnownHaveStartedStep
       DEF FiledUnderSession
  <2>3. DOMAIN replies = 1 .. Len(replies) /\ Len(replies) \in Nat
    BY <2>1 DEF DispatchTypes
  <2>4. \A s \in Session : \A i \in DOMAIN registry'[s], k \in DOMAIN replies :
            registry'[s][i] # replies[k].to
    <3> SUFFICES ASSUME NEW s \in Session, NEW i \in DOMAIN registry'[s],
                        NEW k \in DOMAIN replies,
                        registry'[s][i] = replies[k].to
                 PROVE  FALSE
      OBVIOUS
    <3>1. CASE \E j \in DOMAIN registry[s] : registry'[s][i] = registry[s][j]
      BY <3>1 DEF RegisteredNotAnswered
    <3>2. CASE RegisterContext(registry'[s][i])
      <4>1. pc[registry'[s][i]] = "idle"
        BY <3>2 DEF RegisterContext, Goto
      <4>2. QED
        BY <4>1 DEF KnownHaveStarted
    <3>3. QED
      BY <3>1, <3>2, RegistryEntries
  <2>5. CASE replies' = replies
    BY <2>2, <2>4, <2>5 DEF RegisteredNotAnswered, OneReplyPerContext
  <2>6. CASE replies' # replies
    <3> DEFINE e == Head(events)
               q == registry[e.session]
    <3>1. /\ e \in [session : Session, about : Request]
          /\ q \in Seq(Request) /\ q # <<>>
          /\ registry' = [registry EXCEPT ![e.session] = Tail(@)]
          /\ DOMAIN replies' = 1 .. Len(replies) + 1
          /\ \A j \in 1 .. Len(replies) : replies'[j] = replies[j]
          /\ replies'[Len(replies) + 1].to = q[1]
      BY <2>6, NewReply
    <3>2. e.session \in Session /\ 1 \in DOMAIN q
      BY <3>1
    <3>3. \A k \in DOMAIN replies : q[1] # replies[k].to
      BY <3>2 DEF RegisteredNotAnswered
    <3>4. OneReplyPerContext'
      <4> HIDE DEF e, q
      <4> SUFFICES ASSUME NEW i \in DOMAIN replies', NEW j \in DOMAIN replies',
                          replies'[i].to = replies'[j].to
                   PROVE  i = j
        BY DEF OneReplyPerContext
      <4>1. CASE i \in DOMAIN replies /\ j \in DOMAIN replies
        BY <2>3, <3>1, <4>1 DEF OneReplyPerContext
      <4>2. CASE i \notin DOMAIN replies \/ j \notin DOMAIN replies
        BY <2>3, <3>1, <3>3, <4>2
      <4>3. QED
        BY <4>1, <4>2
    <3>5. \A s \in Session : \A i \in DOMAIN registry'[s] :
             registry'[s][i] # q[1]
      <4> SUFFICES ASSUME NEW s \in Session, NEW i \in DOMAIN registry'[s],
                          registry'[s][i] = q[1]
                   PROVE  FALSE
        OBVIOUS
      <4>1. CASE s = e.session
        <5>1. registry'[s] = Tail(q)
          BY <2>1, <3>1, <4>1 DEF DispatchTypes
        <5>2. IsInjective(q)
          BY <3>2 DEF RegisteredOnce
        <5> HIDE DEF q
        <5>3. i + 1 \in DOMAIN q /\ Tail(q)[i] = q[i + 1] /\ i + 1 # 1
          BY <3>1, <5>1
        <5>4. QED
          BY <3>2, <5>1, <5>2, <5>3 DEF IsInjective
      <4>2. CASE s # e.session
        <5>1. registry'[s] = registry[s]
          BY <2>1, <3>1, <4>2 DEF DispatchTypes
        <5>2. Sess(registry[s][i]) = s /\ Sess(q[1]) = e.session
          BY <3>2, <5>1 DEF FiledUnderSession
        <5>3. QED
          BY <4>2, <5>1, <5>2
      <4>3. QED
        BY <4>1, <4>2
    <3>6. RegisteredNotAnswered'
      <4> HIDE DEF e, q
      <4> SUFFICES ASSUME NEW s \in Session, NEW i \in DOMAIN registry'[s],
                          NEW k \in DOMAIN replies'
                   PROVE  registry'[s][i] # replies'[k].to
        BY DEF RegisteredNotAnswered
      <4>1. CASE k \in DOMAIN replies
        BY <2>3, <2>4, <3>1, <4>1
      <4>2. CASE k = Len(replies) + 1
        BY <3>1, <3>5, <4>2
      <4>3. QED
        BY <2>3, <3>1, <4>1, <4>2
    <3>7. QED
      BY <2>2, <3>4, <3>6
  <2>7. QED
    BY <2>5, <2>6
<1>3. QED
  BY <1>1, <1>2, TypesInvariant, PTL DEF Spec, ContextsAreOnce

\* One inbound request gets at most one final response, whatever agent
\* items or events are redelivered: its context is registered once, the
\* dispatcher's Consume takes it out of the registry with the answer, and
\* nothing puts it back.
THEOREM AnsweredAtMostOnce == Spec => []OneReplyPerContext
<1>1. ContextsAreOnce => OneReplyPerContext
  BY DEF ContextsAreOnce
<1>2. QED
  BY <1>1, ContextsAreOnceInvariant, PTL
-----------------------------------------------------------------------------
\* The deduplicator's entry for a key that passed stands until its window
\* is over: it is there, or the cleanup removed it after it had expired.
EntryOutlastsWindow ==
    \A k \in DedupKey : passedAt[k] # 0 =>
        \/ expiresAt[k] = passedAt[k] + Window
        \/ now >= passedAt[k] + Window

\* No step of the gateway ends a window early: not a second message, not
\* the cleanup goroutine, not the clock; a restart forgets entry and history.
LEMMA WindowStep ==
    ASSUME Types, EntryOutlastsWindow, [Next]_vars
    PROVE  EntryOutlastsWindow'
<1> USE DEF dedupVars, collectVars, agentVars, historyVars
<1>1. /\ now \in Nat /\ Window \in Nat
      /\ expiresAt \in [DedupKey -> Nat] /\ passedAt \in [DedupKey -> Nat]
  BY GatewayAssumption DEF Types, TypeOK
<1>2. ASSUME UNCHANGED <<now, expiresAt, passedAt>> PROVE EntryOutlastsWindow'
  BY <1>2 DEF EntryOutlastsWindow
<1>3. ASSUME NEW r \in Request, PassDedup(r) PROVE EntryOutlastsWindow'
  <2> DEFINE k == DedupKeyOf[MsgOf[r]]
  <2>1. CASE k = NoKey
    BY <1>2, <1>3, <2>1 DEF PassDedup
  <2>2. CASE k # NoKey
    <3>1. /\ expiresAt' = [expiresAt EXCEPT ![k] = now + Window]
          /\ passedAt' = [passedAt EXCEPT ![k] = now] /\ now' = now
      BY <1>3, <2>2 DEF PassDedup, Dedup!Fresh
    <3> HIDE DEF k
    <3>2. QED
      BY <1>1, <3>1 DEF EntryOutlastsWindow
  <2>3. QED
    BY <2>1, <2>2
<1>4. ASSUME ClockOrCleanup PROVE EntryOutlastsWindow'
  <2>1. passedAt' = passedAt
    BY <1>4 DEF ClockOrCleanup
  <2>2. CASE Dedup!Tick
    BY <1>1, <2>1, <2>2 DEF Dedup!Tick, EntryOutlastsWindow
  <2>3. CASE Dedup!EvictExpired
    BY <1>1, <2>1, <2>3 DEF Dedup!EvictExpired, EntryOutlastsWindow
  <2>4. QED
    BY <1>4, <2>2, <2>3 DEF ClockOrCleanup
<1>5. ASSUME GatewayRestarts PROVE EntryOutlastsWindow'
  BY <1>5 DEF GatewayRestarts, EntryOutlastsWindow
<1> DEFINE Same == UNCHANGED <<now, expiresAt, passedAt>>
<1>6. ASSUME NEW r \in Request, Reject(r) \/ RegisterContext(r) PROVE Same
  BY <1>6 DEF Reject, RegisterContext
<1>7. ASSUME NEW r \in Request, HandlerStep(r), ~PassDedup(r) PROVE Same
  BY <1>7 DEF HandlerStep, SuppressDuplicate, Dedup!Duplicate, Publish,
              PublishFails, SignalInterrupt, EnqueueCollect
<1>8. ASSUME FlushStep PROVE Same
  BY <1>8 DEF FlushStep, FlushStarts, FlushPublishes, FlushFails
<1>9. ASSUME NEW u \in User, AgentStep(u) PROVE Same
  BY <1>9 DEF AgentStep, AgentReceives, AgentReports, AgentFailsSilently,
              AgentSettles
<1>10. ASSUME NEW u \in User,
              AgentToolErrors(u) \/ AgentCrashes(u) \/ ItemExpires(u)
              \/ AllowlistChanges(u)
       PROVE  Same
  BY <1>10 DEF AgentToolErrors, AgentCrashes, ItemExpires, AllowlistChanges
<1>11. ASSUME DispatchStep \/ DispatchAckLost \/ UNCHANGED vars PROVE Same
  BY <1>11 DEF DispatchStep, Dispatch, DispatchFindsNothing, DispatchAckLost,
               vars
<1>12. QED
  BY <1>2, <1>3, <1>4, <1>5, <1>6, <1>7, <1>8, <1>9, <1>10, <1>11 DEF Next

\* Only the deduplicator lets a handler go on from its registration.
LEMMA AcceptedByDedup ==
    ASSUME Types, [Next]_vars, NEW r \in Request,
           pc[r] = "registered", pc'[r] = "accepted"
    PROVE  PassDedup(r)
<1> USE DEF dedupVars, collectVars, agentVars, historyVars
<1>1. pc \in [Request -> Place]
  BY DEF Types, TypeOK
<1>2. ASSUME UNCHANGED pc PROVE FALSE
  BY <1>2
<1>3. ASSUME NEW x \in Request, NEW f, NEW t, Goto(x, f, t), t # "accepted"
      PROVE  FALSE
  BY <1>1, <1>3 DEF Goto
<1>4. ASSUME NEW x \in Request, Reject(x) \/ RegisterContext(x) PROVE FALSE
  BY <1>3, <1>4 DEF Reject, RegisterContext
<1>5. ASSUME NEW x \in Request, HandlerStep(x), ~PassDedup(x) PROVE FALSE
  BY <1>3, <1>5 DEF HandlerStep, SuppressDuplicate, Publish, PublishFails,
                    SignalInterrupt, EnqueueCollect
<1>6. ASSUME NEW x \in Request, PassDedup(x), x # r PROVE FALSE
  BY <1>1, <1>6 DEF PassDedup, Goto
<1>7. ASSUME FlushStep PROVE UNCHANGED pc
  BY <1>7 DEF FlushStep, FlushStarts, FlushPublishes, FlushFails
<1>8. ASSUME NEW u \in User, AgentStep(u) PROVE UNCHANGED pc
  BY <1>8 DEF AgentStep, AgentReceives, AgentReports, AgentFailsSilently,
              AgentSettles
<1>9. ASSUME NEW u \in User,
             AgentToolErrors(u) \/ AgentCrashes(u) \/ ItemExpires(u)
             \/ AllowlistChanges(u)
      PROVE  UNCHANGED pc
  BY <1>9 DEF AgentToolErrors, AgentCrashes, ItemExpires, AllowlistChanges
<1>10. ASSUME DispatchStep \/ DispatchAckLost \/ ClockOrCleanup
              \/ UNCHANGED vars
       PROVE  UNCHANGED pc
  BY <1>10 DEF DispatchStep, Dispatch, DispatchFindsNothing, DispatchAckLost,
               ClockOrCleanup, vars
<1>11. ASSUME GatewayRestarts PROVE FALSE
  BY <1>1, <1>11 DEF GatewayRestarts, InHandler
<1>12. QED
  BY <1>2, <1>4, <1>5, <1>6, <1>7, <1>8, <1>9, <1>10, <1>11 DEF Next

\* While the gateway process lives, messages with one dedup key pass
\* IsDuplicate at most once per window: between the check and the expiry of
\* its entry no interleaving of handlers, cleanup and clock opens a gap.
THEOREM OnePassPerWindow == Spec => OncePerWindow
<1> DEFINE Act == \A r \in Request :
                    LET k == DedupKeyOf[MsgOf[r]] IN
                    (pc[r] = "registered" /\ pc'[r] = "accepted" /\ k # NoKey)
                    => passedAt[k] = 0 \/ now >= passedAt[k] + Window
<1>1. Init => EntryOutlastsWindow
  BY DEF Init, EntryOutlastsWindow
<1>2. Types /\ EntryOutlastsWindow /\ [Next]_vars => EntryOutlastsWindow'
  BY WindowStep
<1>3. Types /\ EntryOutlastsWindow /\ [Next]_vars => Act
  <2> SUFFICES ASSUME Types, EntryOutlastsWindow, [Next]_vars,
                      NEW r \in Request,
                      pc[r] = "registered", pc'[r] = "accepted",
                      DedupKeyOf[MsgOf[r]] # NoKey
               PROVE  \/ passedAt[DedupKeyOf[MsgOf[r]]] = 0
                      \/ now >= passedAt[DedupKeyOf[MsgOf[r]]] + Window
    OBVIOUS
  <2> DEFINE k == DedupKeyOf[MsgOf[r]]
  <2>1. k \in DedupKey
    BY GatewayAssumption
  <2>2. PassDedup(r)
    BY AcceptedByDedup
  <2>3. ~(now < expiresAt[k])
    BY <2>2 DEF PassDedup, Dedup!Fresh, Dedup!Seen
  <2>4. /\ now \in Nat /\ Window \in Nat
        /\ expiresAt[k] \in Nat /\ passedAt[k] \in Nat
    BY <2>1, GatewayAssumption DEF Types, TypeOK
  <2> HIDE DEF k
  <2>5. passedAt[k] = 0 \/ now >= passedAt[k] + Window
    BY <2>1, <2>3, <2>4 DEF EntryOutlastsWindow
  <2>6. QED
    BY <2>5 DEF k
<1>4. QED
  BY <1>1, <1>2, <1>3, TypesInvariant, PTL DEF Spec, OncePerWindow

-----------------------------------------------------------------------------

(***************************************************************************)
(* Induction, and the requests of one session in a sequence.               *)
(***************************************************************************)

\* A set of numbers that is not empty has a least one.
LEMMA LeastOne ==
  ASSUME NEW S, S \subseteq Nat, S # {}
  PROVE  \E x \in S : \A y \in S : x <= y
<1> DEFINE R == OpToRel(<, Nat)
<1>1. PICK x \in S : \A y \in S : ~(<<y, x>> \in R)
  BY WFMin, NatLessThanWellFounded
<1>2. \A a, b \in Nat : <<b, a>> \in R <=> b < a
  BY DEF OpToRel
<1> HIDE DEF R
<1>3. ASSUME NEW y \in S PROVE x <= y
  <2>1. x \in Nat /\ y \in Nat /\ ~(y < x)
    BY <1>1, <1>2
  <2>2. QED
    BY <2>1
<1>4. QED
  BY <1>3

\* Induction up to n, on a set of numbers.
LEMMA UpTo ==
  ASSUME NEW n \in Nat, NEW T, 0 \in T, \A i \in 1 .. n : i - 1 \in T => i \in T
  PROVE  0 .. n \subseteq T
<1> DEFINE Bad == (0 .. n) \ T
<1>1. SUFFICES ASSUME Bad # {} PROVE FALSE
  OBVIOUS
<1>2. Bad \subseteq Nat
  OBVIOUS
<1> HIDE DEF Bad
<1>3. PICK m \in Bad : \A y \in Bad : m <= y
  BY <1>1, <1>2, LeastOne
<1>4. m \in 1 .. n /\ m \notin T /\ m - 1 \in 0 .. n /\ ~(m <= m - 1)
  BY <1>3 DEF Bad
<1>5. m - 1 \in T
  BY <1>3, <1>4 DEF Bad
<1>6. QED
  BY <1>4, <1>5

\* What one more request adds.
Kept(s, r, before) == IF Sess(r) = s THEN Append(before, r) ELSE before

\* f collects the requests of s among the first n of q.
Picks(f, s, q, n) ==
    /\ f \in [0 .. n -> Seq(Request)]
    /\ f[0] = <<>>
    /\ \A i \in 1 .. n : f[i] = Kept(s, q[i], f[i - 1])

\* There is such an f.
LEMMA PicksExist ==
  ASSUME NEW s, NEW q \in Seq(Request)
  PROVE  \E f : Picks(f, s, q, Len(q))
<1> DEFINE T == {m \in 0 .. Len(q) : \E f : Picks(f, s, q, m)}
<1>1. 0 \in T
  <2> DEFINE f == [i \in 0 .. 0 |-> <<>>]
  <2>1. Picks(f, s, q, 0)
    BY DEF Picks
  <2> HIDE DEF f
  <2>2. QED
    BY <2>1
<1>2. ASSUME NEW m \in 1 .. Len(q), m - 1 \in T PROVE m \in T
  <2> DEFINE k == m - 1
  <2>1. k \in Nat /\ m \in Nat /\ m = k + 1 /\ m \in 0 .. Len(q) /\ q[m] \in Request
    OBVIOUS
  <2>2. PICK f : Picks(f, s, q, k)
    BY <1>2
  <2> HIDE DEF k
  <2> DEFINE last == Kept(s, q[m], f[k])
             e == [i \in 0 .. m |-> IF i = m THEN last ELSE f[i]]
  <2>3. last \in Seq(Request)
    BY <2>1, <2>2 DEF Picks, Kept
  <2>4. e[m] = last /\ \A i \in 0 .. k : e[i] = f[i]
    BY <2>1
  <2>5. e \in [0 .. m -> Seq(Request)] /\ e[0] = <<>>
    BY <2>1, <2>2, <2>3 DEF Picks
  <2> HIDE DEF e
  <2>6. ASSUME NEW i \in 1 .. m PROVE e[i] = Kept(s, q[i], e[i - 1])
    <3>1. CASE i = m
      <4>1. i - 1 = k /\ k \in 0 .. k
        BY <2>1, <3>1
      <4>2. QED
        BY <2>4, <3>1, <4>1
    <3>2. CASE i # m
      <4>1. i \in 1 .. k /\ i - 1 \in 0 .. k /\ i \in 0 .. k
        BY <2>1, <3>2
      <4>2. f[i] = Kept(s, q[i], f[i - 1])
        BY <2>2, <4>1 DEF Picks
      <4>3. QED
        BY <2>4, <4>1, <4>2
    <3>3. QED
      BY <3>1, <3>2
  <2>7. Picks(e, s, q, m)
    BY <2>5, <2>6 DEF Picks
  <2>8. QED
    BY <2>1, <2>7
<1>3. Len(q) \in Nat /\ Len(q) \in 0 .. Len(q)
  OBVIOUS
<1> HIDE DEF T
<1>4. 0 .. Len(q) \subseteq T
  BY <1>1, <1>2, <1>3, UpTo
<1>5. QED
  BY <1>3, <1>4 DEF T

\* OfSession is where such an f ends.
LEMMA OfSessionPicks ==
  ASSUME NEW s, NEW q \in Seq(Request)
  PROVE  \E f : Picks(f, s, q, Len(q)) /\ OfSession(s, q) = f[Len(q)]
<1>1. Len(q) \in 0 .. Len(q) /\ Len(q) \in Nat
  OBVIOUS
<1>2. PICK g : Picks(g, s, q, Len(q))
  BY PicksExist
<1> DEFINE Is(f) == f = [i \in 0 .. Len(q) |->
                           IF i = 0 THEN <<>>
                           ELSE IF Sess(q[i]) = s THEN Append(f[i - 1], q[i])
                           ELSE f[i - 1]]
           h == CHOOSE f : Is(f)
<1>3. Is(g)
  <2>1. \A i \in 0 .. Len(q) : i = 0 \/ i \in 1 .. Len(q)
    BY <1>1
  <2>2. \A i \in 0 .. Len(q) :
          g[i] = IF i = 0 THEN <<>>
                 ELSE IF Sess(q[i]) = s THEN Append(g[i - 1], q[i]) ELSE g[i - 1]
    BY <1>2, <2>1 DEF Picks, Kept
  <2>3. QED
    BY <1>2, <2>2 DEF Picks
<1>4. OfSession(s, q) = h[Len(q)]
  BY DEF OfSession
<1>5. Is(h)
  BY <1>3
<1>6. h = [i \in 0 .. Len(q) |->
             IF i = 0 THEN <<>>
             ELSE IF Sess(q[i]) = s THEN Append(h[i - 1], q[i]) ELSE h[i - 1]]
  BY <1>5
<1> HIDE DEF h, Is
<1>7. /\ DOMAIN h = 0 .. Len(q) /\ h[0] = <<>>
      /\ \A i \in 1 .. Len(q) : h[i] = Kept(s, q[i], h[i - 1])
  <2>1. DOMAIN h = 0 .. Len(q) /\ h[0] = <<>>
    BY <1>1, <1>6
  <2>2. ASSUME NEW i \in 1 .. Len(q) PROVE h[i] = Kept(s, q[i], h[i - 1])
    <3>1. i \in 0 .. Len(q) /\ i # 0
      OBVIOUS
    <3>2. h[i] = IF Sess(q[i]) = s THEN Append(h[i - 1], q[i]) ELSE h[i - 1]
      BY <1>6, <3>1
    <3>3. QED
      BY <3>2 DEF Kept
  <2>3. QED
    BY <2>1, <2>2
<1> DEFINE T == {i \in 0 .. Len(q) : h[i] \in Seq(Request)}
<1>8. 0 \in T
  <2>1. h[0] \in Seq(Request) /\ 0 \in 0 .. Len(q)
    BY <1>1, <1>7
  <2>2. QED
    BY <2>1
<1>9. ASSUME NEW i \in 1 .. Len(q), i - 1 \in T PROVE i \in T
  <2> DEFINE p == h[i - 1]
  <2>1. i \in 0 .. Len(q) /\ q[i] \in Request /\ p \in Seq(Request)
    BY <1>9
  <2>2. h[i] = Kept(s, q[i], p)
    BY <1>7
  <2> HIDE DEF p
  <2>3. h[i] \in Seq(Request)
    BY <2>1, <2>2 DEF Kept
  <2>4. QED
    BY <2>1, <2>3
<1> HIDE DEF T
<1>10. 0 .. Len(q) \subseteq T
  BY <1>1, <1>8, <1>9, UpTo
<1>11. \A i \in 0 .. Len(q) : h[i] \in Seq(Request)
  BY <1>10 DEF T
<1>12. h \in [0 .. Len(q) -> Seq(Request)]
  BY <1>6, <1>11
<1>13. QED
  BY <1>4, <1>7, <1>12 DEF Picks

\* No requests, none of the session.
LEMMA OfSessionEmpty ==
  ASSUME NEW s
  PROVE  OfSession(s, <<>>) = <<>>
<1>1. <<>> \in Seq(Request) /\ Len(<<>>) = 0
  OBVIOUS
<1>2. PICK f : Picks(f, s, <<>>, Len(<<>>)) /\ OfSession(s, <<>>) = f[Len(<<>>)]
  BY <1>1, OfSessionPicks
<1>3. QED
  BY <1>1, <1>2 DEF Picks

\* A request at the end is kept or left out.
LEMMA OfSessionAppend ==
  ASSUME NEW s, NEW q \in Seq(Request), NEW r \in Request
  PROVE  /\ OfSession(s, q) \in Seq(Request)
         /\ OfSession(s, Append(q, r)) = Kept(s, r, OfSession(s, q))
<1> DEFINE p == Append(q, r)
<1>1. /\ p \in Seq(Request) /\ Len(p) = Len(q) + 1 /\ Len(q) \in Nat
      /\ p[Len(q) + 1] = r /\ \A i \in 1 .. Len(q) : p[i] = q[i]
  OBVIOUS
<1> HIDE DEF p
<1>2. PICK f : Picks(f, s, q, Len(q)) /\ OfSession(s, q) = f[Len(q)]
  BY OfSessionPicks
<1>3. PICK g : Picks(g, s, p, Len(p)) /\ OfSession(s, p) = g[Len(p)]
  BY <1>1, OfSessionPicks
<1> DEFINE T == {i \in 0 .. Len(q) : f[i] = g[i]}
<1>4. 0 \in T
  BY <1>1, <1>2, <1>3 DEF Picks
<1>5. ASSUME NEW i \in 1 .. Len(q), i - 1 \in T PROVE i \in T
  <2>1. i \in 1 .. Len(p) /\ p[i] = q[i] /\ i \in 0 .. Len(q) /\ f[i - 1] = g[i - 1]
    BY <1>1, <1>5
  <2>2. f[i] = Kept(s, q[i], f[i - 1]) /\ g[i] = Kept(s, p[i], g[i - 1])
    BY <1>2, <1>3, <2>1 DEF Picks
  <2>3. QED
    BY <2>1, <2>2
<1> HIDE DEF T
<1>6. 0 .. Len(q) \subseteq T
  BY <1>1, <1>4, <1>5, UpTo
<1>7. f[Len(q)] = g[Len(q)]
  BY <1>1, <1>6 DEF T
<1>8. Len(p) \in 1 .. Len(p) /\ Len(p) - 1 = Len(q)
  BY <1>1
<1>9. g[Len(p)] = Kept(s, p[Len(p)], g[Len(q)])
  BY <1>3, <1>8 DEF Picks
<1>10. OfSession(s, q) \in Seq(Request)
  BY <1>1, <1>2 DEF Picks
<1>11. QED
  BY <1>1, <1>2, <1>3, <1>7, <1>9, <1>10 DEF p

\* Appending goes through a concatenation.
LEMMA ConcatAppend ==
  ASSUME NEW p \in Seq(Request), NEW q \in Seq(Request), NEW r \in Request
  PROVE  p \o Append(q, r) = Append(p \o q, r)
<1>1. <<r>> \in Seq(Request) /\ p \o q \in Seq(Request)
  OBVIOUS
<1>2. Append(q, r) = q \o <<r>> /\ Append(p \o q, r) = (p \o q) \o <<r>>
  BY <1>1, AppendIsConcat
<1>3. QED
  BY <1>1, <1>2, ConcatAssociative

\* The requests of a session in two sequences, one after the other.
LEMMA OfSessionConcat ==
  ASSUME NEW s, NEW p \in Seq(Request), NEW q \in Seq(Request)
  PROVE  OfSession(s, p \o q) = OfSession(s, p) \o OfSession(s, q)
<1> DEFINE Start(i) == SubSeq(q, 1, i)
           T == {i \in 0 .. Len(q) :
                   OfSession(s, p \o Start(i)) = OfSession(s, p) \o OfSession(s, Start(i))}
<1>1. Len(q) \in Nat /\ Len(q) \in 0 .. Len(q)
  OBVIOUS
<1>2. ASSUME NEW x \in Seq(Request) PROVE OfSession(s, x) \in Seq(Request)
  <2>1. PICK f : Picks(f, s, x, Len(x)) /\ OfSession(s, x) = f[Len(x)]
    BY OfSessionPicks
  <2>2. QED
    BY <2>1, SMTT(40) DEF Picks
<1>3. Start(0) = <<>>
  BY SubSeqEmpty
<1>4. 0 \in T
  <2> HIDE DEF Start
  <2>1. p \o <<>> = p
    BY ConcatEmptySeq
  <2>2. OfSession(s, p) \o OfSession(s, <<>>) = OfSession(s, p)
    BY <1>2, OfSessionEmpty, ConcatEmptySeq
  <2>3. OfSession(s, p \o Start(0)) = OfSession(s, p) \o OfSession(s, Start(0))
    BY <1>3, <2>1, <2>2, Zenon
  <2>4. 0 \in 0 .. Len(q)
    BY <1>1
  <2>5. QED
    BY <2>3, <2>4
<1>5. ASSUME NEW i \in 1 .. Len(q), i - 1 \in T PROVE i \in T
  <2> DEFINE x == Start(i - 1)
             r == q[i]
             a == OfSession(s, p)
             b == OfSession(s, x)
  <2>1. r \in Request /\ i \in 0 .. Len(q) /\ 1 \in 1 .. Len(q)
    OBVIOUS
  <2>2. x \in Seq(Request)
    OBVIOUS
  <2>3. Start(i) = Append(x, r)
    <3>1. Start(i) = x \o <<r>>
      BY <2>1, SubSeqRecursiveSecond
    <3>2. QED
      BY <2>1, <2>2, <3>1, AppendIsConcat
  <2>4. OfSession(s, p \o x) = a \o b
    BY <1>5
  <2> HIDE DEF Start, x, r
  <2>5. p \o x \in Seq(Request) /\ p \o Append(x, r) = Append(p \o x, r)
    BY <2>1, <2>2, ConcatAppend
  <2>6. /\ OfSession(s, p \o Start(i)) = Kept(s, r, a \o b)
        /\ OfSession(s, Start(i)) = Kept(s, r, b)
    <3>1. OfSession(s, Append(x, r)) = Kept(s, r, OfSession(s, x))
      BY <2>1, <2>2, OfSessionAppend, Zenon
    <3>2. OfSession(s, Append(p \o x, r)) = Kept(s, r, OfSession(s, p \o x))
      BY <2>1, <2>5, OfSessionAppend, Zenon
    <3>3. QED
      BY <2>3, <2>4, <2>5, <3>1, <3>2, Zenon
  <2>7. a \in Seq(Request) /\ b \in Seq(Request)
    BY <1>2, <2>2
  <2> HIDE DEF a, b
  <2>8. Kept(s, r, a \o b) = a \o Kept(s, r, b)
    BY <2>1, <2>7, ConcatAppend DEF Kept
  <2>9. QED
    BY <2>1, <2>6, <2>8 DEF a
<1> HIDE DEF T
<1>6. 0 .. Len(q) \subseteq T
  BY <1>1, <1>4, <1>5, UpTo
<1>7. Start(Len(q)) = q
  BY SubSeqFull
<1>8. QED
  BY <1>1, <1>6, <1>7 DEF T

\* One request: the session's own, or nothing.
LEMMA OfSessionOne ==
  ASSUME NEW s, NEW r \in Request
  PROVE  OfSession(s, <<r>>) = IF Sess(r) = s THEN <<r>> ELSE <<>>
<1>1. <<>> \in Seq(Request) /\ Append(<<>>, r) = <<r>>
  OBVIOUS
<1>2. OfSession(s, Append(<<>>, r)) = Kept(s, r, OfSession(s, <<>>))
  BY <1>1, OfSessionAppend, Zenon
<1>3. OfSession(s, <<r>>) = Kept(s, r, <<>>)
  BY <1>1, <1>2, OfSessionEmpty, Zenon
<1>4. QED
  BY <1>1, <1>3 DEF Kept

\* What is kept of a sequence comes from it.
LEMMA OfSessionFrom ==
  ASSUME NEW s, NEW q \in Seq(Request)
  PROVE  /\ OfSession(s, q) \in Seq(Request)
         /\ \A i \in 1 .. Len(OfSession(s, q)) : \E j \in 1 .. Len(q) : OfSession(s, q)[i] = q[j]
<1> DEFINE From(x) == \A i \in 1 .. Len(x) : \E j \in 1 .. Len(q) : x[i] = q[j]
<1>1. PICK f : Picks(f, s, q, Len(q)) /\ OfSession(s, q) = f[Len(q)]
  BY OfSessionPicks
<1> DEFINE T == {i \in 0 .. Len(q) : From(f[i])}
<1>2. Len(q) \in Nat /\ Len(q) \in 0 .. Len(q) /\ 0 \in 0 .. Len(q)
  OBVIOUS
<1>3. 0 \in T
  <2>1. f[0] = <<>>
    BY <1>1 DEF Picks
  <2>2. From(<<>>)
    OBVIOUS
  <2>3. QED
    BY <1>2, <2>1, <2>2
<1>4. ASSUME NEW i \in 1 .. Len(q), i - 1 \in T PROVE i \in T
  <2> DEFINE x == f[i - 1]
  <2>1. i \in 0 .. Len(q) /\ i - 1 \in 0 .. Len(q) /\ q[i] \in Request
    OBVIOUS
  <2>2. x \in Seq(Request) /\ From(x) /\ f[i] = Kept(s, q[i], x)
    BY <1>1, <1>4, <2>1 DEF Picks
  <2> HIDE DEF x
  <2>3. From(Append(x, q[i]))
    <3> DEFINE y == Append(x, q[i])
    <3>1. /\ Len(y) = Len(x) + 1 /\ Len(x) \in Nat
          /\ y[Len(x) + 1] = q[i] /\ \A k \in 1 .. Len(x) : y[k] = x[k]
      BY <2>1, <2>2
    <3> HIDE DEF y
    <3>2. From(y)
      BY <2>2, <3>1
    <3>3. QED
      BY <3>2 DEF y
  <2> HIDE DEF From
  <2>4. From(f[i])
    BY <2>2, <2>3 DEF Kept
  <2>5. QED
    BY <2>1, <2>4
<1> HIDE DEF T
<1>5. 0 .. Len(q) \subseteq T
  BY <1>2, <1>3, <1>4, UpTo
<1>6. From(f[Len(q)])
  BY <1>2, <1>5 DEF T
<1>7. f[Len(q)] \in Seq(Request)
  BY <1>1, <1>2 DEF Picks
<1> HIDE DEF From
<1>8. From(OfSession(s, q)) /\ OfSession(s, q) \in Seq(Request)
  BY <1>1, <1>6, <1>7
<1>9. QED
  BY <1>8 DEF From

(***************************************************************************)
(* Who is answered in which order.                                         *)
(***************************************************************************)

\* How the handler of a request moves on (handleNormalizedMessage).
LEMMA HandlerMoves ==
    ASSUME Types, [Next]_vars, NEW r \in Request, pc'[r] # pc[r]
    PROVE  \/ Reject(r) /\ pc[r] = "idle" /\ pc'[r] \in {"rejected", "error"}
           \/ RegisterContext(r) /\ pc[r] = "idle" /\ pc'[r] = "registered"
           \/ PassDedup(r) /\ pc[r] = "registered" /\ pc'[r] = "accepted"
           \/ SuppressDuplicate(r) /\ pc[r] = "registered" /\ pc'[r] = "duplicate"
           \/ Publish(r) /\ pc[r] = "accepted" /\ pc'[r] \in {"signal", "ok"}
           \/ PublishFails(r) /\ pc[r] = "accepted" /\ pc'[r] = "error"
           \/ SignalInterrupt(r) /\ pc[r] = "signal" /\ pc'[r] = "ok"
           \/ EnqueueCollect(r) /\ pc[r] = "accepted" /\ pc'[r] = "enqueued"
           \/ GatewayRestarts /\ pc[r] \in InHandler /\ pc'[r] = "killed"
<1> USE DEF dedupVars, collectVars, agentVars, historyVars
<1>1. pc \in [Request -> Place]
  BY DEF Types, TypeOK
<1>2. ASSUME NEW x \in Request, NEW f, NEW t, Goto(x, f, t)
      PROVE  x = r /\ pc[r] = f /\ pc'[r] = t
  BY <1>1, <1>2 DEF Goto
<1>3. ASSUME NEW x \in Request, Reject(x)
      PROVE  Reject(r) /\ pc[r] = "idle" /\ pc'[r] \in {"rejected", "error"}
  BY <1>2, <1>3 DEF Reject
<1>4. ASSUME NEW x \in Request, RegisterContext(x)
      PROVE  RegisterContext(r) /\ pc[r] = "idle" /\ pc'[r] = "registered"
  <2>1. Goto(x, "idle", "registered")
    BY <1>4 DEF RegisterContext
  <2>2. QED
    BY <1>2, <1>4, <2>1
<1>5. ASSUME NEW x \in Request, PassDedup(x)
      PROVE  PassDedup(r) /\ pc[r] = "registered" /\ pc'[r] = "accepted"
  <2>1. Goto(x, "registered", "accepted")
    BY <1>5 DEF PassDedup
  <2>2. QED
    BY <1>2, <1>5, <2>1
<1>6. ASSUME NEW x \in Request, SuppressDuplicate(x)
      PROVE  SuppressDuplicate(r) /\ pc[r] = "registered" /\ pc'[r] = "duplicate"
  <2>1. Goto(x, "registered", "duplicate")
    BY <1>6 DEF SuppressDuplicate
  <2>2. QED
    BY <1>2, <1>6, <2>1
<1>7. ASSUME NEW x \in Request, Publish(x)
      PROVE  Publish(r) /\ pc[r] = "accepted" /\ pc'[r] \in {"signal", "ok"}
  <2>1. Goto(x, "accepted", IF x \in Interrupting THEN "signal" ELSE "ok")
    BY <1>7 DEF Publish
  <2>2. QED
    BY <1>2, <1>7, <2>1
<1>8. ASSUME NEW x \in Request, PublishFails(x)
      PROVE  PublishFails(r) /\ pc[r] = "accepted" /\ pc'[r] = "error"
  <2>1. Goto(x, "accepted", "error")
    BY <1>8 DEF PublishFails
  <2>2. QED
    BY <1>2, <1>8, <2>1
<1>9. ASSUME NEW x \in Request, SignalInterrupt(x)
      PROVE  SignalInterrupt(r) /\ pc[r] = "signal" /\ pc'[r] = "ok"
  <2>1. Goto(x, "signal", "ok")
    BY <1>9 DEF SignalInterrupt
  <2>2. QED
    BY <1>2, <1>9, <2>1
<1>10. ASSUME NEW x \in Request, EnqueueCollect(x)
       PROVE  EnqueueCollect(r) /\ pc[r] = "accepted" /\ pc'[r] = "enqueued"
  <2>1. Goto(x, "accepted", "enqueued")
    BY <1>10 DEF EnqueueCollect
  <2>2. QED
    BY <1>2, <1>10, <2>1
<1>11. ASSUME FlushStep PROVE UNCHANGED pc
  BY <1>11 DEF FlushStep, FlushStarts, FlushPublishes, FlushFails
<1>12. ASSUME NEW u \in User, AgentStep(u) PROVE UNCHANGED pc
  BY <1>12 DEF AgentStep, AgentReceives, AgentReports, AgentFailsSilently,
              AgentSettles
<1>13. ASSUME NEW u \in User,
             AgentToolErrors(u) \/ AgentCrashes(u) \/ ItemExpires(u)
             \/ AllowlistChanges(u)
      PROVE  UNCHANGED pc
  BY <1>13 DEF AgentToolErrors, AgentCrashes, ItemExpires, AllowlistChanges
<1>14. ASSUME DispatchStep \/ DispatchAckLost \/ ClockOrCleanup
             \/ UNCHANGED vars
      PROVE  UNCHANGED pc
  BY <1>14 DEF DispatchStep, Dispatch, DispatchFindsNothing, DispatchAckLost,
              ClockOrCleanup, vars
<1>15. ASSUME GatewayRestarts PROVE pc[r] \in InHandler /\ pc'[r] = "killed"
  BY <1>1, <1>15 DEF GatewayRestarts
<1>16. QED
  BY <1>3, <1>4, <1>5, <1>6, <1>7, <1>8, <1>9, <1>10, <1>11, <1>12, <1>13,
     <1>14, <1>15 DEF Next, HandlerStep

\* Which steps touch the buffers and batches of collect mode.
LEMMA CollectChanges ==
    ASSUME [Next]_vars
    PROVE  \/ UNCHANGED <<buffers, taken, published>>
           \/ \E r \in Request : EnqueueCollect(r)
           \/ \E k \in CollectKey : UNCHANGED pc /\ Collect!FlushTakes(k)
           \/ \E b \in taken : FlushPublishes(b) \/ FlushFails(b)
           \/ GatewayRestarts
<1> USE DEF dedupVars, collectVars, agentVars, historyVars
<1> DEFINE Alone == UNCHANGED <<buffers, taken, published>>
<1>1. ASSUME NEW r \in Request, Reject(r) \/ RegisterContext(r) PROVE Alone
  BY <1>1 DEF Reject, RegisterContext
<1>2. ASSUME NEW r \in Request, HandlerStep(r), ~EnqueueCollect(r) PROVE Alone
  BY <1>2 DEF HandlerStep, PassDedup, SuppressDuplicate, Publish, PublishFails,
              SignalInterrupt
<1>3. ASSUME FlushStarts PROVE Alone \/ \E k \in CollectKey : UNCHANGED pc /\ Collect!FlushTakes(k)
  BY <1>3 DEF FlushStarts, Collect!TimerFires, Collect!FlushFindsNothing
<1>4. ASSUME NEW u \in User, AgentStep(u) PROVE Alone
  BY <1>4 DEF AgentStep, AgentReceives, AgentReports, AgentFailsSilently,
              AgentSettles
<1>5. ASSUME NEW u \in User,
             AgentToolErrors(u) \/ AgentCrashes(u) \/ ItemExpires(u)
             \/ AllowlistChanges(u)
      PROVE  Alone
  BY <1>5 DEF AgentToolErrors, AgentCrashes, ItemExpires, AllowlistChanges
<1>6. ASSUME DispatchStep \/ DispatchAckLost \/ ClockOrCleanup
             \/ UNCHANGED vars
      PROVE  Alone
  BY <1>6 DEF DispatchStep, Dispatch, DispatchFindsNothing, DispatchAckLost,
              ClockOrCleanup, vars
<1> HIDE DEF Alone
<1>7. Alone => UNCHANGED <<buffers, taken, published>>
  BY DEF Alone
<1>8. QED
  BY <1>1, <1>2, <1>3, <1>4, <1>5, <1>6, <1>7 DEF Next, FlushStep

\* What lies in a buffer, or in a batch taken from one and not dropped, was
\* put there by the handler of the request.
CollectedAreEnqueued ==
    /\ \A k \in CollectKey : \A r \in Range(buffers[k]) : pc[r] = "enqueued"
    /\ \A b \in taken \cup published : \A r \in Range(b.msgs) : pc[r] = "enqueued"

\* It lies in one of them only.
CollectedOnce ==
    /\ \A j, k \in CollectKey : j # k => Range(buffers[j]) \cap Range(buffers[k]) = {}
    /\ \A k \in CollectKey, b \in taken \cup published :
          Range(buffers[k]) \cap Range(b.msgs) = {}
    /\ \A b, c \in taken : b # c => Range(b.msgs) \cap Range(c.msgs) = {}
    /\ \A b \in taken, c \in published : Range(b.msgs) \cap Range(c.msgs) = {}

\* Both hold after any step: a message comes in from its handler, once, and
\* a flush takes a buffer as a whole (enqueueCollect, flushCollectBuffer).
LEMMA CollectedStep ==
    ASSUME Types, CollectedAreEnqueued, CollectedOnce, [Next]_vars
    PROVE  CollectedAreEnqueued' /\ CollectedOnce'
<1> DEFINE Goal == CollectedAreEnqueued' /\ CollectedOnce'
<1>1. /\ pc \in [Request -> Place] /\ buffers \in [CollectKey -> Seq(Collecting)]
      /\ Collecting \subseteq Request /\ CollectKeyOf \in [Collecting -> CollectKey]
      /\ taken \subseteq Collect!Batch /\ published \subseteq Collect!Batch
  BY GatewayAssumption DEF Types, TypeOK, Collect!TypeOK
<1>2. ASSUME NEW r \in Request, pc[r] = "enqueued" PROVE pc'[r] = "enqueued"
  BY <1>2, HandlerMoves DEF InHandler
<1>3. /\ \A k \in CollectKey : \A r \in Range(buffers[k]) : r \in Request
      /\ \A b \in taken \cup published : \A r \in Range(b.msgs) : r \in Request
  <2>1. ASSUME NEW q \in Seq(Collecting), NEW r \in Range(q) PROVE r \in Request
    BY <1>1 DEF Range
  <2>2. \A b \in taken \cup published : b.msgs \in Seq(Collecting)
    BY <1>1 DEF Collect!Batch
  <2>3. QED
    BY <1>1, <2>1, <2>2
<1>4. /\ \A k \in CollectKey : \A r \in Range(buffers[k]) : pc'[r] = "enqueued"
      /\ \A b \in taken \cup published : \A r \in Range(b.msgs) : pc'[r] = "enqueued"
  BY <1>2, <1>3 DEF CollectedAreEnqueued
<1>5. CASE UNCHANGED <<buffers, taken, published>>
  BY <1>4, <1>5 DEF CollectedAreEnqueued, CollectedOnce
<1>6. ASSUME NEW r \in Request, EnqueueCollect(r) PROVE Goal
  <2> DEFINE k == CollectKeyOf[r]
             q == Append(buffers[k], r)
  <2>1. /\ r \in Collecting /\ pc[r] = "accepted" /\ pc'[r] = "enqueued"
        /\ taken' = taken /\ published' = published
        /\ buffers' = [buffers EXCEPT ![k] = q]
    BY <1>1, <1>6 DEF EnqueueCollect, Goto, Collect!EnqueueCollect, Collect!AppendMsg
  <2>2. k \in CollectKey /\ buffers[k] \in Seq(Collecting)
    BY <1>1, <2>1
  <2>3. Range(q) = Range(buffers[k]) \cup {r}
    <3> DEFINE p == buffers[k]
    <3>1. /\ DOMAIN q = 1 .. Len(p) + 1 /\ DOMAIN p = 1 .. Len(p) /\ Len(p) \in Nat
          /\ q[Len(p) + 1] = r /\ \A i \in 1 .. Len(p) : q[i] = p[i]
      BY <2>1, <2>2
    <3> HIDE DEF p, q
    <3>2. Range(q) = Range(p) \cup {r}
      BY <3>1 DEF Range
    <3>3. QED
      BY <3>2 DEF p
  <2> HIDE DEF k, q
  <2>4. /\ buffers'[k] = q /\ \A j \in CollectKey : j # k => buffers'[j] = buffers[j]
    BY <1>1, <2>1, <2>2
  <2>5. \A j \in CollectKey : r \notin Range(buffers[j])
    BY <2>1 DEF CollectedAreEnqueued
  <2>6. \A b \in taken \cup published : r \notin Range(b.msgs)
    BY <2>1 DEF CollectedAreEnqueued
  <2>7. CollectedAreEnqueued'
    BY <1>4, <2>1, <2>3, <2>4 DEF CollectedAreEnqueued
  <2>8. ASSUME NEW j \in CollectKey
        PROVE  \/ Range(buffers'[j]) = Range(buffers[j])
               \/ j = k /\ Range(buffers'[j]) = Range(buffers[j]) \cup {r}
    BY <2>3, <2>4
  <2>9. ASSUME NEW i \in CollectKey, NEW j \in CollectKey, i # j
        PROVE  Range(buffers'[i]) \cap Range(buffers'[j]) = {}
    <3>1. Range(buffers[i]) \cap Range(buffers[j]) = {}
      BY <2>9 DEF CollectedOnce
    <3>2. QED
      BY <2>5, <2>8, <2>9, <3>1
  <2>10. ASSUME NEW j \in CollectKey, NEW b \in taken \cup published
         PROVE  Range(buffers'[j]) \cap Range(b.msgs) = {}
    <3>1. Range(buffers[j]) \cap Range(b.msgs) = {}
      BY DEF CollectedOnce
    <3>2. QED
      BY <2>6, <2>8, <3>1
  <2>11. CollectedOnce'
    BY <2>1, <2>9, <2>10 DEF CollectedOnce
  <2>12. QED
    BY <2>7, <2>11
<1>7. ASSUME NEW k \in CollectKey, Collect!FlushTakes(k) PROVE Goal
  <2> DEFINE o == Collect!OpenBatch(k)
  <2>1. /\ taken' = taken \cup {o} /\ published' = published
        /\ buffers' = [buffers EXCEPT ![k] = <<>>]
        /\ o.msgs = buffers[k]
    BY <1>7 DEF Collect!FlushTakes, Collect!OpenBatch
  <2> HIDE DEF o
  <2>2. /\ buffers'[k] = <<>> /\ \A j \in CollectKey : j # k => buffers'[j] = buffers[j]
    BY <1>1, <2>1
  <2>3. Range(<<>>) = {}
    BY DEF Range
  <2>4. CollectedAreEnqueued'
    BY <1>4, <2>1, <2>2, <2>3 DEF CollectedAreEnqueued
  <2>5. ASSUME NEW j \in CollectKey
        PROVE  \/ Range(buffers'[j]) = {}
               \/ j # k /\ Range(buffers'[j]) = Range(buffers[j])
    BY <2>2, <2>3
  <2>6. ASSUME NEW i \in CollectKey, NEW j \in CollectKey, i # j
        PROVE  Range(buffers'[i]) \cap Range(buffers'[j]) = {}
    <3>1. Range(buffers[i]) \cap Range(buffers[j]) = {}
      BY <2>6 DEF CollectedOnce
    <3>2. QED
      BY <2>5, <3>1
  <2>7. ASSUME NEW j \in CollectKey, NEW b \in taken' \cup published'
        PROVE  Range(buffers'[j]) \cap Range(b.msgs) = {}
    <3>1. CASE b = o
      <4>1. j # k => Range(buffers[j]) \cap Range(buffers[k]) = {}
        BY DEF CollectedOnce
      <4>2. QED
        BY <2>1, <2>5, <3>1, <4>1
    <3>2. CASE b \in taken \cup published
      <4>1. Range(buffers[j]) \cap Range(b.msgs) = {}
        BY <3>2 DEF CollectedOnce
      <4>2. QED
        BY <2>5, <4>1
    <3>3. QED
      BY <2>1, <3>1, <3>2
  <2>8. ASSUME NEW b \in taken \cup published PROVE Range(o.msgs) \cap Range(b.msgs) = {}
    BY <2>1 DEF CollectedOnce
  <2>9. ASSUME NEW b \in taken', NEW c \in taken', b # c
        PROVE  Range(b.msgs) \cap Range(c.msgs) = {}
    <3>1. CASE b \in taken /\ c \in taken
      BY <2>9, <3>1 DEF CollectedOnce
    <3>2. CASE b = o /\ c \in taken
      BY <2>8, <3>2
    <3>3. CASE c = o /\ b \in taken
      BY <2>8, <3>3
    <3>4. QED
      BY <2>1, <2>9, <3>1, <3>2, <3>3
  <2>10. ASSUME NEW b \in taken', NEW c \in published'
         PROVE  Range(b.msgs) \cap Range(c.msgs) = {}
    BY <2>1, <2>8 DEF CollectedOnce
  <2>11. CollectedOnce'
    BY <2>6, <2>7, <2>9, <2>10 DEF CollectedOnce
  <2>12. QED
    BY <2>4, <2>11
<1>8. ASSUME NEW b \in taken, FlushPublishes(b) PROVE Goal
  <2>1. buffers' = buffers /\ taken' = taken \ {b} /\ published' = published \cup {b}
    BY <1>8 DEF FlushPublishes, Collect!PublishBatch
  <2>2. QED
    BY <1>4, <2>1 DEF CollectedAreEnqueued, CollectedOnce
<1>9. ASSUME NEW b \in taken, FlushFails(b) PROVE Goal
  <2>1. buffers' = buffers /\ taken' = taken \ {b} /\ published' = published
    BY <1>9 DEF FlushFails, Collect!PublishBatchFails
  <2>2. QED
    BY <1>4, <2>1 DEF CollectedAreEnqueued, CollectedOnce
<1>10. ASSUME GatewayRestarts PROVE Goal
  <2>1. /\ \A k \in CollectKey : buffers'[k] = <<>>
        /\ taken' = {} /\ published' = published
    BY <1>10 DEF GatewayRestarts, Collect!Restart
  <2>2. Range(<<>>) = {}
    BY DEF Range
  <2>3. QED
    BY <1>4, <2>1, <2>2 DEF CollectedAreEnqueued, CollectedOnce
<1>11. QED
  BY <1>5, <1>6, <1>7, <1>8, <1>9, <1>10, CollectChanges

\* A session that was upset stays so.
LEMMA SkewedGrows ==
    ASSUME Types, [Next]_vars
    PROVE  skewed \subseteq skewed'
<1> USE DEF dedupVars, collectVars, agentVars, historyVars
<1>1. ASSUME NEW r \in Request, Reject(r) \/ RegisterContext(r) PROVE skewed \subseteq skewed'
  BY <1>1 DEF Reject, RegisterContext
<1>2. ASSUME NEW r \in Request, HandlerStep(r) PROVE skewed \subseteq skewed'
  BY <1>2 DEF HandlerStep, PassDedup, SuppressDuplicate, Publish, PublishFails,
              SignalInterrupt, EnqueueCollect, Enqueue
<1>3. ASSUME FlushStep PROVE skewed \subseteq skewed'
  BY <1>3 DEF FlushStep, FlushStarts, FlushPublishes, FlushFails, Enqueue
<1>4. ASSUME NEW u \in User, AgentStep(u) PROVE skewed \subseteq skewed'
  BY <1>4 DEF AgentStep, AgentReceives, AgentReports, AgentFailsSilently,
              AgentSettles
<1>5. ASSUME NEW u \in User,
             AgentToolErrors(u) \/ AgentCrashes(u) \/ ItemExpires(u)
             \/ AllowlistChanges(u)
      PROVE  skewed \subseteq skewed'
  BY <1>5 DEF AgentToolErrors, AgentCrashes, ItemExpires, AllowlistChanges
<1>6. ASSUME DispatchStep \/ DispatchAckLost \/ ClockOrCleanup
             \/ UNCHANGED vars
      PROVE  skewed \subseteq skewed'
  BY <1>6 DEF DispatchStep, Dispatch, DispatchFindsNothing, DispatchAckLost,
              ClockOrCleanup, vars
<1>7. ASSUME GatewayRestarts PROVE skewed \subseteq skewed'
  BY <1>7 DEF GatewayRestarts, Types, TypeOK
<1>8. QED
  BY <1>1, <1>2, <1>3, <1>4, <1>5, <1>6, <1>7 DEF Next

\* What was published stays published.
LEMMA PublishedGrows ==
    ASSUME [Next]_vars
    PROVE  \/ published' = published
           \/ \E b \in taken : FlushPublishes(b) /\ published' = published \cup {b}
<1>1. ASSUME NEW r \in Request, EnqueueCollect(r) PROVE published' = published
  BY <1>1 DEF EnqueueCollect, Collect!EnqueueCollect
<1>2. ASSUME NEW k \in CollectKey, Collect!FlushTakes(k) PROVE published' = published
  BY <1>2 DEF Collect!FlushTakes
<1>3. ASSUME NEW b \in taken, FlushPublishes(b) PROVE published' = published \cup {b}
  BY <1>3 DEF FlushPublishes, Collect!PublishBatch
<1>4. ASSUME NEW b \in taken, FlushFails(b) PROVE published' = published
  BY <1>4 DEF FlushFails, Collect!PublishBatchFails
<1>5. ASSUME GatewayRestarts PROVE published' = published
  BY <1>5 DEF GatewayRestarts, Collect!Restart
<1>6. QED
  BY <1>1, <1>2, <1>3, <1>4, <1>5, CollectChanges

\* A request waits for its publication from its registration on, and not
\* again later.
LEMMA UnpublishedBefore ==
    ASSUME Types, [Next]_vars, NEW r \in Request, Unpublished(r)'
    PROVE  Unpublished(r) \/ RegisterContext(r)
<1>1. published \subseteq published'
  BY PublishedGrows
<1>2. \/ pc'[r] \in {"registered", "accepted"}
      \/ pc'[r] = "enqueued" /\ \A b \in published' : r \notin Range(b.msgs)
  BY DEF Unpublished
<1>3. CASE pc'[r] = pc[r]
  BY <1>1, <1>2, <1>3 DEF Unpublished
<1>4. CASE pc'[r] # pc[r]
  <2>1. RegisterContext(r) \/ pc[r] \in {"registered", "accepted"}
    BY <1>2, <1>4, HandlerMoves
  <2>2. QED
    BY <2>1 DEF Unpublished
<1>5. QED
  BY <1>3, <1>4

\* It ends by being published as the primary message of an item, or its
\* session is upset.
LEMMA UnpublishedAfter ==
    ASSUME Types, CollectedAreEnqueued, [Next]_vars, NEW r \in Request,
           Unpublished(r), ~Unpublished(r)'
    PROVE  \/ Sess(r) \in skewed'
           \/ Publish(r)
           \/ \E b \in taken : FlushPublishes(b) /\ r = Primary(b.msgs)
<1> USE DEF dedupVars, collectVars, agentVars, historyVars
<1>1. Sess(r) \in Session
  BY RequestTypes
<1>2. /\ pc'[r] \notin {"registered", "accepted"}
      /\ pc'[r] = "enqueued" => \E b \in published' : r \in Range(b.msgs)
  BY DEF Unpublished
<1>3. CASE pc'[r] # pc[r]
  <2>1. ASSUME SuppressDuplicate(r) \/ PublishFails(r) PROVE Sess(r) \in skewed'
    BY <2>1 DEF SuppressDuplicate, PublishFails
  <2>2. ASSUME GatewayRestarts PROVE Sess(r) \in skewed'
    BY <1>1, <2>2 DEF GatewayRestarts
  <2>3. ASSUME EnqueueCollect(r), pc[r] = "accepted", pc'[r] = "enqueued" PROVE FALSE
    <3>1. published' = published
      BY <2>3 DEF EnqueueCollect, Collect!EnqueueCollect
    <3>2. \A b \in published : r \notin Range(b.msgs)
      BY <2>3 DEF CollectedAreEnqueued
    <3>3. QED
      BY <1>2, <2>3, <3>1, <3>2
  <2>4. pc[r] \in {"registered", "accepted", "enqueued"}
    BY DEF Unpublished
  <2>5. QED
    BY <1>2, <1>3, <2>1, <2>2, <2>3, <2>4, HandlerMoves
<1>4. CASE pc'[r] = pc[r]
  <2>1. /\ pc[r] = "enqueued" /\ \A b \in published : r \notin Range(b.msgs)
        /\ \E b \in published' : r \in Range(b.msgs)
    BY <1>2, <1>4 DEF Unpublished
  <2>2. PICK b \in taken : FlushPublishes(b) /\ r \in Range(b.msgs)
    BY <2>1, PublishedGrows
  <2>3. b.msgs \in Seq(Request) /\ b.msgs # <<>>
    BY BatchIsItem
  <2>4. PICK i \in DOMAIN b.msgs : r = b.msgs[i]
    BY <2>2 DEF Range
  <2>5. CASE i = Len(b.msgs)
    BY <2>2, <2>4, <2>5 DEF Primary
  <2>6. CASE i # Len(b.msgs)
    <3>1. i < Len(b.msgs)
      BY <2>3, <2>4, <2>6
    <3>2. \A rejected \in BOOLEAN : Sess(r) \in Disturbed(b.msgs, rejected)
      BY <2>4, <3>1 DEF Disturbed
    <3>3. QED
      BY <2>2, <3>2 DEF FlushPublishes, Enqueue
  <2>7. QED
    BY <2>5, <2>6
<1>5. QED
  BY <1>3, <1>4

\* The requests that wait for their publication, and those that do not any
\* more.
Pending == {r \in Request : Unpublished(r)}
Sent == {r \in Request : pc[r] # "idle" /\ ~Unpublished(r)}

\* Those that do not wait will not wait again.
LEMMA SentStays ==
    ASSUME Types, [Next]_vars
    PROVE  Sent \subseteq Sent'
<1> SUFFICES ASSUME NEW r \in Request, pc[r] # "idle", ~Unpublished(r)
             PROVE  pc'[r] # "idle" /\ ~Unpublished(r)'
  BY DEF Sent
<1>1. pc'[r] # "idle"
  BY HandlersStartOnce
<1>2. ~RegisterContext(r)
  BY DEF RegisterContext, Goto
<1>3. ~Unpublished(r)'
  BY <1>2, UnpublishedBefore
<1>4. QED
  BY <1>1, <1>3

\* The requests of a queue of items that an agent answers.
Primaries(q) == [i \in DOMAIN q |-> Primary(q[i])]

\* Queues as the broker keeps them.
ItemQueue == {q \in Seq(Seq(Request)) : \A i \in DOMAIN q : q[i] # <<>>}

\* What an item more, at the end or in front, means for the answers.
LEMMA PrimariesOf ==
    ASSUME NEW q \in ItemQueue
    PROVE  /\ Primaries(q) \in Seq(Request) /\ Len(Primaries(q)) = Len(q)
           /\ \A i \in 1 .. Len(q) : Primaries(q)[i] = Primary(q[i])
<1>1. q \in Seq(Seq(Request)) /\ \A i \in DOMAIN q : q[i] # <<>>
  BY DEF ItemQueue
<1>2. DOMAIN q = 1 .. Len(q) /\ Len(q) \in Nat
  BY <1>1
<1>3. ASSUME NEW i \in 1 .. Len(q) PROVE Primary(q[i]) \in Request
  <2>1. q[i] \in Seq(Request)
    BY <1>1, ElementOfSeq
  <2>2. q[i] # <<>>
    BY <1>1, <1>2
  <2>3. QED
    BY <2>1, <2>2, PrimaryType
<1>4. Primaries(q) \in [1 .. Len(q) -> Request] /\ DOMAIN Primaries(q) = 1 .. Len(q)
  BY <1>2, <1>3 DEF Primaries
<1>5. QED
  BY <1>2, <1>4 DEF Primaries

\* An item at the end of a queue.
LEMMA PrimariesAppend ==
    ASSUME NEW q \in ItemQueue, NEW item \in Seq(Request), item # <<>>
    PROVE  /\ Append(q, item) \in ItemQueue
           /\ Primaries(Append(q, item)) = Append(Primaries(q), Primary(item))
<1> DEFINE p == Append(q, item)
           a == Append(Primaries(q), Primary(item))
<1>1. q \in Seq(Seq(Request)) /\ \A i \in DOMAIN q : q[i] # <<>>
  BY DEF ItemQueue
<1>2. /\ p \in Seq(Seq(Request)) /\ Len(p) = Len(q) + 1 /\ DOMAIN p = 1 .. Len(q) + 1
      /\ Len(q) \in Nat /\ DOMAIN q = 1 .. Len(q)
      /\ p[Len(q) + 1] = item /\ \A i \in 1 .. Len(q) : p[i] = q[i]
  BY <1>1
<1>3. /\ Primaries(q) \in Seq(Request) /\ Len(Primaries(q)) = Len(q)
      /\ \A i \in 1 .. Len(q) : Primaries(q)[i] = Primary(q[i])
  BY PrimariesOf
<1>4. Primary(item) \in Request
  BY PrimaryType
<1>5. /\ a \in Seq(Request) /\ Len(a) = Len(q) + 1 /\ a[Len(q) + 1] = Primary(item)
      /\ \A i \in 1 .. Len(q) : a[i] = Primary(q[i])
  BY <1>3, <1>4
<1> HIDE DEF p, a
<1>6. p \in ItemQueue
  <2>1. \A i \in DOMAIN p : i = Len(q) + 1 \/ i \in 1 .. Len(q)
    BY <1>2
  <2>2. \A i \in DOMAIN p : p[i] # <<>>
    BY <1>1, <1>2, <2>1
  <2>3. QED
    BY <1>2, <2>2 DEF ItemQueue
<1>7. /\ Primaries(p) \in Seq(Request) /\ Len(Primaries(p)) = Len(p)
      /\ \A i \in 1 .. Len(p) : Primaries(p)[i] = Primary(p[i])
  BY <1>6, PrimariesOf
<1>8. Primaries(p) = a
  <2>1. ASSUME NEW i \in 1 .. Len(a) PROVE Primaries(p)[i] = a[i]
    <3>1. i \in 1 .. Len(p) /\ (i = Len(q) + 1 \/ i \in 1 .. Len(q))
      BY <1>2, <1>5
    <3>2. QED
      BY <1>2, <1>5, <1>7, <3>1
  <2>2. /\ Primaries(p) \in Seq(Request) /\ a \in Seq(Request)
        /\ Len(Primaries(p)) = Len(a)
    BY <1>2, <1>5, <1>7
  <2> DEFINE b == Primaries(p)
  <2> HIDE DEF b
  <2>3. b = a
    <3>1. b \in Seq(Request) /\ a \in Seq(Request) /\ Len(b) = Len(a)
      BY <2>2 DEF b
    <3>2. \A i \in 1 .. Len(a) : b[i] = a[i]
      BY <2>1 DEF b
    <3>3. QED
      BY <3>1, <3>2, SeqEqual
  <2>4. QED
    BY <2>3 DEF b
<1>9. QED
  BY <1>6, <1>8 DEF p, a

\* An item in front of a queue.
LEMMA PrimariesFront ==
    ASSUME NEW q \in ItemQueue, NEW item \in Seq(Request), item # <<>>
    PROVE  /\ <<item>> \o q \in ItemQueue
           /\ Primaries(<<item>> \o q) = <<Primary(item)>> \o Primaries(q)
<1> DEFINE p == <<item>> \o q
           a == <<Primary(item)>> \o Primaries(q)
<1>1. q \in Seq(Seq(Request)) /\ \A i \in DOMAIN q : q[i] # <<>>
  BY DEF ItemQueue
<1>2. /\ p \in Seq(Seq(Request)) /\ Len(p) = Len(q) + 1 /\ DOMAIN p = 1 .. Len(q) + 1
      /\ Len(q) \in Nat /\ DOMAIN q = 1 .. Len(q)
      /\ p[1] = item /\ \A i \in 1 .. Len(q) + 1 : i # 1 => p[i] = q[i - 1]
  BY <1>1
<1>3. /\ Primaries(q) \in Seq(Request) /\ Len(Primaries(q)) = Len(q)
      /\ \A i \in 1 .. Len(q) : Primaries(q)[i] = Primary(q[i])
  BY PrimariesOf
<1>4. Primary(item) \in Request
  BY PrimaryType
<1>5. /\ a \in Seq(Request) /\ Len(a) = Len(q) + 1 /\ a[1] = Primary(item)
      /\ \A i \in 1 .. Len(q) + 1 : i # 1 => a[i] = Primary(q[i - 1])
  <2>1. /\ a \in Seq(Request) /\ Len(a) = Len(q) + 1 /\ a[1] = Primary(item)
        /\ \A i \in 1 .. Len(q) + 1 : i # 1 => a[i] = Primaries(q)[i - 1]
    BY <1>3, <1>4
  <2>2. QED
    BY <1>2, <1>3, <2>1
<1> HIDE DEF p, a
<1>6. \A i \in 1 .. Len(q) + 1 : i # 1 => i - 1 \in 1 .. Len(q)
  BY <1>2
<1>7. p \in ItemQueue
  BY <1>1, <1>2, <1>6 DEF ItemQueue
<1>8. /\ Primaries(p) \in Seq(Request) /\ Len(Primaries(p)) = Len(p)
      /\ \A i \in 1 .. Len(p) : Primaries(p)[i] = Primary(p[i])
  BY <1>7, PrimariesOf
<1>9. Primaries(p) = a
  <2>1. \A i \in 1 .. Len(a) : Primaries(p)[i] = a[i]
    BY <1>2, <1>5, <1>8
  <2>2. /\ Primaries(p) \in Seq(Request) /\ a \in Seq(Request)
        /\ Len(Primaries(p)) = Len(a)
    BY <1>2, <1>5, <1>8
  <2> DEFINE b == Primaries(p)
  <2> HIDE DEF b
  <2>3. b = a
    <3>1. b \in Seq(Request) /\ a \in Seq(Request) /\ Len(b) = Len(a)
      BY <2>2 DEF b
    <3>2. \A i \in 1 .. Len(a) : b[i] = a[i]
      BY <2>1 DEF b
    <3>3. QED
      BY <3>1, <3>2, SeqEqual
  <2>4. QED
    BY <2>3 DEF b
<1>10. QED
  BY <1>7, <1>9 DEF p, a

\* A queue is its first item and the others.
LEMMA PrimariesTail ==
    ASSUME NEW q \in ItemQueue, q # <<>>
    PROVE  /\ Head(q) \in Seq(Request) /\ Head(q) # <<>> /\ Tail(q) \in ItemQueue
           /\ Primaries(q) = <<Primary(Head(q))>> \o Primaries(Tail(q))
<1>1. q \in Seq(Seq(Request)) /\ \A i \in DOMAIN q : q[i] # <<>>
  BY DEF ItemQueue
<1>2. Head(q) \in Seq(Request) /\ Head(q) # <<>>
  BY <1>1
<1>3. Tail(q) \in ItemQueue
  <2>1. /\ Tail(q) \in Seq(Seq(Request))
        /\ \A i \in DOMAIN Tail(q) : i + 1 \in DOMAIN q /\ Tail(q)[i] = q[i + 1]
    BY <1>1
  <2>2. QED
    BY <1>1, <2>1 DEF ItemQueue
<1>4. q = <<Head(q)>> \o Tail(q)
  BY <1>1
<1>5. QED
  BY <1>2, <1>3, <1>4, PrimariesFront

\* What the steps of an agent do to its queue and its delivery.
LEMMA AgentEffects ==
    ASSUME Types, NEW u \in User
    PROVE  /\ AgentReceives(u) =>
                /\ run[u].phase = "idle" /\ userQueue[u] # <<>>
                /\ run'[u].item = Head(userQueue[u]) /\ run'[u].phase = "working"
                /\ userQueue'[u] = Tail(userQueue[u])
                /\ UNCHANGED <<events, skewed>>
           /\ AgentReports(u) =>
                /\ run[u].phase = "working" /\ run'[u].phase = "reported"
                /\ run'[u].item = run[u].item /\ userQueue' = userQueue
                /\ events' = Append(events, [session |-> Sess(Primary(run[u].item)),
                                             about |-> Primary(run[u].item)])
                /\ UNCHANGED skewed
           /\ AgentToolErrors(u) =>
                /\ run[u].phase = "working" /\ run' = run /\ userQueue' = userQueue
                /\ events' = Append(events, [session |-> Sess(Primary(run[u].item)),
                                             about |-> Primary(run[u].item)])
                /\ skewed' = skewed \cup {Sess(Primary(run[u].item))}
           /\ AgentFailsSilently(u) =>
                /\ run[u].phase = "working" /\ run'[u].phase = "reported"
                /\ run'[u].item = run[u].item /\ userQueue' = userQueue
                /\ skewed' = skewed \cup {Sess(Primary(run[u].item))}
                /\ UNCHANGED events
           /\ AgentSettles(u) =>
                /\ run[u].phase = "reported" /\ run'[u].phase = "idle"
                /\ userQueue' = userQueue /\ UNCHANGED <<events, skewed>>
           /\ AgentCrashes(u) =>
                /\ run[u].phase # "idle" /\ run'[u].phase = "idle"
                /\ userQueue'[u] = <<run[u].item>> \o userQueue[u]
                /\ run[u].phase = "working"
                   \/ skewed' = skewed \cup {Sess(Primary(run[u].item))}
                /\ UNCHANGED events
           /\ ItemExpires(u) =>
                /\ userQueue[u] # <<>> /\ run' = run
                /\ userQueue'[u] = Tail(userQueue[u])
                /\ skewed' = skewed \cup {Sess(Primary(Head(userQueue[u])))}
                /\ UNCHANGED events
           /\ (AgentStep(u) \/ AgentToolErrors(u) \/ AgentCrashes(u) \/ ItemExpires(u)) =>
                /\ \A v \in User : v # u => run'[v] = run[v] /\ userQueue'[v] = userQueue[v]
                /\ UNCHANGED <<pc, published, registry, replies>>
<1> USE DEF dedupVars, collectVars, agentVars, historyVars
<1>1. /\ userQueue \in [User -> Seq(Seq(Request))]
      /\ run \in [User -> [item : Seq(Request), phase : Phase]]
  BY DEF Types, TypeOK
<1>2. run[u] \in [item : Seq(Request), phase : Phase]
  BY <1>1
<1>3. ASSUME AgentReceives(u)
      PROVE  /\ run[u].phase = "idle" /\ userQueue[u] # <<>>
             /\ run'[u].item = Head(userQueue[u]) /\ run'[u].phase = "working"
             /\ userQueue'[u] = Tail(userQueue[u])
             /\ UNCHANGED <<events, skewed>>
  BY <1>1, <1>3 DEF AgentReceives, Running
<1>4. ASSUME AgentReports(u)
      PROVE  /\ run[u].phase = "working" /\ run'[u].phase = "reported"
             /\ run'[u].item = run[u].item /\ userQueue' = userQueue
             /\ events' = Append(events, [session |-> Sess(Primary(run[u].item)),
                                          about |-> Primary(run[u].item)])
             /\ UNCHANGED skewed
  BY <1>1, <1>2, <1>4 DEF AgentReports
<1>5. ASSUME AgentFailsSilently(u)
      PROVE  /\ run[u].phase = "working" /\ run'[u].phase = "reported"
             /\ run'[u].item = run[u].item /\ userQueue' = userQueue
             /\ skewed' = skewed \cup {Sess(Primary(run[u].item))}
             /\ UNCHANGED events
  BY <1>1, <1>2, <1>5 DEF AgentFailsSilently
<1>6. ASSUME AgentSettles(u)
      PROVE  /\ run[u].phase = "reported" /\ run'[u].phase = "idle"
             /\ userQueue' = userQueue /\ UNCHANGED <<events, skewed>>
  BY <1>1, <1>6 DEF AgentSettles, Running
<1>7. ASSUME AgentCrashes(u)
      PROVE  /\ run[u].phase # "idle" /\ run'[u].phase = "idle"
             /\ userQueue'[u] = <<run[u].item>> \o userQueue[u]
             /\ run[u].phase = "working"
                \/ skewed' = skewed \cup {Sess(Primary(run[u].item))}
             /\ UNCHANGED events
  <2>1. run'[u].phase = "idle" /\ run[u].phase # "idle" /\ UNCHANGED events
    BY <1>1, <1>7 DEF AgentCrashes, Running
  <2>2. userQueue'[u] = <<run[u].item>> \o userQueue[u]
    BY <1>1, <1>7 DEF AgentCrashes
  <2>3. run[u].phase = "working" \/ run[u].phase = "reported"
    BY <1>2, <2>1 DEF Phase
  <2>4. QED
    BY <1>7, <2>1, <2>2, <2>3 DEF AgentCrashes
<1>8. ASSUME ItemExpires(u)
      PROVE  /\ userQueue[u] # <<>> /\ run' = run
             /\ userQueue'[u] = Tail(userQueue[u])
             /\ skewed' = skewed \cup {Sess(Primary(Head(userQueue[u])))}
             /\ UNCHANGED events
  BY <1>1, <1>8 DEF ItemExpires
<1>9. ASSUME AgentStep(u) \/ AgentToolErrors(u) \/ AgentCrashes(u) \/ ItemExpires(u)
      PROVE  /\ \A v \in User : v # u => run'[v] = run[v] /\ userQueue'[v] = userQueue[v]
             /\ UNCHANGED <<pc, published, registry, replies>>
  BY <1>1, <1>9 DEF AgentStep, AgentReceives, AgentReports, AgentFailsSilently,
                    AgentSettles, AgentToolErrors, AgentCrashes, ItemExpires
<1>10. ASSUME AgentToolErrors(u)
       PROVE  /\ run[u].phase = "working" /\ run' = run /\ userQueue' = userQueue
              /\ events' = Append(events, [session |-> Sess(Primary(run[u].item)),
                                           about |-> Primary(run[u].item)])
              /\ skewed' = skewed \cup {Sess(Primary(run[u].item))}
  BY <1>10 DEF AgentToolErrors
<1>11. QED
  BY <1>10, <1>3, <1>4, <1>5, <1>6, <1>7, <1>8, <1>9

\* An item of user u whose primary message is in S.
Belongs(S, u, item) ==
    item \in Seq(Request) /\ item # <<>> /\ Usr(Primary(item)) = u /\ Primary(item) \in S

\* Whatever an agent or the dispatcher has was published to that user.
SentItems ==
    /\ \A i \in DOMAIN events : events[i].about \in Sent
    /\ \A u \in User : run[u].phase # "idle" => Belongs(Sent, u, run[u].item)
    /\ \A u \in User : \A i \in DOMAIN userQueue[u] : Belongs(Sent, u, userQueue[u][i])

\* An item that is put into a queue (PublishMessage).
LEMMA PublishedItem ==
    ASSUME Types, CollectedAreEnqueued, CollectedOnce, NEW item,
           \/ \E r \in Request : Publish(r) /\ item = <<r>>
           \/ \E b \in taken : FlushPublishes(b) /\ item = b.msgs
    PROVE  /\ item \in Seq(Request) /\ item # <<>>
           /\ Enqueue(item)
           /\ UNCHANGED <<run, events, registry, replies>>
           /\ Primary(item) \in Pending /\ Primary(item) \in Sent'
<1> USE DEF dedupVars, collectVars, agentVars, historyVars
<1> DEFINE Goal == /\ item \in Seq(Request) /\ item # <<>>
                   /\ Enqueue(item)
                   /\ UNCHANGED <<run, events, registry, replies>>
                   /\ Primary(item) \in Pending /\ Primary(item) \in Sent'
<1>1. pc \in [Request -> Place]
  BY DEF Types, TypeOK
<1>2. ASSUME NEW r \in Request, Publish(r), item = <<r>> PROVE Goal
  <2>1. Enqueue(<<r>>) /\ UNCHANGED <<run, events, registry, replies>>
    BY <1>2 DEF Publish
  <2>2. Primary(item) = r
    BY <1>2 DEF Primary
  <2>3. pc'[r] \in {"signal", "ok"} /\ pc[r] = "accepted"
    BY <1>1, <1>2 DEF Publish, Goto
  <2>4. r \in Pending /\ r \in Sent'
    BY <2>3 DEF Pending, Sent, Unpublished
  <2>5. QED
    BY <1>2, <2>1, <2>2, <2>4
<1>3. ASSUME NEW b \in taken, FlushPublishes(b), item = b.msgs PROVE Goal
  <2>1. Enqueue(item) /\ UNCHANGED <<pc, run, events, registry, replies>>
    BY <1>3 DEF FlushPublishes
  <2>2. item \in Seq(Request) /\ item # <<>>
    BY <1>3, BatchIsItem
  <2>3. Primary(item) \in Range(item) /\ Primary(item) \in Request
    <3>1. Len(item) \in DOMAIN item
      BY <2>2
    <3>2. QED
      BY <2>2, <3>1, PrimaryType DEF Primary, Range
  <2>4. pc[Primary(item)] = "enqueued" /\ b \in published'
    BY <1>3, <2>3 DEF CollectedAreEnqueued, FlushPublishes, Collect!PublishBatch
  <2>5. \A c \in published : Primary(item) \notin Range(c.msgs)
    BY <1>3, <2>3 DEF CollectedOnce
  <2> DEFINE r == Primary(item)
  <2>6. Primary(item) \in Pending
    BY <2>3, <2>4, <2>5 DEF Pending, Unpublished
  <2>7. /\ r \in Request /\ pc'[r] = "enqueued" /\ r \in Range(b.msgs) /\ b \in published'
    BY <1>3, <2>1, <2>3, <2>4
  <2> HIDE DEF r
  <2>8. r \in Sent'
    BY <2>7 DEF Sent, Unpublished
  <2>9. QED
    BY <2>1, <2>2, <2>6, <2>8 DEF r
<1>4. QED
  BY <1>2, <1>3

\* Queues hold what was published to their user, after any step.
LEMMA QueuesHoldOwn ==
    ASSUME Types, CollectedAreEnqueued, CollectedOnce, SentItems, [Next]_vars, NEW v \in User
    PROVE  /\ run'[v].phase # "idle" => Belongs(Sent', v, run'[v].item)
           /\ \A i \in DOMAIN userQueue'[v] : Belongs(Sent', v, userQueue'[v][i])
<1> DEFINE Keeps(item) == Belongs(Sent', v, item)
           InRun == run'[v].phase # "idle" => Keeps(run'[v].item)
           InQueue == \A i \in DOMAIN userQueue'[v] : Keeps(userQueue'[v][i])
           Goal == InRun /\ InQueue
<1>1. /\ userQueue \in [User -> Seq(Seq(Request))]
      /\ run \in [User -> [item : Seq(Request), phase : Phase]]
  BY DEF Types, TypeOK
<1>2. Sent \subseteq Sent'
  BY SentStays
<1>3. \A item : Belongs(Sent, v, item) => Keeps(item)
  BY <1>2 DEF Belongs
<1>4. /\ run[v].phase # "idle" => Keeps(run[v].item)
      /\ \A i \in DOMAIN userQueue[v] : Keeps(userQueue[v][i])
  BY <1>3 DEF SentItems
<1> HIDE DEF Keeps
<1>5. ASSUME run'[v] = run[v], userQueue'[v] = userQueue[v] PROVE Goal
  BY <1>4, <1>5
<1>6. userQueue[v] \in Seq(Seq(Request))
  BY <1>1
<1>7. ASSUME NEW q, userQueue'[v] = q, q \in Seq(Seq(Request)), \A i \in DOMAIN q : Keeps(q[i])
      PROVE  InQueue
  BY <1>7
<1>8. ASSUME userQueue[v] # <<>>
      PROVE  /\ Keeps(Head(userQueue[v]))
             /\ userQueue'[v] = Tail(userQueue[v]) => InQueue
  <2>1. /\ 1 \in DOMAIN userQueue[v] /\ Head(userQueue[v]) = userQueue[v][1]
        /\ \A i \in DOMAIN Tail(userQueue[v]) :
             i + 1 \in DOMAIN userQueue[v] /\ Tail(userQueue[v])[i] = userQueue[v][i + 1]
    BY <1>6, <1>8
  <2>2. QED
    BY <1>4, <2>1
<1>9. ASSUME NEW u \in User, AgentStep(u) \/ AgentCrashes(u) \/ ItemExpires(u) PROVE Goal
  <2>1. CASE u # v
    <3>1. run'[v] = run[v] /\ userQueue'[v] = userQueue[v]
      BY <1>9, <2>1, AgentEffects
    <3>2. QED
      BY <1>5, <3>1
  <2>2. CASE u = v
    <3>1. CASE AgentReceives(v)
      <4>1. /\ userQueue[v] # <<>> /\ run'[v].item = Head(userQueue[v])
            /\ userQueue'[v] = Tail(userQueue[v])
        BY <3>1, AgentEffects
      <4>2. QED
        BY <1>8, <4>1
    <3>2. CASE AgentReports(v) \/ AgentFailsSilently(v)
      <4>1. run[v].phase # "idle" /\ run'[v].item = run[v].item /\ userQueue' = userQueue
        BY <3>2, AgentEffects
      <4>2. QED
        BY <1>4, <4>1
    <3>3. CASE AgentSettles(v)
      <4>1. run'[v].phase = "idle" /\ userQueue' = userQueue
        BY <3>3, AgentEffects
      <4>2. QED
        BY <1>4, <4>1
    <3>4. CASE AgentCrashes(v)
      <4> DEFINE x == run[v].item
                 q == <<x>> \o userQueue[v]
      <4>1. run'[v].phase = "idle" /\ run[v].phase # "idle" /\ userQueue'[v] = q
        BY <3>4, AgentEffects
      <4>2. Keeps(x) /\ x \in Seq(Request)
        BY <1>1, <1>4, <4>1
      <4> HIDE DEF x
      <4>3. /\ \A i \in DOMAIN q : i = 1 \/ i - 1 \in DOMAIN userQueue[v]
            /\ q[1] = x /\ \A i \in DOMAIN q : i # 1 => q[i] = userQueue[v][i - 1]
        BY <1>6, <4>2
      <4> HIDE DEF q
      <4>4. \A i \in DOMAIN q : Keeps(q[i])
        BY <1>4, <4>2, <4>3
      <4>5. QED
        BY <4>1, <4>4
    <3>5. CASE ItemExpires(v)
      <4>1. userQueue[v] # <<>> /\ run' = run /\ userQueue'[v] = Tail(userQueue[v])
        BY <3>5, AgentEffects
      <4>2. QED
        BY <1>4, <1>8, <4>1
    <3>6. QED
      BY <1>9, <2>2, <3>1, <3>2, <3>3, <3>4, <3>5 DEF AgentStep
  <2>3. QED
    BY <2>1, <2>2
<1>10. ASSUME NEW item,
              \/ \E r \in Request : Publish(r) /\ item = <<r>>
              \/ \E b \in taken : FlushPublishes(b) /\ item = b.msgs
       PROVE  Goal
  <2>1. /\ item \in Seq(Request) /\ item # <<>> /\ Enqueue(item)
        /\ run' = run /\ Primary(item) \in Sent'
    BY <1>10, PublishedItem
  <2> DEFINE u == Usr(Primary(item))
  <2>2. u \in User
    BY <2>1, PrimaryType, RequestTypes
  <2>3. Belongs(Sent', u, item)
    BY <2>1 DEF Belongs
  <2>4. CASE userQueue' = userQueue
    BY <1>4, <2>1, <2>4
  <2>5. CASE userQueue' = [userQueue EXCEPT ![u] = Append(@, item)]
    <3> HIDE DEF u
    <3>1. CASE u # v
      BY <1>1, <1>4, <2>1, <2>5, <3>1
    <3>2. CASE u = v
      <4> DEFINE q == Append(userQueue[v], item)
      <4>1. userQueue'[v] = q /\ Keeps(item)
        BY <1>1, <2>3, <2>5, <3>2 DEF Keeps
      <4>2. /\ DOMAIN q = 1 .. Len(userQueue[v]) + 1 /\ Len(userQueue[v]) \in Nat
            /\ DOMAIN userQueue[v] = 1 .. Len(userQueue[v])
            /\ q[Len(userQueue[v]) + 1] = item
            /\ \A i \in 1 .. Len(userQueue[v]) : q[i] = userQueue[v][i]
        BY <1>6, <2>1
      <4> HIDE DEF q
      <4>3. \A i \in DOMAIN q : i = Len(userQueue[v]) + 1 \/ i \in 1 .. Len(userQueue[v])
        BY <4>2
      <4>4. \A i \in DOMAIN q : Keeps(q[i])
        BY <1>4, <4>1, <4>2, <4>3
      <4>5. QED
        BY <1>4, <2>1, <4>1, <4>4
    <3>3. QED
      BY <3>1, <3>2
  <2>6. QED
    BY <2>1, <2>4, <2>5 DEF Enqueue
<1>11. Goal
  <2>1. CASE UNCHANGED <<userQueue, run>>
    BY <1>5, <2>1
  <2>2. ASSUME NEW r \in Request, Publish(r) PROVE Goal
    BY <1>10, <2>2
  <2>3. ASSUME NEW b \in taken, FlushPublishes(b) PROVE Goal
    BY <1>10, <2>3
  <2> HIDE DEF Goal
  <2>4. QED
    BY <1>9, <2>1, <2>2, <2>3, QueueSteps
<1>12. QED
  BY <1>11 DEF Keeps

\* Whatever an agent or the dispatcher has was published, after any step.
LEMMA SentItemsStep ==
    ASSUME Types, CollectedAreEnqueued, CollectedOnce, SentItems, [Next]_vars
    PROVE  SentItems'
<1>1. events \in Seq([session : Session, about : Request])
  BY DEF Types, TypeOK
<1>2. Sent \subseteq Sent'
  BY SentStays
<1>3. \A i \in DOMAIN events' : events'[i].about \in Sent'
  <2>1. ASSUME NEW u \in User, AgentPublishes(u)
        PROVE  \A i \in DOMAIN events' : events'[i].about \in Sent'
    <3> DEFINE r == Primary(run[u].item)
               e == [session |-> Sess(r), about |-> r]
    <3>1. run[u].phase # "idle" /\ events' = Append(events, e)
      BY <2>1, AgentEffects DEF AgentPublishes
    <3>2. r \in Sent
      BY <3>1 DEF SentItems, Belongs
    <3>3. r \in Request /\ Sess(r) \in Session
      BY <3>2, RequestTypes DEF Sent
    <3> HIDE DEF r
    <3>4. e \in [session : Session, about : Request] /\ e.about = r
      BY <3>3
    <3> HIDE DEF e
    <3>5. /\ DOMAIN events' = 1 .. Len(events) + 1 /\ DOMAIN events = 1 .. Len(events)
          /\ Len(events) \in Nat /\ events'[Len(events) + 1] = e
          /\ \A i \in 1 .. Len(events) : events'[i] = events[i]
      BY <1>1, <3>1, <3>4, AppendProperties
    <3>6. \A i \in DOMAIN events' : i = Len(events) + 1 \/ i \in 1 .. Len(events)
      BY <3>5
    <3>7. QED
      BY <1>2, <3>2, <3>4, <3>5, <3>6 DEF SentItems
  <2>2. ASSUME Dispatch \/ DispatchFindsNothing
        PROVE  \A i \in DOMAIN events' : events'[i].about \in Sent'
    <3>1. events' = Tail(events) /\ events # <<>>
      BY <2>2 DEF Dispatch, DispatchFindsNothing
    <3>2. \A i \in DOMAIN events' :
             i + 1 \in DOMAIN events /\ events'[i] = events[i + 1]
      BY <1>1, <3>1
    <3>3. QED
      BY <1>2, <3>2 DEF SentItems
  <2>3. ASSUME UNCHANGED events
        PROVE  \A i \in DOMAIN events' : events'[i].about \in Sent'
    BY <1>2, <2>3 DEF SentItems
  <2>4. QED
    BY <2>1, <2>2, <2>3, EventSteps
<1>4. QED
  BY <1>3, QueuesHoldOwn DEF SentItems

\* A request of another session does not count.
LEMMA LeaveOut ==
  ASSUME NEW s, NEW a \in Seq(Request), NEW b \in Seq(Request),
         NEW p \in Request, Sess(p) # s
  PROVE  OfSession(s, (a \o <<p>>) \o b) = OfSession(s, a \o b)
<1>1. <<p>> \in Seq(Request) /\ a \o <<p>> \in Seq(Request)
  OBVIOUS
<1>2. OfSession(s, <<p>>) = <<>>
  BY OfSessionOne
<1>3. OfSession(s, a) \in Seq(Request) /\ OfSession(s, b) \in Seq(Request)
  BY OfSessionFrom
<1>4. OfSession(s, a \o <<p>>) = OfSession(s, a) \o OfSession(s, <<p>>)
  BY <1>1, OfSessionConcat
<1>5. OfSession(s, a) \o <<>> = OfSession(s, a)
  BY <1>3, ConcatEmptySeq
<1>6. OfSession(s, (a \o <<p>>) \o b) = OfSession(s, a \o <<p>>) \o OfSession(s, b)
  BY <1>1, OfSessionConcat
<1>7. OfSession(s, a \o b) = OfSession(s, a) \o OfSession(s, b)
  BY OfSessionConcat
<1>8. QED
  BY <1>2, <1>4, <1>5, <1>6, <1>7, Zenon

\* One request handed on, from the front of the last part to the middle one,
\* or from the middle one to the first.
LEMMA HandedOn ==
  ASSUME NEW a \in Seq(Request), NEW b \in Seq(Request), NEW p \in Request
  PROVE  /\ (a \o <<>>) \o (<<p>> \o b) = (a \o <<p>>) \o b
         /\ ((a \o <<p>>) \o <<>>) \o b = (a \o <<p>>) \o b
         /\ Append(a, p) = a \o <<p>>
         /\ (a \o <<>>) \o b = a \o b
<1>1. <<p>> \in Seq(Request) /\ a \o <<p>> \in Seq(Request)
  OBVIOUS
<1>2. a \o <<>> = a /\ (a \o <<p>>) \o <<>> = a \o <<p>>
  BY <1>1, ConcatEmptySeq
<1>3. a \o (<<p>> \o b) = (a \o <<p>>) \o b
  BY <1>1, ConcatAssociative
<1>4. Append(a, p) = a \o <<p>>
  BY AppendIsConcat
<1>5. QED
  BY <1>2, <1>3, <1>4

\* The same where the other parts come in three.
LEMMA LeaveOutOfThree ==
  ASSUME NEW s, NEW a \in Seq(Request), NEW b \in Seq(Request), NEW c \in Seq(Request),
         NEW p \in Request, Sess(p) # s
  PROVE  /\ OfSession(s, (a \o b) \o (<<p>> \o c)) = OfSession(s, (a \o b) \o c)
         /\ OfSession(s, ((a \o <<p>>) \o b) \o c) = OfSession(s, (a \o b) \o c)
<1> DEFINE x == a \o b
           y == b \o c
           o == <<p>>
           z == a \o o
<1>1. x \in Seq(Request) /\ y \in Seq(Request) /\ o \in Seq(Request) /\ z \in Seq(Request)
  OBVIOUS
<1>2. x \o (o \o c) = (x \o o) \o c
  <2>1. (x \o <<>>) \o (<<p>> \o c) = (x \o <<p>>) \o c /\ x \o <<>> = x
    <3>1. x \in Seq(Request)
      BY <1>1
    <3> HIDE DEF x
    <3>2. (x \o <<>>) \o (<<p>> \o c) = (x \o <<p>>) \o c
      BY <3>1, HandedOn, ZenonT(40)
    <3>3. x \o <<>> = x
      BY <3>1, ConcatEmptySeq
    <3>4. QED
      BY <3>2, <3>3
  <2>2. QED
    BY <2>1
<1>3. OfSession(s, (x \o o) \o c) = OfSession(s, x \o c)
  <2> HIDE DEF x
  <2>1. QED
    BY <1>1, LeaveOut
<1>4. (z \o b) \o c = z \o y /\ x \o c = a \o y
  <2>1. (z \o b) \o c = z \o (b \o c)
    <3> HIDE DEF z
    <3>1. QED
      BY <1>1, ConcatAssociative, SMTT(40)
  <2>2. (a \o b) \o c = a \o (b \o c)
    BY ConcatAssociative
  <2>3. QED
    BY <2>1, <2>2
<1>5. OfSession(s, z \o y) = OfSession(s, a \o y)
  <2> HIDE DEF y
  <2>1. QED
    BY <1>1, LeaveOut
<1>6. QED
  BY <1>2, <1>3, <1>4, <1>5

\* What the dispatcher will see of user u, in order.
Stream(u) == (Reported \o AtWork(u)) \o Queued(u)

\* The parts of it are requests.
LEMMA StreamTypes ==
    ASSUME Types, NEW u \in User
    PROVE  /\ Reported \in Seq(Request) /\ Len(Reported) = Len(events)
           /\ \A i \in 1 .. Len(events) : Reported[i] = events[i].about
           /\ userQueue[u] \in ItemQueue /\ Queued(u) = Primaries(userQueue[u])
           /\ Queued(u) \in Seq(Request)
           /\ run[u].phase # "idle" => Primary(run[u].item) \in Request
                                         /\ run[u].item \in Seq(Request) /\ run[u].item # <<>>
           /\ AtWork(u) \in Seq(Request)
           /\ Stream(u) \in Seq(Request)
<1>1. /\ events \in Seq([session : Session, about : Request])
      /\ userQueue[u] \in Seq(Seq(Request)) /\ \A i \in DOMAIN userQueue[u] : userQueue[u][i] # <<>>
      /\ run[u] \in [item : Seq(Request), phase : Phase]
      /\ run[u].phase # "idle" => run[u].item # <<>>
  BY DEF Types, TypeOK, ItemsHoldMessages
<1>2. /\ Reported \in Seq(Request) /\ Len(Reported) = Len(events)
      /\ \A i \in 1 .. Len(events) : Reported[i] = events[i].about
  <2>1. DOMAIN events = 1 .. Len(events) /\ Len(events) \in Nat
    BY <1>1
  <2>2. \A i \in 1 .. Len(events) : events[i].about \in Request
    <3>1. ASSUME NEW i \in 1 .. Len(events) PROVE events[i].about \in Request
      <4>1. events[i] \in [session : Session, about : Request]
        BY <1>1, ElementOfSeq
      <4>2. QED
        BY <4>1
    <3>2. QED
      BY <3>1
  <2>3. Reported \in [1 .. Len(events) -> Request] /\ DOMAIN Reported = 1 .. Len(events)
    BY <2>1, <2>2 DEF Reported
  <2>4. QED
    BY <2>1, <2>3 DEF Reported
<1>3. userQueue[u] \in ItemQueue /\ Queued(u) = Primaries(userQueue[u])
  BY <1>1 DEF ItemQueue, Queued, Primaries
<1>4. Queued(u) \in Seq(Request)
  BY <1>3, PrimariesOf
<1>5. run[u].phase # "idle" => Primary(run[u].item) \in Request
                                 /\ run[u].item \in Seq(Request) /\ run[u].item # <<>>
  BY <1>1, PrimaryType
<1>6. AtWork(u) \in Seq(Request)
  BY <1>5 DEF AtWork
<1>7. Stream(u) \in Seq(Request)
  BY <1>2, <1>4, <1>6 DEF Stream
<1>8. QED
  BY <1>2, <1>3, <1>4, <1>5, <1>6, <1>7

\* In this state and in the next.
StreamIsTyped ==
    \A u \in User : /\ Reported \in Seq(Request) /\ AtWork(u) \in Seq(Request)
                    /\ Queued(u) \in Seq(Request)

\* The types give that.
LEMMA StreamTyped == Types => StreamIsTyped
BY StreamTypes DEF StreamIsTyped

\* Those of the next state too.
LEMMA StreamTypedNext == Types' => StreamIsTyped'
BY StreamTyped, PTL

\* An agent that publishes an event puts its request at the end of those
\* reported.
LEMMA EventAppended ==
    ASSUME Types, Types', NEW u \in User, AgentPublishes(u)
    PROVE  Reported' = Reported \o <<Primary(run[u].item)>>
<1> DEFINE R == Reported
           R2 == Reported'
           p == Primary(run[u].item)
<1>1. R \in Seq(Request) /\ R2 \in Seq(Request)
  BY StreamTyped, StreamTypedNext DEF StreamIsTyped
<1>2. /\ run[u].phase # "idle"
      /\ events' = Append(events, [session |-> Sess(p), about |-> p])
  BY AgentEffects DEF AgentPublishes
<1>3. p \in Request
  BY <1>2, StreamTypes
<1>4. R2 = R \o <<p>>
  <2>1. p \in Request /\ Sess(p) \in Session
    BY <1>3, <1>2, RequestTypes
  <2>2. /\ Reported \in Seq(Request) /\ Len(Reported) = Len(events)
        /\ \A i \in 1 .. Len(events) : Reported[i] = events[i].about
    BY StreamTypes
  <2> DEFINE e == [session |-> Sess(p), about |-> p]
  <2>3. e \in [session : Session, about : Request] /\ e.about = p
    BY <2>1
  <2>4. events \in Seq([session : Session, about : Request])
    BY DEF Types, TypeOK
  <2> HIDE DEF e
  <2>5. /\ DOMAIN events' = 1 .. Len(events) + 1 /\ Len(events) \in Nat
        /\ events'[Len(events) + 1] = e
        /\ \A i \in 1 .. Len(events) : events'[i] = events[i]
    BY <1>2, <2>3, <2>4, AppendProperties DEF e
  <2> DEFINE a == Append(Reported, p)
  <2>6. /\ a \in Seq(Request) /\ Len(a) = Len(events) + 1 /\ a[Len(events) + 1] = p
        /\ \A i \in 1 .. Len(events) : a[i] = events[i].about
    BY <2>1, <2>2
  <2>7. R2 = [i \in 1 .. Len(events) + 1 |-> events'[i].about]
    BY <2>5 DEF Reported
  <2> HIDE DEF a, p, R2
  <2>8. DOMAIN R2 = 1 .. Len(events) + 1 /\ Len(R2) = Len(events) + 1
    BY <2>5, <2>7
  <2>9. ASSUME NEW i \in 1 .. Len(R2) PROVE R2[i] = a[i]
    <3>1. i = Len(events) + 1 \/ i \in 1 .. Len(events)
      BY <2>5, <2>8
    <3>2. QED
      BY <2>3, <2>5, <2>6, <2>7, <2>8, <2>9, <3>1
  <2>10. R2 = a
    BY <1>1, <2>6, <2>8, <2>9, SeqEqual DEF R2
  <2>11. QED
    BY <1>1, <2>1, <2>10, HandedOn DEF a, R
<1>5. QED
  BY <1>4

\* Agents and the broker change nothing in the order of the answers of a
\* session that they do not upset: they hand a request on, give it back to
\* the front, or lose one of another session.
LEMMA AgentsKeepOrder ==
    ASSUME Types, Types', SentItems, NEW u \in User, NEW s \in Session, s \notin skewed',
           AgentStep(u) \/ AgentToolErrors(u) \/ AgentCrashes(u) \/ ItemExpires(u)
    PROVE  Outstanding(s)' = Outstanding(s)
<1> DEFINE v == UserOf[s]
           R == Reported
           W == AtWork(v)
           Q == Queued(v)
           R2 == Reported'
           W2 == AtWork(v)'
           Q2 == Queued(v)'
           p == Primary(run[u].item)
           h == Primary(Head(userQueue[u]))
<1>1. v \in User
  BY GatewayAssumption
<1>2. /\ R \in Seq(Request) /\ W \in Seq(Request) /\ Q \in Seq(Request)
      /\ R2 \in Seq(Request) /\ W2 \in Seq(Request) /\ Q2 \in Seq(Request)
  BY <1>1, StreamTyped, StreamTypedNext DEF StreamIsTyped
<1>3. /\ Outstanding(s) = OfSession(s, (R \o W) \o Q)
      /\ Outstanding(s)' = OfSession(s, (R2 \o W2) \o Q2)
  BY DEF Outstanding
<1>4. /\ UNCHANGED events => R2 = R
      /\ run'[v] = run[v] => W2 = W
      /\ run[v].phase # "working" => W = <<>>
      /\ run[v].phase = "working" => W = <<Primary(run[v].item)>>
      /\ run'[v].phase # "working" => W2 = <<>>
      /\ run'[v].phase = "working" => W2 = <<Primary(run'[v].item)>>
      /\ userQueue'[v] = userQueue[v] => Q2 = Q
  BY DEF Reported, AtWork, Queued
<1>5. /\ userQueue[v] \in ItemQueue /\ Q = Primaries(userQueue[v])
      /\ Q2 = Primaries(userQueue'[v])
  BY <1>1, StreamTypes DEF Queued, Primaries
<1>6. run[u].phase # "idle" => /\ p \in Request /\ Usr(p) = u
                               /\ run[u].item \in Seq(Request) /\ run[u].item # <<>>
  <2>1. run[u].phase # "idle" => /\ p \in Request
                                 /\ run[u].item \in Seq(Request) /\ run[u].item # <<>>
    BY StreamTypes
  <2>2. QED
    BY <2>1 DEF SentItems, Belongs
<1>7. ASSUME userQueue[v] # <<>>
      PROVE  /\ Primary(Head(userQueue[v])) \in Request
             /\ Q = <<Primary(Head(userQueue[v]))>> \o Primaries(Tail(userQueue[v]))
  BY <1>5, <1>7, PrimariesTail, PrimaryType
<1>8. CASE AgentReports(u)
  <2>1. /\ run[u].phase = "working" /\ run'[u].phase = "reported"
        /\ userQueue' = userQueue
        /\ events' = Append(events, [session |-> Sess(p), about |-> p])
    BY <1>8, AgentEffects
  <2>2. R2 = R \o <<p>>
    BY <1>8, EventAppended DEF AgentPublishes
  <2>3. Q2 = Q /\ p \in Request
    BY <1>4, <1>6, <2>1
  <2>4. CASE u = v
    <3>1. W = <<p>> /\ W2 = <<>>
      BY <1>4, <2>1, <2>4
    <3>2. ((R \o <<p>>) \o <<>>) \o Q = (R \o <<p>>) \o Q
      BY <1>2, <2>3, HandedOn
    <3>3. (R2 \o W2) \o Q2 = (R \o W) \o Q
      BY <2>2, <2>3, <3>1, <3>2
    <3>4. QED
      BY <1>3, <3>3
  <2>5. CASE u # v
    <3>1. W2 = W
      BY <1>1, <1>4, <1>8, <2>5, AgentEffects DEF AgentStep
    <3>2. Sess(p) # s
      BY <1>6, <2>1, <2>5 DEF Usr
    <3> HIDE DEF R, W, Q, R2, W2, Q2, p
    <3>3. OfSession(s, ((R \o <<p>>) \o W) \o Q) = OfSession(s, (R \o W) \o Q)
      BY <1>2, <2>3, <3>2, LeaveOutOfThree
    <3>4. QED
      BY <1>3, <2>2, <2>3, <3>1, <3>3
  <2>6. QED
    BY <2>4, <2>5
<1>9. CASE u # v /\ ~AgentPublishes(u)
  <2>1. run'[v] = run[v] /\ userQueue'[v] = userQueue[v] /\ UNCHANGED events
    BY <1>1, <1>9, AgentEffects DEF AgentStep, AgentPublishes
  <2>2. R2 = R /\ W2 = W /\ Q2 = Q
    BY <1>4, <2>1
  <2>3. QED
    BY <1>3, <2>2
<1>10. CASE u = v /\ AgentReceives(u)
  <2>1. /\ run[v].phase = "idle" /\ userQueue[v] # <<>>
        /\ run'[v].item = Head(userQueue[v]) /\ run'[v].phase = "working"
        /\ userQueue'[v] = Tail(userQueue[v]) /\ UNCHANGED events
    BY <1>10, AgentEffects
  <2>2. R2 = R /\ W = <<>> /\ W2 = <<h>> /\ h \in Request /\ Q = <<h>> \o Q2
    BY <1>4, <1>5, <1>7, <1>10, <2>1
  <2> HIDE DEF R, W, Q, R2, W2, Q2, h
  <2>3. R \in Seq(Request) /\ Q2 \in Seq(Request) /\ h \in Request
    BY <1>2, <2>2
  <2>4. (R \o <<>>) \o (<<h>> \o Q2) = (R \o <<h>>) \o Q2
    BY <2>3, HandedOn, Zenon
  <2>5. QED
    BY <1>3, <2>2, <2>4
<1>11. CASE u = v /\ AgentFailsSilently(u)
  <2>1. /\ run[v].phase = "working" /\ run'[v].phase = "reported"
        /\ userQueue' = userQueue /\ UNCHANGED events
        /\ skewed' = skewed \cup {Sess(p)}
    BY <1>11, AgentEffects
  <2>2. R2 = R /\ W = <<p>> /\ W2 = <<>> /\ p \in Request /\ Q2 = Q /\ Sess(p) # s
    BY <1>4, <1>6, <1>11, <2>1
  <2> HIDE DEF R, W, Q, R2, W2, Q2, p
  <2>3. (R \o <<>>) \o Q = R \o Q
    BY <1>2, <2>2, HandedOn
  <2>4. OfSession(s, (R \o <<p>>) \o Q) = OfSession(s, R \o Q)
    BY <1>2, <2>2, LeaveOut
  <2>5. QED
    BY <1>3, <2>2, <2>3, <2>4
<1>12. CASE u = v /\ AgentSettles(u)
  <2>1. /\ run[v].phase = "reported" /\ run'[v].phase = "idle"
        /\ userQueue' = userQueue /\ UNCHANGED events
    BY <1>12, AgentEffects
  <2>2. R2 = R /\ W = <<>> /\ W2 = <<>> /\ Q2 = Q
    BY <1>4, <2>1
  <2>3. QED
    BY <1>3, <2>2
<1>13. CASE u = v /\ AgentCrashes(u)
  <2>1. /\ run[v].phase # "idle" /\ run'[v].phase = "idle"
        /\ userQueue'[v] = <<run[v].item>> \o userQueue[v] /\ UNCHANGED events
        /\ run[v].phase = "working" \/ skewed' = skewed \cup {Sess(p)}
    BY <1>13, AgentEffects
  <2>2. p \in Request /\ Q2 = <<p>> \o Q
    BY <1>5, <1>6, <1>13, <2>1, PrimariesFront
  <2>3. R2 = R /\ W2 = <<>>
    BY <1>4, <2>1
  <2>4. (R \o <<>>) \o (<<p>> \o Q) = (R \o <<p>>) \o Q
    <3>1. R \in Seq(Request) /\ Q \in Seq(Request) /\ p \in Request
      BY <1>2, <2>2
    <3> HIDE DEF R, Q, p
    <3>2. QED
      BY <3>1, HandedOn, ZenonT(40)
  <2>5. CASE run[v].phase = "working"
    <3>1. W = <<p>>
      BY <1>4, <1>13, <2>5
    <3>2. QED
      BY <1>3, <2>2, <2>3, <2>4, <3>1
  <2>6. CASE run[v].phase # "working"
    <3>1. W = <<>> /\ Sess(p) # s
      BY <1>4, <2>1, <2>6
    <3>2. OfSession(s, (R \o <<p>>) \o Q) = OfSession(s, R \o Q)
      BY <1>2, <2>2, <3>1, LeaveOut
    <3>3. (R \o <<>>) \o Q = R \o Q
      BY <1>2, <2>2, HandedOn
    <3> HIDE DEF R, W, Q, R2, W2, Q2, p
    <3>4. QED
      BY <1>3, <2>2, <2>3, <2>4, <3>1, <3>2, <3>3
  <2>7. QED
    BY <2>5, <2>6
<1>14. CASE u = v /\ ItemExpires(u)
  <2>1. /\ userQueue[v] # <<>> /\ run' = run /\ userQueue'[v] = Tail(userQueue[v])
        /\ skewed' = skewed \cup {Sess(h)} /\ UNCHANGED events
    BY <1>14, AgentEffects
  <2>2. R2 = R /\ W2 = W /\ h \in Request /\ Q = <<h>> \o Q2 /\ Sess(h) # s
    BY <1>4, <1>5, <1>7, <1>14, <2>1
  <2> HIDE DEF R, W, Q, R2, W2, Q2, h
  <2>3. OfSession(s, (R \o W) \o (<<h>> \o Q2)) = OfSession(s, (R \o W) \o Q2)
    BY <1>2, <2>2, LeaveOutOfThree
  <2>4. QED
    BY <1>3, <2>2, <2>3
<1>15. CASE AgentToolErrors(u)
  <2>1. /\ run[u].phase = "working" /\ run' = run /\ userQueue' = userQueue
        /\ skewed' = skewed \cup {Sess(p)}
    BY <1>15, AgentEffects
  <2>2. R2 = R \o <<p>>
    BY <1>15, EventAppended DEF AgentPublishes
  <2>3. W2 = W /\ Q2 = Q /\ p \in Request /\ Sess(p) # s
    BY <1>4, <1>6, <2>1
  <2> HIDE DEF R, W, Q, R2, W2, Q2, p
  <2>4. OfSession(s, ((R \o <<p>>) \o W) \o Q) = OfSession(s, (R \o W) \o Q)
    BY <1>2, <2>3, LeaveOutOfThree
  <2>5. QED
    BY <1>3, <2>2, <2>3, <2>4
<1>16. QED
  BY <1>8, <1>9, <1>10, <1>11, <1>12, <1>13, <1>14, <1>15
     DEF AgentStep, AgentPublishes

\* A queue of contexts lines up with the answers that are due: these come
\* first, in their order, and the others are of requests in P.
LinesUp(reg, due, P) ==
    /\ Len(due) <= Len(reg)
    /\ \A i \in 1 .. Len(due) : reg[i] = due[i]
    /\ \A i \in Len(due) + 1 .. Len(reg) : reg[i] \in P

\* It still does when the requests that waited still wait.
LEMMA LinesUpAsBefore ==
    ASSUME NEW reg \in Seq(Request), NEW due \in Seq(Request), NEW P, NEW P2,
           LinesUp(reg, due, P),
           \A i \in DOMAIN reg : reg[i] \in P => reg[i] \in P2
    PROVE  LinesUp(reg, due, P2)
BY DEF LinesUp

\* A context more, of a request that waits (Registry.Register).
LEMMA LinesUpRegistered ==
    ASSUME NEW reg \in Seq(Request), NEW due \in Seq(Request), NEW P,
           LinesUp(reg, due, P), NEW r \in Request, r \in P
    PROVE  LinesUp(Append(reg, r), due, P)
<1> DEFINE q == Append(reg, r)
<1>1. /\ Len(q) = Len(reg) + 1 /\ Len(reg) \in Nat /\ Len(due) \in Nat
      /\ q[Len(reg) + 1] = r /\ \A i \in 1 .. Len(reg) : q[i] = reg[i]
  BY AppendProperties
<1> HIDE DEF q
<1>2. ASSUME NEW i \in 1 .. Len(due) PROVE q[i] = due[i]
  BY <1>1 DEF LinesUp
<1>3. ASSUME NEW i \in Len(due) + 1 .. Len(q) PROVE q[i] \in P
  <2>1. i = Len(reg) + 1 \/ (i \in 1 .. Len(reg) /\ i \in Len(due) + 1 .. Len(reg))
    BY <1>1
  <2>2. QED
    BY <1>1, <2>1 DEF LinesUp
<1>4. Len(due) <= Len(q)
  BY <1>1 DEF LinesUp
<1>5. LinesUp(q, due, P)
  BY <1>2, <1>3, <1>4 DEF LinesUp
<1>6. QED
  BY <1>5 DEF q

\* The front context is that of the first answer due (Registry.Consume).
LEMMA LinesUpAnswered ==
    ASSUME NEW reg \in Seq(Request), NEW due \in Seq(Request), NEW P, NEW a \in Request,
           LinesUp(reg, <<a>> \o due, P)
    PROVE  /\ reg # <<>> /\ Head(reg) = a
           /\ LinesUp(Tail(reg), due, P)
<1> DEFINE q == <<a>> \o due
<1>1. /\ q \in Seq(Request) /\ Len(q) = Len(due) + 1 /\ Len(due) \in Nat /\ q[1] = a
      /\ \A i \in 1 .. Len(due) : q[i + 1] = due[i]
  OBVIOUS
<1>2. LinesUp(reg, q, P)
  OBVIOUS
<1> HIDE DEF q
<1>3. Len(reg) \in Nat /\ Len(q) <= Len(reg)
  BY <1>2 DEF LinesUp
<1>4. reg # <<>> /\ Head(reg) = a
  <2>1. reg # <<>> /\ 1 \in 1 .. Len(q)
    BY <1>1, <1>3
  <2>2. reg[1] = q[1]
    BY <1>2, <2>1 DEF LinesUp
  <2>3. QED
    BY <1>1, <2>1, <2>2
<1>5. /\ Len(Tail(reg)) = Len(reg) - 1
      /\ \A i \in 1 .. Len(reg) - 1 : Tail(reg)[i] = reg[i + 1]
  BY <1>4
<1>6. ASSUME NEW i \in 1 .. Len(due) PROVE Tail(reg)[i] = due[i]
  <2>1. i + 1 \in 1 .. Len(q) /\ i \in 1 .. Len(reg) - 1
    BY <1>1, <1>3
  <2>2. reg[i + 1] = q[i + 1]
    BY <1>2, <2>1 DEF LinesUp
  <2>3. QED
    BY <1>1, <1>5, <2>1, <2>2
<1>7. ASSUME NEW i \in Len(due) + 1 .. Len(Tail(reg)) PROVE Tail(reg)[i] \in P
  <2>1. i + 1 \in Len(q) + 1 .. Len(reg) /\ i \in 1 .. Len(reg) - 1
    BY <1>1, <1>3, <1>5
  <2>2. reg[i + 1] \in P
    BY <1>2, <2>1 DEF LinesUp
  <2>3. QED
    BY <1>5, <2>1, <2>2
<1>8. Len(due) <= Len(Tail(reg))
  BY <1>1, <1>3, <1>5
<1>9. QED
  BY <1>4, <1>6, <1>7, <1>8 DEF LinesUp

\* An answer more is due: that of the oldest request that waited.
LEMMA LinesUpPublished ==
    ASSUME NEW reg \in Seq(Request), NEW due \in Seq(Request), NEW P, NEW P2,
           LinesUp(reg, due, P), IsInjective(reg),
           NEW j \in DOMAIN reg, reg[j] \in P,
           \A i \in 1 .. Len(due) : due[i] # reg[j],
           \A i \in DOMAIN reg : i < j => reg[i] \notin P,
           \A i \in DOMAIN reg : reg[i] \in P /\ reg[i] # reg[j] => reg[i] \in P2
    PROVE  LinesUp(reg, Append(due, reg[j]), P2)
<1> DEFINE p == reg[j]
           q == Append(due, p)
<1>1. /\ Len(due) \in Nat /\ Len(reg) \in Nat /\ DOMAIN reg = 1 .. Len(reg)
      /\ j \in 1 .. Len(reg) /\ p \in Request
  OBVIOUS
<1>2. j = Len(due) + 1
  <2>1. j \notin 1 .. Len(due)
    BY DEF LinesUp
  <2>2. SUFFICES ASSUME j > Len(due) + 1 PROVE FALSE
    BY <1>1, <2>1
  <2>3. Len(due) + 1 \in DOMAIN reg /\ Len(due) + 1 \in Len(due) + 1 .. Len(reg)
    BY <1>1, <2>2
  <2>4. reg[Len(due) + 1] \in P
    BY <2>3 DEF LinesUp
  <2>5. QED
    BY <2>2, <2>3, <2>4
<1>3. /\ Len(q) = Len(due) + 1
      /\ q[Len(due) + 1] = p /\ \A i \in 1 .. Len(due) : q[i] = due[i]
  BY <1>1, AppendProperties
<1>4. p = reg[Len(due) + 1]
  BY <1>2
<1> HIDE DEF p, q
<1>5. ASSUME NEW i \in 1 .. Len(q) PROVE reg[i] = q[i]
  <2>1. i = Len(due) + 1 \/ i \in 1 .. Len(due)
    BY <1>1, <1>3
  <2>2. QED
    BY <1>3, <1>4, <2>1 DEF LinesUp
<1>6. ASSUME NEW i \in Len(q) + 1 .. Len(reg) PROVE reg[i] \in P2
  <2>1. i \in Len(due) + 1 .. Len(reg) /\ i \in DOMAIN reg /\ i # j
    BY <1>1, <1>2, <1>3
  <2>2. reg[i] \in P
    BY <2>1 DEF LinesUp
  <2>3. reg[i] # reg[j]
    BY <2>1 DEF IsInjective
  <2>4. QED
    BY <2>1, <2>2, <2>3
<1>7. Len(q) <= Len(reg)
  BY <1>1, <1>2, <1>3
<1>8. LinesUp(reg, q, P2)
  BY <1>5, <1>6, <1>7 DEF LinesUp
<1>9. QED
  BY <1>8 DEF q, p

\* What publishing an item means for the answers due in a session that it
\* does not upset (PublishMessage): one more in the primary's session, when
\* the queue takes the item, and nothing anywhere else.
LEMMA PublishedDue ==
    ASSUME Types, Types', NEW item \in Seq(Request), item # <<>>, Enqueue(item),
           UNCHANGED <<run, events>>, NEW s \in Session, s \notin skewed'
    PROVE  /\ Outstanding(s)' = Kept(s, Primary(item), Outstanding(s))
           /\ Sess(Primary(item)) = s => ~Overtakes(Primary(item))
           /\ \A i \in DOMAIN item : i # Len(item) => Sess(item[i]) # s
<1> DEFINE v == UserOf[s]
           p == Primary(item)
           u == Usr(p)
           R == Reported
           W == AtWork(v)
           Q == Queued(v)
<1>1. v \in User /\ p \in Request /\ u \in User
  BY GatewayAssumption, PrimaryType, RequestTypes
<1>2. R \in Seq(Request) /\ W \in Seq(Request) /\ Q \in Seq(Request)
  BY <1>1, StreamTyped DEF StreamIsTyped
<1>3. Reported' = R /\ AtWork(v)' = W
  BY DEF Reported, AtWork
<1>4. /\ userQueue[u] \in ItemQueue /\ userQueue[v] \in ItemQueue
      /\ Q = Primaries(userQueue[v]) /\ Queued(v)' = Primaries(userQueue'[v])
  BY <1>1, StreamTypes DEF Queued, Primaries
<1>5. /\ Outstanding(s) = OfSession(s, (R \o W) \o Q)
      /\ Outstanding(s)' = OfSession(s, (R \o W) \o Queued(v)')
  BY <1>3 DEF Outstanding
<1>6. DOMAIN item = 1 .. Len(item) /\ Len(item) \in Nat /\ Len(item) \in DOMAIN item
  OBVIOUS
<1>7. PICK rejected \in BOOLEAN :
        /\ skewed' = skewed \cup Disturbed(item, rejected)
        /\ IF rejected THEN userQueue' = userQueue
           ELSE userQueue' = [userQueue EXCEPT ![u] = Append(@, item)]
  <2>1. CASE /\ userQueue' = [userQueue EXCEPT ![u] = Append(@, item)]
             /\ skewed' = skewed \cup Disturbed(item, FALSE)
    BY <2>1
  <2>2. CASE /\ userQueue' = userQueue
             /\ skewed' = skewed \cup Disturbed(item, TRUE)
    BY <2>2
  <2>3. QED
    BY <2>1, <2>2 DEF Enqueue
<1>8. Sess(p) = s => ~Overtakes(p)
  BY <1>7 DEF Disturbed
<1>9. ASSUME NEW i \in DOMAIN item, i # Len(item) \/ rejected PROVE Sess(item[i]) # s
  <2>1. i < Len(item) \/ rejected
    BY <1>6, <1>9
  <2>2. QED
    BY <1>7, <2>1 DEF Disturbed
<1>10. CASE rejected
  <2>1. Queued(v)' = Q
    BY <1>4, <1>7, <1>10
  <2>2. Sess(p) # s
    BY <1>6, <1>9, <1>10 DEF Primary
  <2>3. Outstanding(s)' = Kept(s, p, Outstanding(s))
    BY <1>5, <2>1, <2>2 DEF Kept
  <2>4. QED
    BY <1>8, <1>9, <2>3
<1>11. CASE ~rejected
  <2>0. userQueue \in [User -> Seq(Seq(Request))]
    BY DEF Types, TypeOK
  <2>1. CASE u # v
    <3>1. Queued(v)' = Q
      BY <1>1, <1>4, <1>7, <1>11, <2>0, <2>1
    <3>2. Sess(p) # s
      BY <2>1 DEF Usr
    <3>3. Outstanding(s)' = Kept(s, p, Outstanding(s))
      BY <1>5, <3>1, <3>2 DEF Kept
    <3>4. QED
      BY <1>8, <1>9, <3>3
  <2>2. CASE u = v
    <3>1. userQueue'[v] = Append(userQueue[v], item)
      BY <1>1, <1>7, <1>11, <2>0, <2>2
    <3>2. Queued(v)' = Append(Q, p)
      BY <1>4, <3>1, PrimariesAppend
    <3> DEFINE x == R \o W
               o == Outstanding(s)
               o2 == Outstanding(s)'
    <3>3. x \in Seq(Request) /\ o = OfSession(s, x \o Q) /\ o2 = OfSession(s, x \o Append(Q, p))
      BY <1>2, <1>5, <3>2
    <3> HIDE DEF x, p, Q, o, o2
    <3>4. x \o Append(Q, p) = Append(x \o Q, p) /\ x \o Q \in Seq(Request)
      BY <1>1, <1>2, <3>3, ConcatAppend
    <3>5. OfSession(s, Append(x \o Q, p)) = Kept(s, p, OfSession(s, x \o Q))
      BY <1>1, <3>4, OfSessionAppend, Zenon
    <3>6. o2 = Kept(s, p, o)
      BY <3>3, <3>4, <3>5
    <3>7. QED
      BY <1>8, <1>9, <3>6 DEF o, o2, p
  <2>3. QED
    BY <2>1, <2>2
<1>12. QED
  BY <1>7, <1>10, <1>11

\* Sequences of requests can be joined in any order.
LEMMA Associative ==
    \A a, b, c \in Seq(Request) : (a \o b) \o c = a \o (b \o c)
BY ConcatAssociative

\* Three parts, one after the other.
Joined(a, b, c) == (a \o b) \o c

\* A request of session s in front of others, which may be of any session.
InFront(s, a, q) == IF Sess(a) = s THEN <<a>> \o q ELSE q

\* The first of the requests that are due, and the others.
LEMMA FirstDue ==
    ASSUME NEW s, NEW a \in Request, NEW r \in Seq(Request), NEW b \in Seq(Request),
           NEW c \in Seq(Request)
    PROVE  OfSession(s, Joined(InFront(Sess(a), a, r), b, c)) =
             InFront(s, a, OfSession(s, Joined(r, b, c)))
<1> DEFINE y == r \o b
           z == (r \o b) \o c
           o == <<a>>
           rest == OfSession(s, z)
<1>1. y \in Seq(Request) /\ z \in Seq(Request) /\ o \in Seq(Request)
  OBVIOUS
<1>2. ((o \o r) \o b) \o c = o \o z
  <2> HIDE DEF o
  <2>1. (o \o r) \o b = o \o y
    BY <1>1, Associative, ZenonT(40)
  <2>2. (o \o y) \o c = o \o (y \o c)
    <3> HIDE DEF y
    <3>1. QED
      BY <1>1, Associative, ZenonT(40)
  <2>3. QED
    BY <2>1, <2>2, Zenon
<1>3. OfSession(s, o \o z) = OfSession(s, o) \o rest
  <2> HIDE DEF o, z
  <2>1. QED
    BY <1>1, OfSessionConcat
<1>4. OfSession(s, o) = IF Sess(a) = s THEN o ELSE <<>>
  BY OfSessionOne
<1>5. <<>> \o rest = rest
  <2> HIDE DEF z
  <2>1. rest \in Seq(Request)
    BY <1>1, OfSessionFrom
  <2>2. QED
    BY <2>1, ConcatEmptySeq
<1>6. OfSession(s, o \o z) = IF Sess(a) = s THEN o \o rest ELSE rest
  <2> HIDE DEF o, z, rest
  <2>1. QED
    BY <1>3, <1>4, <1>5
<1>7. Joined(o \o r, b, c) = o \o z /\ Joined(r, b, c) = z
  BY <1>2 DEF Joined
<1>8. InFront(Sess(a), a, r) = o \o r
  BY DEF InFront
<1> HIDE DEF z
<1>9. QED
  BY <1>6, <1>7, <1>8 DEF InFront

\* What an event taken by the dispatcher means: in its session one answer
\* less is due, the first one.
LEMMA DispatchedDue ==
    ASSUME Types, Types', EventsNameSession, events # <<>>, events' = Tail(events),
           UNCHANGED <<run, userQueue>>, NEW s \in Session
    PROVE  IF Head(events).session = s
           THEN Outstanding(s) = <<Head(events).about>> \o Outstanding(s)'
           ELSE Outstanding(s)' = Outstanding(s)
<1> DEFINE v == UserOf[s]
           a == Head(events).about
           R == Reported
           R2 == Reported'
           W == AtWork(v)
           Q == Queued(v)
<1>1. v \in User
  BY GatewayAssumption
<1>2. /\ R \in Seq(Request) /\ W \in Seq(Request) /\ Q \in Seq(Request)
      /\ R2 \in Seq(Request)
  BY <1>1, StreamTyped, StreamTypedNext DEF StreamIsTyped
<1>3. AtWork(v)' = W /\ Queued(v)' = Q
  BY DEF AtWork, Queued
<1>4. /\ Outstanding(s) = OfSession(s, (R \o W) \o Q)
      /\ Outstanding(s)' = OfSession(s, (R2 \o W) \o Q)
  BY <1>3 DEF Outstanding
<1> DEFINE E == [session : Session, about : Request]
<1>5. events \in Seq(E)
  BY DEF Types, TypeOK
<1>6. /\ Len(events) \in Nat /\ DOMAIN events = 1 .. Len(events) /\ 1 \in DOMAIN events
      /\ Head(events) = events[1] /\ Len(Tail(events)) = Len(events) - 1
      /\ \A i \in 1 .. Len(events) - 1 : Tail(events)[i] = events[i + 1]
      /\ Head(events) \in E
  <2> HIDE DEF E
  <2>1. QED
    BY <1>5
<1>7. a \in Request /\ Head(events).session = Sess(a)
  BY <1>6 DEF EventsNameSession
<1>8. R = <<a>> \o R2
  <2>1. /\ Len(R) = Len(events) /\ \A i \in 1 .. Len(events) : R[i] = events[i].about
    BY <1>1, StreamTypes
  <2>2. DOMAIN events' = 1 .. Len(events) - 1 /\ Len(R2) = Len(events) - 1
    <3>1. DOMAIN Tail(events) = 1 .. Len(events) - 1
      BY <1>5, <1>6
    <3>2. R2 = [i \in 1 .. Len(events) - 1 |-> events'[i].about]
      BY <3>1 DEF Reported
    <3>3. QED
      BY <1>6, <3>1, <3>2
  <2>3. \A i \in 1 .. Len(events) - 1 : R2[i] = events[i + 1].about
    BY <1>6, <2>2 DEF Reported
  <2> DEFINE y == <<a>> \o R2
  <2> HIDE DEF R2, R, a
  <2>4. /\ y \in Seq(Request) /\ Len(y) = Len(R2) + 1 /\ y[1] = a
        /\ \A i \in 1 .. Len(R2) : y[i + 1] = R2[i]
    BY <1>2, <1>7
  <2> HIDE DEF y
  <2>5. ASSUME NEW i \in 1 .. Len(R) PROVE R[i] = y[i]
    <3>1. CASE i = 1
      BY <1>6, <2>1, <2>4, <3>1 DEF a
    <3>2. CASE i # 1
      <4>1. i - 1 \in 1 .. Len(R2) /\ i - 1 \in 1 .. Len(events) - 1 /\ (i - 1) + 1 = i
        BY <1>6, <2>1, <2>2, <3>2
      <4>2. y[i] = R2[i - 1] /\ R2[i - 1] = events[i].about
        BY <2>3, <2>4, <4>1
      <4>3. QED
        BY <2>1, <4>2
    <3>3. QED
      BY <3>1, <3>2
  <2>6. Len(R) = Len(y)
    BY <1>6, <2>1, <2>2, <2>4
  <2>7. R = y
    BY <1>2, <2>4, <2>5, <2>6, SeqEqual
  <2>8. QED
    BY <2>7 DEF y
<1>9. a = Head(events).about
  OBVIOUS
<1> HIDE DEF R, R2, W, Q, a
<1>10. OfSession(s, Joined(InFront(Sess(a), a, R2), W, Q)) =
         InFront(s, a, OfSession(s, Joined(R2, W, Q)))
  BY <1>2, <1>7, FirstDue
<1>11. R = InFront(Sess(a), a, R2)
  BY <1>8 DEF InFront
<1>12. /\ Outstanding(s) = OfSession(s, Joined(R, W, Q))
       /\ Outstanding(s)' = OfSession(s, Joined(R2, W, Q))
  BY <1>4, Zenon DEF Joined
<1>13. Outstanding(s) = InFront(s, a, Outstanding(s)')
  BY <1>10, <1>11, <1>12
<1>14. QED
  BY <1>7, <1>9, <1>13 DEF InFront

\* What is known of every state before the order of the answers is looked at.
Known ==
    /\ Types /\ NamesSession /\ ContextsAreOnce
    /\ CollectedAreEnqueued /\ CollectedOnce /\ SentItems

\* The request is being published with this item.
PublishesNow(item) ==
    \/ \E r \in Request : Publish(r) /\ item = <<r>>
    \/ \E b \in taken : FlushPublishes(b) /\ item = b.msgs

\* The answers due are to requests that were published.
LEMMA DueWereSent ==
    ASSUME Types, SentItems, NEW s \in Session
    PROVE  /\ Outstanding(s) \in Seq(Request)
           /\ \A i \in 1 .. Len(Outstanding(s)) : Outstanding(s)[i] \in Sent
<1> DEFINE v == UserOf[s]
           R == Reported
           W == AtWork(v)
           Q == Queued(v)
           q == (R \o W) \o Q
<1>1. v \in User
  BY GatewayAssumption
<1>2. /\ R \in Seq(Request) /\ Len(R) = Len(events)
      /\ \A i \in 1 .. Len(events) : R[i] = events[i].about
      /\ userQueue[v] \in ItemQueue /\ Q = Primaries(userQueue[v])
      /\ W \in Seq(Request) /\ Q \in Seq(Request)
  BY <1>1, StreamTypes
<1>3. R \in Seq(Sent)
  <2>1. DOMAIN events = 1 .. Len(events)
    BY DEF Types, TypeOK
  <2>2. \A i \in 1 .. Len(R) : R[i] \in Sent
    BY <1>2, <2>1 DEF SentItems
  <2> HIDE DEF R
  <2>3. QED
    BY <1>2, <2>2
<1>4. W \in Seq(Sent)
  <2>1. run[v].phase = "working" => Primary(run[v].item) \in Sent
    BY <1>1 DEF SentItems, Belongs
  <2>2. QED
    BY <2>1 DEF AtWork
<1>5. Q \in Seq(Sent)
  <2>1. /\ Len(Q) = Len(userQueue[v]) /\ DOMAIN userQueue[v] = 1 .. Len(userQueue[v])
        /\ \A i \in 1 .. Len(userQueue[v]) : Q[i] = Primary(userQueue[v][i])
    BY <1>2, PrimariesOf DEF ItemQueue
  <2>2. \A i \in 1 .. Len(Q) : Q[i] \in Sent
    BY <1>1, <2>1 DEF SentItems, Belongs
  <2> HIDE DEF Q
  <2>3. QED
    BY <1>2, <2>2
<1>6. q \in Seq(Request) /\ q \in Seq(Sent)
  <2> HIDE DEF R, W, Q
  <2>1. QED
    BY <1>2, <1>3, <1>4, <1>5
<1>7. Outstanding(s) = OfSession(s, q)
  BY DEF Outstanding
<1> HIDE DEF q
<1>8. QED
  BY <1>6, <1>7, OfSessionFrom, SMTT(40)

\* That is so in the next state too.
DueAreTyped == \A s \in Session : Outstanding(s) \in Seq(Request)
LEMMA DueTyped == Types /\ SentItems => DueAreTyped
BY DueWereSent DEF DueAreTyped

\* The answers due in the next state are to requests.
LEMMA DueTypedNext ==
    ASSUME Types', SentItems', NEW s \in Session
    PROVE  Outstanding(s)' \in Seq(Request)
<1>1. Types' /\ SentItems' => DueAreTyped'
  BY DueTyped, PTL
<1>2. QED
  BY <1>1 DEF DueAreTyped

\* What waits to be published goes on waiting, where nothing is upset,
\* unless it is the primary message of the item that is published.
LEMMA OthersWait ==
    ASSUME Known, Known', [Next]_vars, NEW r \in Pending, Sess(r) \notin skewed',
           \A item : PublishesNow(item) => r # Primary(item)
    PROVE  r \in Pending'
<1>1. r \in Request /\ Unpublished(r)
  BY DEF Pending
<1>2. ~Publish(r)
  <2>1. Publish(r) => PublishesNow(<<r>>) /\ Primary(<<r>>) = r
    BY <1>1 DEF PublishesNow, Primary
  <2>2. QED
    BY <2>1
<1>3. ASSUME NEW b \in taken, FlushPublishes(b) PROVE r # Primary(b.msgs)
  <2>1. PublishesNow(b.msgs)
    BY <1>3 DEF PublishesNow
  <2>2. QED
    BY <2>1
<1>4. Unpublished(r)'
  BY <1>1, <1>2, <1>3, UnpublishedAfter DEF Known
<1>5. QED
  BY <1>1, <1>4 DEF Pending

\* An item's publication leaves the others of its session waiting.
LEMMA OthersWaitOnPublish ==
    ASSUME Known, Known', NEW item, PublishesNow(item), NEW r \in Pending,
           NEW s \in Session, Sess(r) = s, s \notin skewed', r # Primary(item)
    PROVE  r \in Pending'
<1> USE DEF dedupVars, collectVars, agentVars, historyVars
<1>1. r \in Request /\ Unpublished(r) /\ pc \in [Request -> Place]
  BY DEF Pending, Known, Types, TypeOK
<1>2. CASE \E x \in Request : Publish(x) /\ item = <<x>>
  <2>1. PICK x \in Request : Publish(x) /\ item = <<x>>
    BY <1>2
  <2>2. x # r
    BY <2>1 DEF Primary
  <2>3. pc'[r] = pc[r] /\ published' = published
    BY <1>1, <2>1, <2>2 DEF Publish, Goto
  <2>4. QED
    BY <1>1, <2>3 DEF Unpublished, Pending
<1>3. CASE \E b \in taken : FlushPublishes(b) /\ item = b.msgs
  <2>1. PICK b \in taken : FlushPublishes(b) /\ item = b.msgs
    BY <1>3
  <2>2. pc' = pc /\ published' = published \cup {b}
    BY <2>1 DEF FlushPublishes, Collect!PublishBatch
  <2>3. r \notin Range(b.msgs)
    <3>1. b.msgs \in Seq(Request) /\ b.msgs # <<>> /\ Enqueue(b.msgs)
          /\ UNCHANGED <<run, events>>
      BY <2>1, BatchIsItem DEF Known, FlushPublishes
    <3>2. \A i \in DOMAIN b.msgs : i # Len(b.msgs) => Sess(b.msgs[i]) # s
      BY <3>1, PublishedDue DEF Known
    <3>3. QED
      BY <2>1, <3>2 DEF Range, Primary
  <2>4. QED
    BY <1>1, <2>2, <2>3 DEF Unpublished, Pending
<1>4. QED
  BY <1>2, <1>3 DEF PublishesNow

\* The registry of a session that nothing upset lines up with the answers
\* that are due there.
Lined ==
    \A s \in Session \ skewed : LinesUp(registry[s], Outstanding(s), Pending)

\* A request that waits to be published has its context.
PendingRegistered ==
    \A r \in Pending : Sess(r) \notin skewed =>
        \E i \in DOMAIN registry[Sess(r)] : registry[Sess(r)][i] = r

\* The answers of such a session went to the requests they are about.
AnswersMatch ==
    \A i \in DOMAIN replies :
        Sess(replies[i].about) \notin skewed => replies[i].to = replies[i].about

\* The registry still lines up after an item is published.
LEMMA LinedOnPublish ==
    ASSUME Known, Known', Lined, PendingRegistered, NEW item, PublishesNow(item),
           NEW s \in Session, s \notin skewed, s \notin skewed'
    PROVE  /\ LinesUp(registry'[s], Outstanding(s)', Pending')
           /\ UNCHANGED <<registry, replies>>
<1> DEFINE p == Primary(item)
           reg == registry[s]
           due == Outstanding(s)
           due2 == Outstanding(s)'
<1>1. /\ item \in Seq(Request) /\ item # <<>> /\ Enqueue(item)
      /\ UNCHANGED <<run, events, registry, replies>>
      /\ p \in Pending /\ p \in Sent'
  BY PublishedItem DEF Known, PublishesNow
<1>2. /\ due2 = Kept(s, p, due)
      /\ Sess(p) = s => ~Overtakes(p)
  BY <1>1, PublishedDue DEF Known
<1>3. reg \in Seq(Request) /\ registry'[s] = reg
  BY <1>1 DEF Known, Types, TypeOK
<1>4. due \in Seq(Request) /\ \A i \in 1 .. Len(due) : due[i] \in Sent
  BY DueWereSent DEF Known
<1>5. \A i \in DOMAIN reg : Sess(reg[i]) = s
  BY DEF Known, NamesSession, FiledUnderSession
<1>6. ASSUME NEW i \in DOMAIN reg, reg[i] \in Pending, reg[i] # p
      PROVE  reg[i] \in Pending'
  BY <1>5, <1>6, OthersWaitOnPublish
<1>7. LinesUp(reg, due, Pending)
  BY DEF Lined
<1>8. CASE Sess(p) = s
  <2>1. PICK j \in DOMAIN reg : reg[j] = p
    BY <1>1, <1>8 DEF PendingRegistered
  <2>2. \A i \in 1 .. Len(due) : due[i] # p
    BY <1>1, <1>4 DEF Sent, Pending
  <2>3. IsInjective(reg)
    BY DEF Known, ContextsAreOnce, RegisteredOnce
  <2>4. ASSUME NEW i \in DOMAIN reg, i < j PROVE reg[i] \notin Pending
    BY <1>2, <1>8, <2>1, <2>4 DEF Overtakes, Pending
  <2>5. due2 = Append(due, p)
    BY <1>2, <1>8 DEF Kept
  <2>6. p \in Pending
    BY <1>1
  <2> HIDE DEF p, reg, due, due2
  <2>7. LinesUp(reg, Append(due, reg[j]), Pending')
    BY <1>3, <1>4, <1>6, <1>7, <2>1, <2>2, <2>3, <2>4, <2>6, LinesUpPublished
  <2>8. LinesUp(reg, due2, Pending')
    BY <2>1, <2>5, <2>7
  <2>9. QED
    BY <1>1, <1>3, <2>8 DEF due2
<1>9. CASE Sess(p) # s
  <2>1. due2 = due
    BY <1>2, <1>9 DEF Kept
  <2>2. ASSUME NEW i \in DOMAIN reg, reg[i] \in Pending PROVE reg[i] \in Pending'
    BY <1>5, <1>6, <1>9, <2>2
  <2> HIDE DEF reg, due, due2
  <2>3. LinesUp(reg, due, Pending')
    BY <1>3, <1>4, <1>7, <2>2, LinesUpAsBefore
  <2>4. LinesUp(reg, due2, Pending')
    BY <2>1, <2>3
  <2>5. QED
    BY <1>1, <1>3, <2>4 DEF due2
<1>10. QED
  BY <1>8, <1>9

\* Nothing else ends the waiting in a session that is not upset.
LEMMA AllWait ==
    ASSUME Known, Known', [Next]_vars, \A item : ~PublishesNow(item),
           NEW s \in Session, s \notin skewed'
    PROVE  \A i \in DOMAIN registry[s] : registry[s][i] \in Pending => registry[s][i] \in Pending'
<1>1. SUFFICES ASSUME NEW i \in DOMAIN registry[s], registry[s][i] \in Pending
               PROVE  registry[s][i] \in Pending'
  OBVIOUS
<1>2. Sess(registry[s][i]) = s
  BY DEF Known, NamesSession, FiledUnderSession
<1>3. QED
  BY <1>1, <1>2, OthersWait

\* Nor, then, does it put the registry out of line: where nothing is due
\* that was not, and no context comes or goes.
LEMMA LinedAsBefore ==
    ASSUME Known, Known', Lined, [Next]_vars, \A item : ~PublishesNow(item),
           NEW s \in Session, s \notin skewed, s \notin skewed',
           registry'[s] = registry[s], Outstanding(s)' = Outstanding(s)
    PROVE  LinesUp(registry'[s], Outstanding(s)', Pending')
<1> DEFINE reg == registry[s]
           due == Outstanding(s)
<1>1. reg \in Seq(Request) /\ due \in Seq(Request)
  BY DueWereSent DEF Known, Types, TypeOK
<1>2. LinesUp(reg, due, Pending)
  BY DEF Lined
<1>3. \A i \in DOMAIN reg : reg[i] \in Pending => reg[i] \in Pending'
  BY AllWait
<1> HIDE DEF reg, due
<1>4. LinesUp(reg, due, Pending')
  BY <1>1, <1>2, <1>3, LinesUpAsBefore
<1>5. QED
  BY <1>4 DEF reg, due

\* A context more at the end of its session's queue (Registry.Register).
LEMMA RegisteredContext ==
    ASSUME Types, NEW r \in Request, RegisterContext(r), NEW s \in Session
    PROVE  /\ registry'[s] = IF Sess(r) = s THEN Append(registry[s], r) ELSE registry[s]
           /\ pc'[r] = "registered"
           /\ UNCHANGED <<run, userQueue, events, replies, skewed>>
<1> USE DEF agentVars, historyVars
<1>1. pc \in [Request -> Place] /\ registry \in [Session -> Seq(Request)]
  BY DEF Types, TypeOK
<1>2. QED
  BY <1>1 DEF RegisterContext, Goto, Reg!Register

\* The registry still lines up after a context is registered.
LEMMA LinedOnRegister ==
    ASSUME Known, Known', Lined, [Next]_vars, \A item : ~PublishesNow(item),
           NEW r \in Request, RegisterContext(r),
           NEW s \in Session, s \notin skewed, s \notin skewed'
    PROVE  LinesUp(registry'[s], Outstanding(s)', Pending')
<1> DEFINE reg == registry[s]
           due == Outstanding(s)
           due2 == Outstanding(s)'
<1>1. /\ registry'[s] = IF Sess(r) = s THEN Append(reg, r) ELSE reg
      /\ pc'[r] = "registered"
      /\ UNCHANGED <<run, userQueue, events, replies, skewed>>
  BY RegisteredContext DEF Known
<1>2. due2 = due
  BY <1>1 DEF Outstanding, Reported, AtWork, Queued
<1>3. reg \in Seq(Request) /\ due \in Seq(Request)
  BY DueWereSent DEF Known, Types, TypeOK
<1>4. LinesUp(reg, due, Pending)
  BY DEF Lined
<1>5. \A i \in DOMAIN reg : reg[i] \in Pending => reg[i] \in Pending'
  BY AllWait
<1>6. r \in Pending'
  BY <1>1 DEF Pending, Unpublished
<1> HIDE DEF reg, due, due2
<1>7. LinesUp(reg, due, Pending')
  BY <1>3, <1>4, <1>5, LinesUpAsBefore
<1>8. LinesUp(Append(reg, r), due, Pending')
  BY <1>3, <1>6, <1>7, LinesUpRegistered
<1>9. LinesUp(registry'[s], due2, Pending')
  BY <1>1, <1>2, <1>7, <1>8
<1>10. QED
  BY <1>9 DEF due2

\* The event that the dispatcher takes first, and what is known of it.
LEMMA FirstEvent ==
    ASSUME Known, events # <<>>
    PROVE  /\ Head(events) \in [session : Session, about : Request]
           /\ Head(events).session = Sess(Head(events).about)
           /\ Head(events).about \in Sent
<1> DEFINE E == [session : Session, about : Request]
<1>1. events \in Seq(E)
  BY DEF Known, Types, TypeOK
<1>2. Head(events) = events[1] /\ 1 \in DOMAIN events /\ Head(events) \in E
  <2> HIDE DEF E
  <2>1. QED
    BY <1>1
<1>3. QED
  BY <1>2 DEF Known, NamesSession, EventsNameSession, SentItems

\* It is about the request whose context comes first in its session, if
\* nothing upset the session (Registry.Consume).
LEMMA FirstEventFindsItsContext ==
    ASSUME Known, Known', Lined, events # <<>>, events' = Tail(events),
           UNCHANGED <<run, userQueue>>, NEW s, s = Head(events).session, s \notin skewed
    PROVE  /\ registry[s] # <<>> /\ Head(registry[s]) = Head(events).about
           /\ LinesUp(Tail(registry[s]), Outstanding(s)', Pending)
<1> DEFINE reg == registry[s]
           due == Outstanding(s)
           due2 == Outstanding(s)'
           a == Head(events).about
<1>1. s \in Session /\ a \in Request
  BY FirstEvent
<1>2. due = <<a>> \o due2
  BY <1>1, DispatchedDue DEF Known, NamesSession
<1>3. reg \in Seq(Request)
  BY <1>1 DEF Known, Types, TypeOK
<1>4. due2 \in Seq(Request)
  <2>1. Types' /\ SentItems'
    BY DEF Known
  <2>2. QED
    BY <1>1, <2>1, DueTypedNext
<1>5. LinesUp(reg, due, Pending)
  BY <1>1 DEF Lined
<1> HIDE DEF reg, due, due2, a
<1>6. reg # <<>> /\ Head(reg) = a /\ LinesUp(Tail(reg), due2, Pending)
  <2>1. LinesUp(reg, <<a>> \o due2, Pending)
    BY <1>2, <1>5
  <2>2. QED
    BY <1>1, <1>3, <1>4, <2>1, LinesUpAnswered
<1>7. QED
  BY <1>6 DEF reg, due2, a

\* The registry still lines up after the dispatcher has taken an event, or
\* has handled one that it will see again.
LEMMA LinedOnDispatch ==
    ASSUME Known, Known', Lined, [Next]_vars, \A item : ~PublishesNow(item),
           Dispatch \/ DispatchFindsNothing \/ DispatchAckLost,
           NEW s \in Session, s \notin skewed, s \notin skewed'
    PROVE  LinesUp(registry'[s], Outstanding(s)', Pending')
<1> DEFINE e == Head(events)
<1> USE DEF agentVars, historyVars
<1>1. events # <<>> /\ UNCHANGED <<run, userQueue>>
  BY DEF Dispatch, DispatchFindsNothing, DispatchAckLost
<1>2. DispatchTypes
  BY DEF Known, Types, TypeOK, DispatchTypes
<1>3. Dispatch \/ DispatchAckLost => registry' = [registry EXCEPT ![e.session] = Tail(@)]
  BY <1>1, <1>2, DeliverTypes DEF Dispatch, DispatchAckLost
<1>4. registry \in [Session -> Seq(Request)]
  BY <1>2 DEF DispatchTypes
<1>5. CASE s # e.session
  <2>1. registry'[s] = registry[s]
    BY <1>3, <1>4, <1>5 DEF DispatchFindsNothing
  <2>2. Outstanding(s)' = Outstanding(s)
    <3>1. CASE DispatchAckLost
      <4>1. UNCHANGED events
        BY <3>1 DEF DispatchAckLost
      <4>2. QED
        BY <1>1, <4>1 DEF Outstanding, Reported, AtWork, Queued
    <3>2. CASE Dispatch \/ DispatchFindsNothing
      <4>1. events' = Tail(events)
        BY <3>2 DEF Dispatch, DispatchFindsNothing
      <4>2. QED
        BY <1>1, <1>5, <4>1, DispatchedDue DEF Known, NamesSession
    <3>3. QED
      BY <3>1, <3>2
  <2>3. QED
    BY <2>1, <2>2, LinedAsBefore
<1>6. CASE s = e.session
  <2>1. ~DispatchAckLost
    BY <1>6 DEF DispatchAckLost
  <2>2. events' = Tail(events)
    BY <2>1 DEF Dispatch, DispatchFindsNothing
  <2>3. /\ registry[s] # <<>>
        /\ LinesUp(Tail(registry[s]), Outstanding(s)', Pending)
    BY <1>1, <1>6, <2>2, FirstEventFindsItsContext
  <2>4. registry'[s] = Tail(registry[s])
    <3>1. Dispatch
      BY <1>6, <2>1, <2>3 DEF DispatchFindsNothing, Reg!Found
    <3>2. QED
      BY <1>3, <1>4, <1>6, <3>1
  <2> DEFINE t == Tail(registry[s])
             due2 == Outstanding(s)'
  <2>5. t \in Seq(Request) /\ \A i \in DOMAIN t : i + 1 \in DOMAIN registry[s]
                                                  /\ t[i] = registry[s][i + 1]
    <3>1. registry[s] \in Seq(Request)
      BY <1>4
    <3>2. QED
      BY <2>3, <3>1
  <2>6. due2 \in Seq(Request)
    <3>1. Types' /\ SentItems'
      BY DEF Known
    <3>2. QED
      BY <3>1, DueTypedNext
  <2>7. \A i \in DOMAIN t : t[i] \in Pending => t[i] \in Pending'
    BY <2>5, AllWait
  <2>8. LinesUp(t, due2, Pending)
    BY <2>3
  <2> HIDE DEF t, due2
  <2>9. LinesUp(t, due2, Pending')
    BY <2>5, <2>6, <2>7, <2>8, LinesUpAsBefore
  <2>10. QED
    BY <2>4, <2>9 DEF t, due2
<1>7. QED
  BY <1>5, <1>6

\* The registry lines up after any step.
LEMMA LinedStep ==
    ASSUME Known, Known', Lined, PendingRegistered, [Next]_vars
    PROVE  Lined'
<1>1. SUFFICES ASSUME NEW s \in Session, s \notin skewed'
               PROVE  LinesUp(registry'[s], Outstanding(s)', Pending')
  BY DEF Lined
<1>2. s \notin skewed
  BY <1>1, SkewedGrows DEF Known
<1>3. CASE \E item : PublishesNow(item)
  BY <1>1, <1>2, <1>3, LinedOnPublish
<1>4. CASE \A item : ~PublishesNow(item)
  <2>1. CASE \E r \in Request : RegisterContext(r)
    BY <1>1, <1>2, <1>4, <2>1, LinedOnRegister
  <2>2. CASE Dispatch \/ DispatchFindsNothing \/ DispatchAckLost
    BY <1>1, <1>2, <1>4, <2>2, LinedOnDispatch
  <2>3. CASE GatewayRestarts
    BY <1>1, <2>3 DEF GatewayRestarts
  <2>4. CASE \E u \in User : AgentStep(u) \/ AgentToolErrors(u) \/ AgentCrashes(u)
                            \/ ItemExpires(u)
    <3>1. PICK u \in User : AgentStep(u) \/ AgentToolErrors(u) \/ AgentCrashes(u)
                            \/ ItemExpires(u)
      BY <2>4
    <3>2. UNCHANGED registry
      BY <3>1, AgentEffects DEF Known
    <3>3. Outstanding(s)' = Outstanding(s)
      BY <1>1, <3>1, AgentsKeepOrder DEF Known
    <3>4. QED
      BY <1>1, <1>2, <1>4, <3>2, <3>3, LinedAsBefore
  <2>5. CASE /\ \A r \in Request : ~RegisterContext(r)
             /\ ~Dispatch /\ ~DispatchFindsNothing /\ ~DispatchAckLost /\ ~GatewayRestarts
             /\ \A u \in User : /\ ~AgentStep(u) /\ ~AgentToolErrors(u)
                                /\ ~AgentCrashes(u) /\ ~ItemExpires(u)
    <3>1. UNCHANGED registry
      BY <2>5, RegistrySteps
    <3>2. UNCHANGED events
      BY <2>5, EventSteps DEF AgentStep, AgentPublishes
    <3>3. (\A r \in Request : ~Publish(r)) /\ \A b \in taken : ~FlushPublishes(b)
      BY <1>4 DEF PublishesNow
    <3>4. UNCHANGED <<userQueue, run>>
      BY <2>5, <3>3, QueueSteps
    <3>5. Outstanding(s)' = Outstanding(s)
      BY <3>2, <3>4 DEF Outstanding, Reported, AtWork, Queued
    <3>6. QED
      BY <1>1, <1>2, <1>4, <3>1, <3>5, LinedAsBefore
  <2>6. QED
    BY <2>1, <2>2, <2>3, <2>4, <2>5
<1>5. QED
  BY <1>3, <1>4

\* A request that waits to be published has its context, after any step: the
\* dispatcher takes the contexts of published requests only.
LEMMA PendingRegisteredStep ==
    ASSUME Known, Known', Lined, PendingRegistered, [Next]_vars
    PROVE  PendingRegistered'
<1>1. SUFFICES ASSUME NEW r \in Pending', Sess(r) \notin skewed'
               PROVE  \E i \in DOMAIN registry'[Sess(r)] : registry'[Sess(r)][i] = r
  BY DEF PendingRegistered, Sess
<1> DEFINE s == Sess(r)
           reg == registry[s]
<1>2. r \in Request /\ Unpublished(r)' /\ s \in Session
  BY RequestTypes DEF Pending
<1>3. s \notin skewed
  BY <1>1, SkewedGrows DEF Known
<1>4. reg \in Seq(Request) /\ registry \in [Session -> Seq(Request)]
      /\ DOMAIN reg = 1 .. Len(reg) /\ Len(reg) \in Nat
  BY <1>2 DEF Known, Types, TypeOK
<1>5. CASE RegisterContext(r)
  <2>1. registry'[s] = Append(reg, r)
    BY <1>2, <1>5, RegisteredContext DEF Known
  <2>2. Len(reg) + 1 \in DOMAIN Append(reg, r) /\ Append(reg, r)[Len(reg) + 1] = r
    BY <1>2, <1>4
  <2>3. QED
    BY <2>1, <2>2
<1>6. CASE Unpublished(r)
  <2>1. r \in Pending
    BY <1>2, <1>6 DEF Pending
  <2>2. PICK i \in DOMAIN reg : reg[i] = r
    BY <1>3, <2>1 DEF PendingRegistered
  <2>3. CASE UNCHANGED registry
    BY <2>2, <2>3
  <2>4. ASSUME NEW x \in Request, RegisterContext(x)
        PROVE  \E j \in DOMAIN registry'[s] : registry'[s][j] = r
    <3>1. registry'[s] = Append(reg, x) \/ registry'[s] = reg
      BY <1>2, <2>4, RegisteredContext DEF Known
    <3>2. i \in DOMAIN Append(reg, x) /\ Append(reg, x)[i] = reg[i]
      BY <1>4, <2>2, AppendProperties
    <3>3. QED
      BY <2>2, <3>1, <3>2
  <2>5. CASE Dispatch \/ DispatchAckLost
    <3> DEFINE e == Head(events)
    <3>1. events # <<>> /\ Deliver(e)
      BY <2>5 DEF Dispatch, DispatchAckLost
    <3>2. registry' = [registry EXCEPT ![e.session] = Tail(@)]
      <4>1. DispatchTypes
        BY DEF Known, Types, TypeOK, DispatchTypes
      <4>2. QED
        BY <3>1, <4>1, DeliverTypes
    <3>3. CASE s # e.session
      BY <1>2, <1>4, <2>2, <3>2, <3>3
    <3>4. CASE s = e.session
      <4>1. Dispatch
        BY <1>1, <2>5, <3>4 DEF DispatchAckLost
      <4>2. events' = Tail(events) /\ UNCHANGED <<run, userQueue>>
        BY <4>1 DEF Dispatch, agentVars
      <4>3. reg # <<>> /\ Head(reg) = e.about
        BY <1>3, <3>1, <3>4, <4>2, FirstEventFindsItsContext
      <4>4. e.about # r
        BY <2>1, <3>1, FirstEvent DEF Sent, Pending
      <4>5. registry'[s] = Tail(reg)
        BY <1>2, <1>4, <3>2, <3>4
      <4> HIDE DEF reg
      <4>6. i # 1
        BY <1>4, <2>2, <4>3, <4>4
      <4>7. i - 1 \in DOMAIN Tail(reg) /\ Tail(reg)[i - 1] = reg[i]
        BY <1>4, <4>3, <4>6
      <4>8. QED
        BY <2>2, <4>5, <4>7
    <3>5. QED
      BY <3>3, <3>4
  <2>6. CASE GatewayRestarts
    BY <1>1, <1>2, <2>6 DEF GatewayRestarts
  <2>7. QED
    BY <2>3, <2>4, <2>5, <2>6, RegistrySteps
<1>7. QED
  BY <1>2, <1>5, <1>6, UnpublishedBefore DEF Known

\* An answer goes to the request it is about, where nothing was upset.
LEMMA AnswersMatchStep ==
    ASSUME Known, Known', Lined, AnswersMatch, [Next]_vars
    PROVE  AnswersMatch'
<1>1. skewed \subseteq skewed'
  BY SkewedGrows DEF Known
<1>2. CASE replies' = replies
  BY <1>1, <1>2 DEF AnswersMatch, Sess
<1>3. CASE replies' # replies
  <2> DEFINE e == Head(events)
             q == registry[e.session]
             rp == [to |-> q[1], about |-> e.about]
  <2>1. /\ Dispatch \/ DispatchAckLost
        /\ events # <<>>
        /\ e \in [session : Session, about : Request]
        /\ q \in Seq(Request) /\ q # <<>>
        /\ DOMAIN replies' = 1 .. Len(replies) + 1
        /\ \A i \in 1 .. Len(replies) : replies'[i] = replies[i]
        /\ replies'[Len(replies) + 1] = rp
    BY <1>3, NewReply DEF Known
  <2>2. DOMAIN replies = 1 .. Len(replies) /\ Len(replies) \in Nat
    BY DEF Known, Types, TypeOK
  <2>3. e.session = Sess(e.about)
    BY <2>1, FirstEvent
  <2>4. ASSUME e.session \notin skewed' PROVE q[1] = e.about
    <3>1. Dispatch
      BY <2>1, <2>4 DEF DispatchAckLost
    <3>2. events' = Tail(events) /\ UNCHANGED <<run, userQueue>>
      BY <3>1 DEF Dispatch, agentVars
    <3>3. Head(q) = e.about
      BY <1>1, <2>1, <2>4, <3>2, FirstEventFindsItsContext
    <3>4. QED
      BY <2>1, <3>3
  <2>5. rp.to = q[1] /\ rp.about = e.about
    OBVIOUS
  <2> HIDE DEF rp, q, e
  <2>6. ASSUME NEW i \in DOMAIN replies', Sess(replies'[i].about) \notin skewed'
        PROVE  replies'[i].to = replies'[i].about
    <3>1. CASE i = Len(replies) + 1
      BY <2>1, <2>3, <2>4, <2>5, <2>6, <3>1
    <3>2. CASE i \in 1 .. Len(replies)
      BY <1>1, <2>1, <2>2, <2>6, <3>2 DEF AnswersMatch
    <3>3. QED
      BY <2>1, <2>2, <3>1, <3>2
  <2>7. QED
    BY <2>6 DEF AnswersMatch, Sess
<1>4. QED
  BY <1>2, <1>3

\* What was published, and what collect mode holds, is so in every state.
LEMMA KnownInvariant == Spec => []Known
<1> DEFINE Inv == CollectedAreEnqueued /\ CollectedOnce /\ SentItems
<1>1. Init => Inv
  BY DEF Init, Collect!Init, CollectedAreEnqueued, CollectedOnce, SentItems, Running,
         Range
<1>2. Types /\ Inv /\ [Next]_vars => Inv'
  BY CollectedStep, SentItemsStep
<1>3. QED
  BY <1>1, <1>2, TypesInvariant, NamesSessionInvariant, ContextsAreOnceInvariant, PTL
     DEF Spec, Known

\* The parts give the whole.
LEMMA LinedIsAligned ==
    ASSUME Known, Lined, AnswersMatch
    PROVE  AlignedUnlessDisturbed
<1>1. SUFFICES ASSUME NEW s \in Session \ skewed
               PROVE  /\ Len(Outstanding(s)) <= Len(registry[s])
                      /\ SubSeq(registry[s], 1, Len(Outstanding(s))) = Outstanding(s)
                      /\ \A i \in Len(Outstanding(s)) + 1 .. Len(registry[s]) :
                           Unpublished(registry[s][i])
                      /\ \A i \in DOMAIN replies :
                           Sess(replies[i].about) = s => replies[i].to = replies[i].about
  BY DEF AlignedUnlessDisturbed
<1> DEFINE reg == registry[s]
           due == Outstanding(s)
<1>2. reg \in Seq(Request) /\ due \in Seq(Request)
  BY DueWereSent DEF Known, Types, TypeOK
<1>3. LinesUp(reg, due, Pending)
  BY DEF Lined
<1>4. \A i \in DOMAIN replies : Sess(replies[i].about) = s => replies[i].to = replies[i].about
  BY DEF AnswersMatch
<1> HIDE DEF reg, due
<1> DEFINE x == SubSeq(reg, 1, Len(due))
<1>5. Len(due) <= Len(reg) /\ Len(due) \in Nat /\ Len(reg) \in Nat
  BY <1>2, <1>3 DEF LinesUp
<1>6. /\ x \in Seq(Request) /\ Len(x) = Len(due) /\ \A i \in 1 .. Len(due) : x[i] = reg[i]
  BY <1>2, <1>5
<1> HIDE DEF x
<1>7. \A i \in 1 .. Len(x) : x[i] = due[i]
  BY <1>3, <1>6 DEF LinesUp
<1>8. x = due
  BY <1>2, <1>6, <1>7, SeqEqual
<1>9. \A i \in Len(due) + 1 .. Len(reg) : Unpublished(reg[i])
  BY <1>3 DEF LinesUp, Pending
<1>10. QED
  BY <1>4, <1>5, <1>8, <1>9 DEF x, reg, due

\* registry.go:22-24, wherever nothing upset the session: the first response
\* is for the first queued message.  The registry lists exactly the requests
\* that will be answered, in the order in which the dispatcher will see the
\* answers, and behind them those that are not published yet; every answer
\* went to the request it is about.
THEOREM AnswersLineUp == Spec => []AlignedUnlessDisturbed
<1> DEFINE Inv == Lined /\ PendingRegistered /\ AnswersMatch
<1>1. Init => Inv
  <2> SUFFICES ASSUME Init PROVE Inv
    OBVIOUS
  <2> USE GatewayAssumption
  <2>1. /\ registry = [s \in Session |-> <<>>] /\ events = <<>> /\ replies = <<>>
        /\ pc = [r \in Request |-> "idle"]
        /\ userQueue = [u \in User |-> <<>>]
        /\ \A u \in User : run[u].phase = "idle"
    BY DEF Init, Reg!RegistryInit, Running
  <2>2. Pending = {}
    BY <2>1 DEF Pending, Unpublished
  <2>3. ASSUME NEW s \in Session PROVE Outstanding(s) = <<>>
    <3>1. UserOf[s] \in User
      OBVIOUS
    <3>2. Reported = <<>> /\ AtWork(UserOf[s]) = <<>> /\ Queued(UserOf[s]) = <<>>
      BY <2>1, <3>1 DEF Reported, AtWork, Queued
    <3>3. (<<>> \o <<>>) \o <<>> = <<>>
      OBVIOUS
    <3>4. QED
      BY <3>2, <3>3, OfSessionEmpty DEF Outstanding
  <2>4. Lined
    BY <2>1, <2>3 DEF Lined, LinesUp
  <2>5. QED
    BY <2>1, <2>2, <2>4 DEF PendingRegistered, AnswersMatch
<1>2. Known /\ Known' /\ Inv /\ [Next]_vars => Inv'
  BY LinedStep, PendingRegisteredStep, AnswersMatchStep
<1>3. Known /\ Inv => AlignedUnlessDisturbed
  BY LinedIsAligned
<1>4. QED
  BY <1>1, <1>2, <1>3, KnownInvariant, PTL DEF Spec
================================================================================
