----------------------------- MODULE Connections_proofs --------------------------
(***************************************************************************)
(* Proofs about what keeps connections: Broker, for any number of lost     *)
(* connections and failed dials; BrokerChannels, for any users, messages   *)
(* and faults; MCPLoader, for any servers, goroutines, sessions and        *)
(* mishaps.                                                                *)
(***************************************************************************)
EXTENDS Broker, BrokerChannels, MCPLoader, FiniteSetTheorems, TLAPS

BrokerSpec == BrokerInit /\ [][BrokerNext]_brokerVars

\* Once Close is through, a side that was not dialling will never dial again:
\* its watchdog meets the cancelled context.
NoNewDials ==
    closing = "closed" =>
        \A s \in Side \ late : link[s] # "open" /\ watchdog[s] \notin {"dialing", "dialed"}

IInv == BrokerTypeOK /\ NoNewDials

\* The types and what Close leaves behind are kept by every step.
THEOREM Inductive == BrokerSpec => []IInv
<1> USE BrokerAssumption DEF Side
<1>1. BrokerInit => IInv
  BY DEF BrokerInit, IInv, BrokerTypeOK, NoNewDials
<1>2. IInv /\ [BrokerNext]_brokerVars => IInv'
  <2> SUFFICES ASSUME IInv, [BrokerNext]_brokerVars PROVE IInv'
    OBVIOUS
  <2> USE DEF IInv, BrokerTypeOK, NoNewDials
  <2>1. ASSUME NEW s \in Side, WatchConnection(s) PROVE IInv'
    BY <2>1 DEF WatchConnection, Moves
  <2>2. ASSUME NEW s \in Side, Restored(s) PROVE IInv'
    BY <2>2 DEF Restored, Moves
  <2>3. ASSUME NEW s \in Side, ReconnectWithBackoff(s) PROVE IInv'
    BY <2>3 DEF ReconnectWithBackoff, Moves
  <2>4. ASSUME NEW s \in Side, ConnectionBreaks(s) PROVE IInv'
    BY <2>4 DEF ConnectionBreaks
  <2>5. CASE GetChannel \/ PublishFails
    BY <2>5 DEF GetChannel, PublishFails
  <2>6. CASE Consume \/ DeliveriesEnd \/ StopConsumer
    BY <2>6 DEF Consume, DeliveriesEnd, StopConsumer
  <2>7. CASE Connect
    BY <2>7 DEF Connect
  <2>8. CASE CloseCancels
    BY <2>8 DEF CloseCancels
  <2>9. CASE CloseConnections
    BY <2>9 DEF CloseConnections
  <2>10. CASE UNCHANGED brokerVars
    BY <2>10 DEF brokerVars
  <2>11. QED
    BY <2>1, <2>2, <2>3, <2>4, <2>5, <2>6, <2>7, <2>8, <2>9, <2>10
       DEF BrokerNext, BrokerRuns, Redials
<1>3. QED
  BY <1>1, <1>2, PTL DEF BrokerSpec

\* After Close no connection is open but one that a watchdog was dialling at
\* that moment, however often connections broke and dials failed before
\* (watchConnection against Close).
THEOREM CloseCloses == BrokerSpec => []ClosedExceptLate
<1>1. IInv => ClosedExceptLate
  BY DEF IInv, NoNewDials, ClosedExceptLate
<1>2. QED
  BY <1>1, Inductive, PTL

(***************************************************************************)
(* The adapters that keep a connection of their own.                       *)
(***************************************************************************)

ChannelsSpec == ChannelsInit /\ [][ChannelsNext]_channelsVars

\* The part of the types that the inbox needs.
InboxTypes ==
    /\ cbody \in [CMsg -> {"named", "unnamed", "ignored", "malformed"}]
    /\ cplace \in [CMsg -> {"ready", "held", "acked", "dead"}]
    /\ verdict \in [CMsg -> {"none", "ack", "requeue", "dead"}]
    /\ routed \in [CMsg -> Count] /\ buffered \in [CMsg -> Count] /\ orphans \in [CMsg -> Count]
    /\ seen \subseteq CMsg /\ forgotten \subseteq CMsg /\ undone \subseteq CMsg

\* What an acknowledgement may stand for.
Tried(m) == \/ routed[m] > 0 \/ buffered[m] > 0 \/ m \in undone
            \/ cbody[m] = "named" /\ orphans[m] > 0

\* The deduplicator knows named messages only, and each of them was tried or
\* its handler is publishing it.
SeenWereTried == \A m \in seen : cbody[m] = "named" /\ (Tried(m) \/ Publishing(m))

\* A named message is taken in only while the deduplicator does not know it:
\* until it is forgotten it is at one place at most on its way to the agent.
InHand(m) == IF Publishing(m) THEN 1 ELSE 0
TakenInOnce ==
    \A m \in CMsg \ forgotten :
        cbody[m] = "named" =>
            routed[m] + buffered[m] + orphans[m] + InHand(m) <= IF m \in seen THEN 1 ELSE 0

\* The answer a handler has decided on and not yet given says no more than the
\* acknowledgement that it will become.
Earned(m) == cplace[m] = "acked" \/ (cplace[m] = "held" /\ verdict[m] = "ack")
AcksAreEarned == kind = "rabbitmq" => \A m \in CMsg : Earned(m) /\ cbody[m] # "ignored" => Tried(m)

ChannelsIInv == InboxTypes /\ SeenWereTried /\ TakenInOnce /\ AcksAreEarned

\* What leaves the messages alone keeps the invariant.
LEMMA InboxStays == ChannelsIInv /\ UNCHANGED <<kind, inboxVars>> => ChannelsIInv'
  BY DEF ChannelsIInv, InboxTypes, Tried, SeenWereTried, InHand, TakenInOnce, Earned, AcksAreEarned,
         Publishing, inboxVars

\* When the broker takes an unsettled delivery back, a handler that publishes it
\* goes on without it.
LEMMA TakeBackStep == ChannelsIInv /\ UNCHANGED kind /\ TakeBack => ChannelsIInv'
<1> SUFFICES ASSUME ChannelsIInv, UNCHANGED kind, TakeBack PROVE ChannelsIInv'
  OBVIOUS
<1> USE DEF ChannelsIInv, InboxTypes, Count
<1>1. UNCHANGED <<cbody, verdict, seen, forgotten, buffered, routed, undone>>
  BY DEF TakeBack
<1>2. InboxTypes'
  BY DEF TakeBack, Upto2
<1>3. \A m \in CMsg :
        \/ cplace'[m] = cplace[m] /\ orphans'[m] = orphans[m]
        \/ /\ cplace[m] = "held" /\ cplace'[m] = "ready"
           /\ \/ Publishing(m) /\ orphans'[m] = Upto2(orphans[m] + 1)
              \/ ~Publishing(m) /\ orphans'[m] = orphans[m]
  BY DEF TakeBack, Publishing
<1>4. \A m \in CMsg : orphans'[m] \in Count /\ orphans'[m] >= orphans[m]
  BY <1>3 DEF Upto2
<1>5. \A m \in CMsg : Tried(m) => Tried(m)'
  BY <1>1, <1>4 DEF Tried
<1>6. ASSUME NEW m \in seen PROVE (cbody[m] = "named" /\ (Tried(m) \/ Publishing(m)))'
  <2>1. cbody[m] = "named" /\ m \in CMsg
    BY DEF SeenWereTried
  <2>2. CASE Tried(m)
    BY <1>1, <1>5, <2>1, <2>2
  <2>3. CASE Publishing(m) /\ cplace'[m] = cplace[m]
    BY <1>1, <2>1, <2>3 DEF Publishing
  <2>4. CASE Publishing(m) /\ cplace'[m] # cplace[m]
    <3>1. orphans'[m] > 0
      BY <1>3, <2>1, <2>4 DEF Upto2
    <3>2. QED
      BY <1>1, <2>1, <3>1 DEF Tried
  <2>5. QED
    BY <2>2, <2>3, <2>4 DEF SeenWereTried
<1>7. SeenWereTried'
  BY <1>1, <1>6 DEF SeenWereTried
<1>8. \A m \in CMsg : (orphans[m] + InHand(m))' <= orphans[m] + InHand(m)
  BY <1>1, <1>3, <1>4 DEF InHand, Publishing, Upto2
<1>9. TakenInOnce'
  BY <1>1, <1>4, <1>8 DEF TakenInOnce, InHand
<1>10. \A m \in CMsg : Earned(m)' => Earned(m)
  BY <1>1, <1>3 DEF Earned
<1>11. AcksAreEarned'
  BY <1>1, <1>5, <1>10 DEF AcksAreEarned
<1>12. QED
  BY <1>2, <1>7, <1>9, <1>11

\* A restart forgets everything in memory: what was waiting there is given up.
LEMMA RestartStep == ChannelsIInv /\ GatewayRestarts => ChannelsIInv'
<1> SUFFICES ASSUME ChannelsIInv, GatewayRestarts PROVE ChannelsIInv'
  OBVIOUS
<1> USE DEF ChannelsIInv, InboxTypes, Count
<1>1. /\ UNCHANGED <<kind, cbody, verdict, routed>>
      /\ seen' = {} /\ forgotten' = forgotten \cup seen
      /\ undone' = undone \cup {m \in CMsg : buffered[m] + orphans[m] > 0}
      /\ buffered' = [m \in CMsg |-> 0] /\ orphans' = [m \in CMsg |-> 0]
  BY DEF GatewayRestarts, config
<1>2. \A m \in CMsg : cplace'[m] # "held" /\ (cplace'[m] = "acked" => cplace[m] = "acked")
  BY DEF GatewayRestarts
<1>3. cplace' \in [CMsg -> {"ready", "held", "acked", "dead"}]
  BY DEF GatewayRestarts
<1>4. InboxTypes'
  BY <1>1, <1>3
<1>5. \A m \in CMsg : Tried(m) => Tried(m)'
  BY <1>1 DEF Tried
<1>6. SeenWereTried'
  BY <1>1 DEF SeenWereTried
<1>7. ASSUME NEW m \in CMsg, m \notin forgotten', cbody[m] = "named"
      PROVE (routed[m] + buffered[m] + orphans[m] + InHand(m) <= IF m \in seen THEN 1 ELSE 0)'
  <2>1. routed[m] + buffered[m] + orphans[m] + InHand(m) <= 0
    BY <1>1, <1>7 DEF TakenInOnce
  <2>2. routed[m] = 0
    BY <2>1 DEF InHand
  <2>3. InHand(m)' = 0
    BY <1>2 DEF InHand, Publishing
  <2>4. QED
    BY <1>1, <2>2, <2>3
<1>8. TakenInOnce'
  BY <1>1, <1>7 DEF TakenInOnce
<1>9. AcksAreEarned'
  BY <1>1, <1>2, <1>5 DEF AcksAreEarned, Earned
<1>10. QED
  BY <1>4, <1>6, <1>8, <1>9

\* A handler that answers at once, and one that takes a message in.
LEMMA ArrivalStep ==
    ASSUME NEW m \in CMsg, ChannelsIInv,
           Unroutable(m) \/ Suppressed(m) \/ RefusedEarly(m) \/ Accepted(m)
    PROVE  ChannelsIInv'
<1> USE DEF ChannelsIInv, InboxTypes, Count
<1>1. /\ cplace[m] = "ready" /\ cplace' = [cplace EXCEPT ![m] = "held"]
      /\ UNCHANGED <<kind, cbody, forgotten, orphans, routed, undone>>
  BY DEF Unroutable, Suppressed, RefusedEarly, Accepted, IsNew, Arrives, Answers, connVars, config
<1>2. PICK v \in {"none", "ack", "requeue", "dead"} : verdict' = [verdict EXCEPT ![m] = v]
  BY DEF Unroutable, Suppressed, RefusedEarly, Accepted, Answers
<1>3. InHand(m) = 0
  BY <1>1 DEF InHand, Publishing
<1>4. CASE ~Accepted(m)
  <2>1. UNCHANGED <<seen, buffered>> /\ v # "none"
    BY <1>2, <1>4 DEF Unroutable, Suppressed, RefusedEarly, Answers
  <2>2. kind = "rabbitmq" /\ v = "ack" => cbody[m] = "ignored" \/ m \in seen
    BY <1>2, <1>4 DEF Unroutable, Suppressed, RefusedEarly, Answers
  <2>3. InboxTypes'
    BY <1>1, <1>2, <2>1
  <2>4. \A n \in CMsg : Publishing(n)' = Publishing(n) /\ Tried(n)' = Tried(n)
    BY <1>1, <1>2, <2>1 DEF Publishing, Tried
  <2>5. SeenWereTried' /\ TakenInOnce'
    BY <1>1, <2>1, <2>4 DEF SeenWereTried, TakenInOnce, InHand
  <2>6. m \in seen => Tried(m)
    BY <1>1 DEF SeenWereTried, Publishing
  <2>7. AcksAreEarned'
    BY <1>1, <1>2, <2>2, <2>4, <2>6 DEF AcksAreEarned, Earned
  <2>8. QED
    BY <2>3, <2>5, <2>7
<1>5. CASE Accepted(m)
  <2>1. /\ m \notin seen /\ cbody[m] \in {"named", "unnamed"}
        /\ seen' = IF cbody[m] = "named" THEN seen \cup {m} ELSE seen
    BY <1>5 DEF Accepted, IsNew
  <2>2. \/ v = "ack" /\ buffered' = [buffered EXCEPT ![m] = Upto2(@ + 1)]
        \/ v = "none" /\ UNCHANGED buffered
    BY <1>2, <1>5 DEF Accepted, Answers
  <2>3. InboxTypes'
    BY <1>1, <1>2, <2>1, <2>2 DEF Upto2
  <2>4. /\ \A n \in CMsg \ {m} : /\ Publishing(n)' = Publishing(n) /\ Tried(n)' = Tried(n)
                                 /\ buffered'[n] = buffered[n] /\ Earned(n)' = Earned(n)
        /\ Tried(m) => Tried(m)'
        /\ Tried(m)' \/ Publishing(m)'
        /\ Earned(m)' => Tried(m)'
    BY <1>1, <1>2, <2>2 DEF Publishing, Tried, Upto2, Earned
  <2>5. SeenWereTried'
    BY <1>1, <2>1, <2>4 DEF SeenWereTried
  <2>6. cbody[m] = "named" /\ m \notin forgotten
        => (routed[m] + buffered[m] + orphans[m] + InHand(m) <= 1)'
    <3> SUFFICES ASSUME cbody[m] = "named", m \notin forgotten
                 PROVE (routed[m] + buffered[m] + orphans[m] + InHand(m) <= 1)'
      OBVIOUS
    <3>1. routed[m] = 0 /\ buffered[m] = 0 /\ orphans[m] = 0
      BY <1>3, <2>1 DEF TakenInOnce
    <3>2. CASE v = "ack"
      <4>1. InHand(m)' = 0
        BY <1>1, <1>2, <3>2 DEF InHand, Publishing
      <4>2. buffered'[m] = 1
        BY <2>2, <3>1, <3>2 DEF Upto2
      <4>3. QED
        BY <1>1, <3>1, <4>1, <4>2
    <3>3. CASE v = "none"
      BY <1>1, <2>2, <3>1, <3>3 DEF InHand
    <3>4. QED
      BY <2>2, <3>2, <3>3
  <2>7. TakenInOnce'
    BY <1>1, <2>1, <2>4, <2>6 DEF TakenInOnce, InHand
  <2>8. AcksAreEarned'
    BY <1>1, <2>4 DEF AcksAreEarned
  <2>9. QED
    BY <2>3, <2>5, <2>7, <2>8
<1>6. QED
  BY <1>4, <1>5

\* The end of a publish, in time or after its delivery was taken back.
LEMMA PublishStep ==
    ASSUME NEW m \in CMsg, ChannelsIInv, Published(m) \/ PublishFailed(m) \/ OrphanPublish(m)
    PROVE  ChannelsIInv'
<1> USE DEF ChannelsIInv, InboxTypes, Count
<1>1. UNCHANGED <<kind, cbody, cplace, seen, forgotten, buffered>>
  BY DEF Published, PublishFailed, OrphanPublish, connVars, config
<1>2. CASE Published(m)
  <2>1. /\ Publishing(m) /\ verdict' = [verdict EXCEPT ![m] = "ack"]
        /\ routed' = [routed EXCEPT ![m] = Upto2(@ + 1)] /\ UNCHANGED <<orphans, undone>>
    BY <1>2 DEF Published
  <2>2. InboxTypes'
    BY <1>1, <2>1 DEF Upto2
  <2>3. /\ \A n \in CMsg \ {m} : /\ Publishing(n)' = Publishing(n) /\ Tried(n)' = Tried(n)
                                 /\ routed'[n] = routed[n] /\ Earned(n)' = Earned(n)
        /\ Tried(m)' /\ ~Publishing(m)' /\ routed'[m] <= routed[m] + 1
    BY <1>1, <2>1 DEF Publishing, Tried, Upto2, Earned
  <2>4. SeenWereTried' /\ AcksAreEarned'
    BY <1>1, <2>3 DEF SeenWereTried, AcksAreEarned
  <2>5. TakenInOnce'
    BY <1>1, <2>1, <2>2, <2>3 DEF TakenInOnce, InHand
  <2>6. QED
    BY <2>2, <2>4, <2>5
<1>3. CASE PublishFailed(m)
  <2>1. PICK v \in {"requeue", "ack"} : verdict' = [verdict EXCEPT ![m] = v] /\ (kind = "rabbitmq" => v = "requeue")
    BY <1>3 DEF PublishFailed
  <2>2. /\ Publishing(m) /\ UNCHANGED <<orphans, routed>>
        /\ undone' = IF cbody[m] = "named" THEN undone \cup {m} ELSE undone
    BY <1>3 DEF PublishFailed, GivenUp
  <2>3. InboxTypes'
    BY <1>1, <2>1, <2>2
  <2>4. /\ \A n \in CMsg : /\ Publishing(n)' => Publishing(n)
                           /\ Tried(n) => Tried(n)'
                           /\ n # m /\ Publishing(n) => Publishing(n)'
        /\ cbody[m] = "named" => Tried(m)'
    BY <1>1, <2>1, <2>2 DEF Publishing, Tried
  <2>5. SeenWereTried'
    BY <1>1, <2>4 DEF SeenWereTried
  <2>6. TakenInOnce'
    BY <1>1, <2>2, <2>4 DEF TakenInOnce, InHand
  <2>7. kind = "rabbitmq" => \A n \in CMsg : Earned(n)' => Earned(n)
    BY <1>1, <2>1 DEF Earned
  <2>8. AcksAreEarned'
    BY <1>1, <2>4, <2>7 DEF AcksAreEarned
  <2>9. QED
    BY <2>3, <2>5, <2>6, <2>8
<1>4. CASE OrphanPublish(m)
  <2>1. /\ orphans[m] > 0 /\ orphans' = [orphans EXCEPT ![m] = @ - 1] /\ UNCHANGED verdict
        /\ \/ routed' = [routed EXCEPT ![m] = Upto2(@ + 1)] /\ UNCHANGED undone
           \/ /\ undone' = IF cbody[m] = "named" THEN undone \cup {m} ELSE undone
              /\ UNCHANGED routed
    BY <1>4 DEF OrphanPublish, GivenUp
  <2>2. InboxTypes'
    BY <1>1, <2>1 DEF Upto2
  <2>3. /\ \A n \in CMsg : Publishing(n)' = Publishing(n) /\ Earned(n)' = Earned(n)
        /\ \A n \in CMsg \ {m} : routed'[n] = routed[n] /\ orphans'[n] = orphans[n]
        /\ routed'[m] + orphans'[m] <= routed[m] + orphans[m]
    BY <1>1, <2>1 DEF Publishing, Earned, Upto2
  <2>4. \A n \in CMsg : Tried(n) => Tried(n)'
    BY <1>1, <2>1, <2>3 DEF Tried, Upto2
  <2>5. SeenWereTried'
    BY <1>1, <2>3, <2>4 DEF SeenWereTried
  <2>6. AcksAreEarned'
    BY <1>1, <2>3, <2>4 DEF AcksAreEarned
  <2>7. TakenInOnce'
    BY <1>1, <2>2, <2>3 DEF TakenInOnce, InHand
  <2>8. QED
    BY <2>2, <2>5, <2>6, <2>7
<1>5. QED
  BY <1>2, <1>3, <1>4

\* The flush of the collect buffer, and the expiry of an entry.
LEMMA FlushStep == ChannelsIInv /\ (Flush \/ \E m \in CMsg : Forgets(m)) => ChannelsIInv'
<1> SUFFICES ASSUME ChannelsIInv, Flush \/ \E m \in CMsg : Forgets(m) PROVE ChannelsIInv'
  OBVIOUS
<1> USE DEF ChannelsIInv, InboxTypes, Count
<1>1. UNCHANGED <<kind, cbody, cplace, verdict, orphans>>
  BY DEF Flush, Forgets, connVars, config
<1>2. \A n \in CMsg : Publishing(n)' = Publishing(n) /\ Earned(n)' = Earned(n)
  BY <1>1 DEF Publishing, Earned
<1>3. CASE Flush
  <2>1. /\ buffered' = [n \in CMsg |-> 0] /\ UNCHANGED <<seen, forgotten>>
        /\ \/ routed' = [n \in CMsg |-> Upto2(routed[n] + buffered[n])] /\ UNCHANGED undone
           \/ undone' = undone \cup {n \in CMsg : buffered[n] > 0} /\ UNCHANGED routed
    BY <1>3 DEF Flush
  <2>2. InboxTypes'
    BY <1>1, <2>1 DEF Upto2
  <2>3. \A n \in CMsg : routed'[n] + buffered'[n] <= routed[n] + buffered[n]
    BY <2>1 DEF Upto2
  <2>4. \A n \in CMsg : Tried(n) => Tried(n)'
    BY <1>1, <2>1 DEF Tried, Upto2
  <2>5. SeenWereTried' /\ AcksAreEarned'
    BY <1>1, <1>2, <2>1, <2>4 DEF SeenWereTried, AcksAreEarned
  <2>6. TakenInOnce'
    BY <1>1, <1>2, <2>1, <2>2, <2>3 DEF TakenInOnce, InHand
  <2>7. QED
    BY <2>2, <2>5, <2>6
<1>4. ASSUME NEW m \in CMsg, Forgets(m) PROVE ChannelsIInv'
  <2>1. /\ seen' = seen \ {m} /\ forgotten' = forgotten \cup {m}
        /\ UNCHANGED <<buffered, routed, undone>>
    BY <1>4 DEF Forgets
  <2>2. InboxTypes'
    BY <1>1, <2>1
  <2>3. \A n \in CMsg : Tried(n)' = Tried(n)
    BY <1>1, <2>1 DEF Tried
  <2>4. SeenWereTried' /\ AcksAreEarned'
    BY <1>1, <1>2, <2>1, <2>3 DEF SeenWereTried, AcksAreEarned
  <2>5. TakenInOnce'
    BY <1>1, <1>2, <2>1 DEF TakenInOnce, InHand
  <2>6. QED
    BY <2>2, <2>4, <2>5
<1>5. QED
  BY <1>3, <1>4

\* An ack or a nack reaches the broker.
LEMMA SettleStep == ASSUME NEW m \in CMsg, ChannelsIInv, Settle(m) PROVE ChannelsIInv'
<1> USE DEF ChannelsIInv, InboxTypes, Count
<1>1. verdict[m] \in {"ack", "dead", "requeue"} /\ cplace[m] = "held"
  BY DEF Settle
<1>2. UNCHANGED <<kind, cbody, verdict, seen, forgotten, buffered, orphans, routed, undone>>
  BY DEF Settle, connVars, config
<1>3. PICK to \in {"acked", "dead", "ready"} :
          cplace' = [cplace EXCEPT ![m] = to] /\ (to = "acked" => verdict[m] = "ack")
  BY <1>1 DEF Settle
<1>4. InboxTypes'
  BY <1>2, <1>3
<1>5. \A n \in CMsg : Publishing(n)' = Publishing(n) /\ Tried(n)' = Tried(n) /\ (Earned(n)' => Earned(n))
  BY <1>1, <1>2, <1>3 DEF Publishing, Tried, Earned
<1>6. SeenWereTried' /\ AcksAreEarned'
  BY <1>2, <1>5 DEF SeenWereTried, AcksAreEarned
<1>7. TakenInOnce'
  BY <1>2, <1>5 DEF TakenInOnce, InHand
<1>8. QED
  BY <1>4, <1>6, <1>7

\* Every step of an adapter keeps the types, the ledger of the deduplicator
\* and what an acknowledgement stands for.
LEMMA ChannelsStep == ChannelsIInv /\ [ChannelsNext]_channelsVars => ChannelsIInv'
<1> SUFFICES ASSUME ChannelsIInv, [ChannelsNext]_channelsVars PROVE ChannelsIInv'
  OBVIOUS
<1>1. CASE UNCHANGED channelsVars
  BY <1>1, InboxStays DEF channelsVars, connVars, config
<1>2. CASE StartAdapter \/ ReconnectLoop \/ Setup \/ ListFails \/ SetupFails \/ Subscribed \/ WatchChannel
  BY <1>2, InboxStays
     DEF StartAdapter, ReconnectLoop, Setup, ListFails, SetupFails, Subscribed, WatchChannel, config
<1>3. ASSUME NEW u \in ChannelUser, Subscribe(u) \/ UserCreated(u) PROVE ChannelsIInv'
  BY <1>3, InboxStays, TakeBackStep DEF Subscribe, UserCreated, config
<1>4. CASE ConnectionLost \/ StopAdapter
  BY <1>4, TakeBackStep DEF ConnectionLost, StopAdapter, config
<1>5. CASE GatewayRestarts
  BY <1>5, RestartStep
<1>6. CASE Flush \/ \E m \in CMsg : Forgets(m)
  BY <1>6, FlushStep
<1>7. ASSUME NEW m \in CMsg,
             \/ Unroutable(m) \/ Suppressed(m) \/ RefusedEarly(m) \/ Accepted(m)
             \/ Published(m) \/ PublishFailed(m) \/ OrphanPublish(m) \/ Settle(m)
      PROVE ChannelsIInv'
  BY <1>7, ArrivalStep, PublishStep, SettleStep
<1>8. QED
  BY <1>1, <1>2, <1>3, <1>4, <1>5, <1>6, <1>7 DEF ChannelsNext, AdapterRuns

\* Whatever is lost, failed, taken back, forgotten or delivered again: for a
\* RabbitMQ message that was acknowledged, PublishMessage had returned nil, or
\* the message waits in the collect buffer, is being published for an earlier
\* delivery or was given up; and for a named message that the deduplicator did
\* not forget it returned nil once at most (handleDelivery, IsDuplicate,
\* enqueueCollect).
THEOREM AcknowledgedWasRouted == ChannelsSpec => []AckedMeansRouted
<1>1. ChannelsInit => ChannelsIInv
  BY DEF ChannelsInit, ChannelsIInv, InboxTypes, Count, Publishing, InHand, Earned, SeenWereTried,
         TakenInOnce, AcksAreEarned
<1>2. ChannelsIInv => AckedMeansRouted
  <2> SUFFICES ASSUME ChannelsIInv PROVE AckedMeansRouted
    OBVIOUS
  <2>1. \A m \in CMsg \ forgotten : cbody[m] = "named" => routed[m] <= 1
    BY DEF ChannelsIInv, InboxTypes, Count, TakenInOnce, InHand
  <2>2. QED
    BY <2>1 DEF ChannelsIInv, AcksAreEarned, Earned, Tried, AckedMeansRouted
<1>3. QED
  BY <1>1, <1>2, ChannelsStep, PTL DEF ChannelsSpec

(***************************************************************************)
(* MCPLoader.                                                              *)
(***************************************************************************)

LoaderSpec == LoaderInit /\ [][LoaderNext]_loaderVars

WorkerState ==
    [at : {"idle", "dial", "swap", "close", "list"}, kind : {"backoff", "stdio", "ondemand"},
     on : Server \cup {Min(Server)}, holds : Nat, left : SUBSET Server,
     listed : [Server -> Nat], failed : BOOLEAN]

CallState ==
    [at : {"none", "held", "reconnecting", "retry"}, on : Server \cup {Min(Server)},
     through : Nat, fresh : BOOLEAN]

LoaderTypes ==
    /\ made \in Nat
    /\ session \in [Server -> Nat] /\ tools \in [Server -> Nat]
    /\ work \in [Worker -> WorkerState]
    /\ \A w \in Worker : work[w].at # "idle" => work[w].on \in Server
    /\ call \in CallState /\ (call.at # "none" => call.on \in Server)
    /\ waiting \subseteq Server

\* A session that is not closed is some server's, or a goroutine is about to
\* install it or to close it.
OpenAreHeld ==
    ~shut => \A x \in open : \/ \E s \in Server : session[s] = x
                             \/ \E w \in Worker : work[w].at \in {"swap", "close"} /\ work[w].holds = x

\* The first connect of a stdio server is still to come.
Unconnected(s) ==
    \/ s \in waiting \ Remote
    \/ \E w \in Worker : work[w].kind = "stdio" /\ work[w].at \in {"dial", "swap"} /\ work[w].on = s

Connecting(w) == work[w].kind = "stdio" /\ work[w].at # "idle"

\* One goroutine at a time connects stdio servers, each once, and nothing else
\* is done about a server before that.
StdioComesFirst ==
    /\ \A v, w \in Worker : Connecting(v) /\ Connecting(w) => v = w
    /\ \A w \in Worker : Connecting(w) => work[w].on \notin waiting \cup Remote
    /\ ~shut => \A s \in Server : Unconnected(s) =>
         /\ session[s] = NoSession /\ tools[s] = NoSession
         /\ \A w \in Worker : work[w].listed[s] = NoSession
         /\ call.at # "none" => call.on # s
         /\ \A w \in Worker : work[w].kind # "stdio" /\ work[w].at # "idle" => work[w].on # s

\* A goroutine that owes the tools a reload: it has swapped a session and not
\* yet installed what it listed, or is trying again because that failed.
Owes(w) ==
    /\ work[w].kind # "stdio"
    /\ work[w].at \in {"close", "list"} \/ (work[w].at \in {"dial", "swap"} /\ work[w].failed)

\* A goroutine that lists tools has, unless another one swapped meanwhile,
\* only tools of present sessions; and installed tools of an earlier session
\* will be replaced.
ReloadsAreFresh ==
    (~shut /\ ~overlapped) =>
        \A w \in Worker : work[w].at = "list" =>
            \A s \in Server : work[w].listed[s] \in {NoSession, session[s]}
StaleToolsAreOwed ==
    (~shut /\ ~overlapped /\ ~gaveUp) =>
        \A s \in Server : tools[s] \in {NoSession, session[s]} \/ \E w \in Worker : Owes(w)

LoaderIInv == LoaderTypes /\ OpenAreHeld /\ StdioComesFirst /\ ReloadsAreFresh /\ StaleToolsAreOwed

\* An idle goroutine has the shape of a goroutine.
LEMMA IdleShape == Idle \in WorkerState /\ Idle.at = "idle" /\ ~Idle.failed /\ Idle.listed = Nothing
BY DEF Idle, WorkerState, Nothing, NoSession

\* No call has the shape of a call.
LEMMA NoCallShape == NoCall \in CallState /\ NoCall.at = "none"
BY DEF NoCall, CallState, NoSession

\* One goroutine moves and the others stay as they are.
Moves1(w, n) == n \in WorkerState /\ work' = [work EXCEPT ![w] = n]

\* What Moves1 says of each goroutine.
LEMMA OneMoves ==
  ASSUME work \in [Worker -> WorkerState], NEW w \in Worker, NEW n, Moves1(w, n)
  PROVE  /\ work' \in [Worker -> WorkerState] /\ work'[w] = n
         /\ \A v \in Worker \ {w} : work'[v] = work[v]
BY DEF Moves1

\* A goroutine starts at dial, with nothing in hand.
StartsAs(w, s, k, n) ==
    /\ work[w].at = "idle" /\ Moves1(w, n)
    /\ n.at = "dial" /\ n.on = s /\ n.kind = k /\ ~n.failed /\ n.listed = Nothing

\* The start of a goroutine, field by field.
LEMMA StartsEffect ==
  ASSUME LoaderTypes, NEW w \in Worker, NEW s \in Server, NEW k \in {"backoff", "stdio", "ondemand"},
         Starts(w, s, k)
  PROVE  \E n \in WorkerState : StartsAs(w, s, k, n)
<1> DEFINE n == [Idle EXCEPT !.at = "dial", !.on = s, !.kind = k]
<1>1. n \in WorkerState /\ n.at = "dial" /\ n.on = s /\ n.kind = k /\ ~n.failed /\ n.listed = Nothing
  BY DEF Idle, WorkerState, Nothing, NoSession
<1>2. work[w].at = "idle" /\ work' = [work EXCEPT ![w] = n]
  BY DEF Starts
<1> HIDE DEF n
<1>3. QED
  BY <1>1, <1>2 DEF Moves1, StartsAs

\* After a failure a goroutine ends or dials again, remembering whether it
\* swapped a session.
LEMMA FailureEffect ==
  ASSUME LoaderTypes, NEW w \in Worker, NEW next \in AfterFailure(w)
  PROVE  /\ next \in WorkerState
         /\ \/ next = Idle /\ (shut \/ work[w].kind \in {"stdio", "ondemand"})
            \/ /\ next.at = "dial" /\ next.on = work[w].on /\ next.kind = work[w].kind
               /\ next.failed = work[w].failed /\ next.listed = work[w].listed
               /\ work[w].kind # "stdio"
<1> DEFINE n == [work[w] EXCEPT !.at = "dial"]
<1>0. work[w] \in WorkerState
  BY DEF LoaderTypes
<1>1. /\ n \in WorkerState /\ n.at = "dial" /\ n.on = work[w].on /\ n.kind = work[w].kind
      /\ n.failed = work[w].failed /\ n.listed = work[w].listed
  BY <1>0 DEF WorkerState
<1>2. AfterFailure(w) = IF shut \/ work[w].kind = "stdio" THEN {Idle}
                        ELSE {n} \cup (IF work[w].kind = "ondemand" THEN {Idle} ELSE {})
  BY DEF AfterFailure
<1> HIDE DEF n
<1>3. CASE shut \/ work[w].kind = "stdio"
  BY <1>2, <1>3, IdleShape
<1>4. CASE ~shut /\ work[w].kind # "stdio"
  <2>1. next = n \/ (work[w].kind = "ondemand" /\ next = Idle)
    BY <1>2, <1>4
  <2>2. QED
    BY <2>1, <1>1, <1>4, IdleShape
<1>5. QED
  BY <1>3, <1>4

\* Dial: a new session in hand.
LEMMA DialEffect ==
  ASSUME LoaderTypes, NEW w \in Worker, Dial(w)
  PROVE  \E n \in WorkerState :
           /\ work[w].at = "dial" /\ Moves1(w, n)
           /\ n.at = "swap" /\ n.on = work[w].on /\ n.kind = work[w].kind /\ n.holds = made + 1
           /\ n.failed = work[w].failed /\ n.listed = work[w].listed
<1>0. work[w] \in WorkerState
  BY DEF LoaderTypes
<1> DEFINE x == made + 1
           n == [work[w] EXCEPT !.at = "swap", !.holds = x]
<1>3. x \in Nat
  BY DEF LoaderTypes
<1> HIDE DEF x
<1>1. /\ n \in WorkerState /\ n.at = "swap" /\ n.on = work[w].on /\ n.kind = work[w].kind /\ n.holds = x
      /\ n.failed = work[w].failed /\ n.listed = work[w].listed
  BY <1>0, <1>3 DEF WorkerState
<1>2. work[w].at = "dial" /\ work' = [work EXCEPT ![w] = n]
  BY DEF Dial, LoaderTypes, x
<1> HIDE DEF n
<1>4. QED
  BY <1>1, <1>2 DEF Moves1, x

\* Swap before Close: the old session in hand.
LEMMA SwapEffect ==
  ASSUME LoaderTypes, NEW w \in Worker, Swap(w), ~shut
  PROVE  \E n \in WorkerState :
           /\ work[w].at = "swap" /\ Moves1(w, n)
           /\ n.at = "close" /\ n.on = work[w].on /\ n.kind = work[w].kind
           /\ n.holds = session[work[w].on] /\ n.failed = work[w].failed /\ n.listed = work[w].listed
<1> DEFINE n == [work[w] EXCEPT !.at = "close", !.holds = session[work[w].on]]
<1>0. work[w] \in WorkerState
  BY DEF LoaderTypes
<1>1. session[work[w].on] \in Nat
  BY DEF LoaderTypes, Swap
<1>2. /\ n \in WorkerState /\ n.at = "close" /\ n.on = work[w].on /\ n.kind = work[w].kind
      /\ n.holds = session[work[w].on] /\ n.failed = work[w].failed /\ n.listed = work[w].listed
  BY <1>0, <1>1 DEF WorkerState
<1>3. work[w].at = "swap" /\ work' = [work EXCEPT ![w] = n]
  BY DEF Swap, LoaderTypes
<1> HIDE DEF n
<1>4. QED
  BY <1>2, <1>3 DEF Moves1

\* The old session is closed and the listing begins with nothing.
LEMMA CloseOldEffect ==
  ASSUME LoaderTypes, NEW w \in Worker, CloseOld(w)
  PROVE  \E n \in WorkerState :
           /\ work[w].at = "close" /\ Moves1(w, n)
           /\ n.at = "list" /\ n.on = work[w].on /\ n.kind = work[w].kind
           /\ ~n.failed /\ n.listed = Nothing
<1> DEFINE n == [work[w] EXCEPT !.at = "list", !.holds = NoSession, !.left = Snapshot,
                                !.listed = Nothing, !.failed = FALSE]
<1>0. work[w] \in WorkerState /\ NoSession \in Nat /\ Snapshot \subseteq Server /\ Nothing \in [Server -> Nat]
  BY DEF LoaderTypes, NoSession, Snapshot, Nothing
<1>1. /\ n \in WorkerState /\ n.at = "list" /\ n.on = work[w].on /\ n.kind = work[w].kind
      /\ ~n.failed /\ n.listed = Nothing
  BY <1>0 DEF WorkerState
<1>2. work[w].at = "close" /\ work' = [work EXCEPT ![w] = n]
  BY DEF CloseOld, LoaderTypes
<1> HIDE DEF n
<1>3. QED
  BY <1>1, <1>2 DEF Moves1

\* A server is skipped, or its tools are bound to the session it has.
LEMMA ListEffect ==
  ASSUME LoaderTypes, NEW w \in Worker, ListTools(w)
  PROVE  \E n \in WorkerState :
           /\ work[w].at = "list" /\ Moves1(w, n)
           /\ n.at = "list" /\ n.on = work[w].on /\ n.kind = work[w].kind
           /\ \A s \in Server : n.listed[s] \in {work[w].listed[s], session[s]}
<1> DEFINE s == Min(work[w].left)
           skip == [work[w] EXCEPT !.left = @ \ {s}]
           take == [skip EXCEPT !.listed[s] = session[s]]
           note == [skip EXCEPT !.failed = TRUE]
<1>0. work[w] \in WorkerState /\ session \in [Server -> Nat]
  BY DEF LoaderTypes
<1>1. work[w].at = "list" /\ \E n \in {skip, take, note} : work' = [work EXCEPT ![w] = n]
  BY DEF ListTools
<1>2. /\ skip \in WorkerState /\ skip.at = work[w].at /\ skip.on = work[w].on
      /\ skip.kind = work[w].kind /\ skip.listed = work[w].listed
  BY <1>0 DEF WorkerState
<1>3. /\ take.at = skip.at /\ take.on = skip.on /\ take.kind = skip.kind
      /\ take \in WorkerState
      /\ take.listed = [skip.listed EXCEPT ![s] = session[s]]
  <2> HIDE DEF s, skip
  <2>1. skip.listed \in [Server -> Nat]
    BY <1>2 DEF WorkerState
  <2>2. [skip.listed EXCEPT ![s] = session[s]] \in [Server -> Nat]
    BY <2>1, <1>0
  <2>3. QED
    BY <1>2, <2>2 DEF WorkerState
<1>4. /\ note \in WorkerState /\ note.at = skip.at /\ note.on = skip.on
      /\ note.kind = skip.kind /\ note.listed = skip.listed
  <2> HIDE DEF s, skip
  <2>1. QED
    BY <1>2 DEF WorkerState
<1>5. \A t \in Server : take.listed[t] \in {work[w].listed[t], session[t]}
  <2> HIDE DEF s, skip, take
  <2>1. work[w].listed \in [Server -> Nat]
    BY <1>0 DEF WorkerState
  <2>2. QED
    BY <1>2, <1>3, <2>1
<1> HIDE DEF s, skip, take, note
<1>6. PICK n \in {skip, take, note} : work' = [work EXCEPT ![w] = n]
  BY <1>1
<1>7. n \in WorkerState /\ n.at = "list" /\ n.on = work[w].on /\ n.kind = work[w].kind
  BY <1>1, <1>2, <1>3, <1>4
<1>8. \A t \in Server : n.listed[t] \in {work[w].listed[t], session[t]}
  BY <1>2, <1>4, <1>5
<1>9. QED
  BY <1>1, <1>6, <1>7, <1>8 DEF Moves1

\* Where a goroutine is after it failed at dial or at the end of a reload.
FailsTo(w, n) ==
    /\ Moves1(w, n)
    /\ \/ n = Idle /\ (shut \/ work[w].kind \in {"stdio", "ondemand"})
       \/ /\ n.at = "dial" /\ n.on = work[w].on /\ n.kind = work[w].kind
          /\ n.failed = work[w].failed /\ n.listed = work[w].listed
          /\ work[w].kind # "stdio"
    /\ gaveUp => gaveUp'
    /\ n = Idle /\ work[w].kind = "ondemand" /\ work[w].failed => gaveUp'

\* The failures, field by field.
LEMMA FailsEffect ==
  ASSUME LoaderTypes, NEW w \in Worker,
         \E next \in AfterFailure(w) : work' = [work EXCEPT ![w] = next] /\ NotesGivingUp(w, next)
  PROVE  \E n \in WorkerState : FailsTo(w, n)
<1>1. PICK next \in AfterFailure(w) : work' = [work EXCEPT ![w] = next] /\ NotesGivingUp(w, next)
  OBVIOUS
<1>2. /\ next \in WorkerState
      /\ \/ next = Idle /\ (shut \/ work[w].kind \in {"stdio", "ondemand"})
         \/ /\ next.at = "dial" /\ next.on = work[w].on /\ next.kind = work[w].kind
            /\ next.failed = work[w].failed /\ next.listed = work[w].listed
            /\ work[w].kind # "stdio"
  BY FailureEffect
<1>3. Moves1(w, next)
  BY <1>1, <1>2 DEF Moves1
<1>4. gaveUp => gaveUp'
  BY <1>1 DEF NotesGivingUp
<1>5. next = Idle /\ work[w].kind = "ondemand" /\ work[w].failed => gaveUp'
  BY <1>1 DEF NotesGivingUp
<1>6. QED
  BY <1>2, <1>3, <1>4, <1>5 DEF FailsTo

\* A goroutine's step keeps the shapes.
LEMMA WorkTypesStep ==
  ASSUME LoaderTypes, NEW w \in Worker, NEW n, Moves1(w, n), n.at # "idle" => n.on \in Server,
         made' \in Nat, session' \in [Server -> Nat], tools' \in [Server -> Nat],
         call' \in CallState, call'.at # "none" => call'.on \in Server, waiting' \subseteq Server
  PROVE  LoaderTypes'
<1>1. work' \in [Worker -> WorkerState] /\ work'[w] = n /\ \A v \in Worker \ {w} : work'[v] = work[v]
  BY OneMoves DEF LoaderTypes
<1>2. QED
  BY <1>1 DEF LoaderTypes

\* Every step keeps the shapes, and an unfinished goroutine is at a server.
LEMMA LoaderTypesStep == LoaderTypes /\ [LoaderNext]_loaderVars => LoaderTypes'
<1> SUFFICES ASSUME LoaderTypes, [LoaderNext]_loaderVars PROVE LoaderTypes'
  OBVIOUS
<1>0. \A w \in Worker : work[w].at # "idle" => work[w].on \in Server
  BY DEF LoaderTypes
<1>1. ASSUME NEW w \in Worker, NEW s \in Server, ConnectInBackground(w, s) PROVE LoaderTypes'
  <2>1. PICK k \in {"backoff", "stdio", "ondemand"} : Starts(w, s, k)
    BY <1>1 DEF ConnectInBackground
  <2>2. PICK n \in WorkerState : StartsAs(w, s, k, n)
    BY <2>1, StartsEffect
  <2>3. QED
    BY <1>1, <2>2, WorkTypesStep DEF StartsAs, ConnectInBackground, LoaderTypes
<1>2. ASSUME NEW w \in Worker, NEW s \in Server, PingFails(w, s) PROVE LoaderTypes'
  <2>0. Starts(w, s, "backoff")
    BY <1>2 DEF PingFails
  <2>1. PICK n \in WorkerState : StartsAs(w, s, "backoff", n)
    BY <2>0, StartsEffect
  <2>2. QED
    BY <1>2, <2>1, WorkTypesStep DEF StartsAs, PingFails, LoaderTypes
<1>3. ASSUME NEW w \in Worker, CallLosesConnection(w) PROVE LoaderTypes'
  <2>1. call.on \in Server /\ call'.on = call.on /\ call' \in CallState /\ Starts(w, call.on, "ondemand")
    BY <1>3 DEF CallLosesConnection, LoaderTypes, CallState
  <2>2. PICK n \in WorkerState : StartsAs(w, call.on, "ondemand", n)
    BY <2>1, StartsEffect
  <2>3. QED
    BY <1>3, <2>1, <2>2, WorkTypesStep DEF StartsAs, CallLosesConnection, LoaderTypes
<1>4. ASSUME NEW w \in Worker, Dial(w) PROVE LoaderTypes'
  <2>1. PICK n \in WorkerState : work[w].at = "dial" /\ Moves1(w, n) /\ n.on = work[w].on
    BY <1>4, DialEffect
  <2>2. QED
    BY <1>0, <1>4, <2>1, WorkTypesStep DEF Dial, LoaderTypes
<1>5. ASSUME NEW w \in Worker, DialFails(w) PROVE LoaderTypes'
  <2>1. PICK n \in WorkerState : FailsTo(w, n)
    BY <1>5, FailsEffect DEF DialFails
  <2>2. n.at # "idle" => n.on \in Server
    BY <1>0, <1>5, <2>1, IdleShape DEF DialFails, FailsTo
  <2>3. QED
    BY <1>5, <2>1, <2>2, WorkTypesStep DEF DialFails, LoaderTypes, FailsTo
<1>6. ASSUME NEW w \in Worker, Swap(w) PROVE LoaderTypes'
  <2>1. CASE shut
    <3>1. Moves1(w, Idle)
      BY <1>6, <2>1, IdleShape DEF Swap, Moves1
    <3>2. QED
      BY <1>6, <2>1, <3>1, IdleShape, WorkTypesStep DEF Swap, LoaderTypes
  <2>2. CASE ~shut
    <3>1. PICK n \in WorkerState : work[w].at = "swap" /\ Moves1(w, n) /\ n.on = work[w].on
      BY <1>6, <2>2, SwapEffect
    <3>2. work[w].holds \in Nat
      BY DEF LoaderTypes, WorkerState
    <3>3. session' \in [Server -> Nat]
      BY <1>6, <2>2, <3>2 DEF Swap, LoaderTypes
    <3>4. QED
      BY <1>0, <1>6, <3>1, <3>3, WorkTypesStep DEF Swap, LoaderTypes
  <2>3. QED
    BY <2>1, <2>2
<1>7. ASSUME NEW w \in Worker, CloseOld(w) PROVE LoaderTypes'
  <2>1. PICK n \in WorkerState : work[w].at = "close" /\ Moves1(w, n) /\ n.on = work[w].on
    BY <1>7, CloseOldEffect
  <2>2. QED
    BY <1>0, <1>7, <2>1, WorkTypesStep DEF CloseOld, LoaderTypes
<1>8. ASSUME NEW w \in Worker, ListTools(w) PROVE LoaderTypes'
  <2>1. PICK n \in WorkerState : work[w].at = "list" /\ Moves1(w, n) /\ n.on = work[w].on
    BY <1>8, ListEffect
  <2>2. QED
    BY <1>0, <1>8, <2>1, WorkTypesStep DEF ListTools, LoaderTypes
<1>9. ASSUME NEW w \in Worker, Install(w) PROVE LoaderTypes'
  <2>1. CASE work[w].failed /\ work[w].listed = Nothing
    <3>1. PICK n \in WorkerState : FailsTo(w, n)
      BY <1>9, <2>1, FailsEffect DEF Install
    <3>2. n.at # "idle" => n.on \in Server
      BY <1>0, <1>9, <3>1, IdleShape DEF Install, FailsTo
    <3>3. QED
      BY <1>9, <2>1, <3>1, <3>2, WorkTypesStep DEF Install, LoaderTypes, FailsTo
  <2>2. CASE ~(work[w].failed /\ work[w].listed = Nothing)
    <3>1. Moves1(w, Idle)
      BY <1>9, <2>2, IdleShape DEF Install, Moves1
    <3>2. tools' \in [Server -> Nat]
      BY <1>9, <2>2 DEF Install, LoaderTypes, WorkerState
    <3>3. call' \in CallState /\ (call'.at # "none" => call'.on \in Server)
      <4>1. call' \in CallState /\ call'.at = call.at /\ call'.on = call.on
        <5>1. call' = [call EXCEPT !.fresh = TRUE] \/ call' = call
          BY <1>9, <2>2 DEF Install
        <5>2. call \in CallState
          BY DEF LoaderTypes
        <5>3. QED
          BY <5>1, <5>2 DEF CallState
      <4>2. QED
        BY <4>1 DEF LoaderTypes
    <3>4. QED
      BY <1>9, <3>1, <3>2, <3>3, IdleShape, WorkTypesStep DEF Install, LoaderTypes
  <2>3. QED
    BY <2>1, <2>2
<1>10. CASE CallSucceeds \/ Reconnected \/ CallIsSoftened
  <2>1. call' = NoCall \/ (call' = [call EXCEPT !.at = "retry"] /\ call.at = "reconnecting")
    BY <1>10 DEF CallSucceeds, Reconnected, CallIsSoftened
  <2>2. call' \in CallState /\ (call'.at # "none" => call'.on \in Server)
    BY <2>1, NoCallShape DEF LoaderTypes, CallState
  <2>3. QED
    BY <1>10, <2>2 DEF CallSucceeds, Reconnected, CallIsSoftened, LoaderTypes
<1>11. CASE CloseLoader
  BY <1>11 DEF CloseLoader, LoaderTypes, Nothing, NoSession
<1>12. ASSUME NEW s \in Server, HoldTool(s) PROVE LoaderTypes'
  <2>1. tools[s] \in Nat /\ call' = [NoCall EXCEPT !.at = "held", !.on = s, !.through = tools[s]]
    BY <1>12 DEF HoldTool, LoaderTypes
  <2>2. call' \in CallState /\ call'.on = s
    BY <2>1, NoCallShape DEF CallState
  <2>3. QED
    BY <1>12, <2>2 DEF HoldTool, LoaderTypes
<1>13. ASSUME NEW x \in open, SessionDrops(x) PROVE LoaderTypes'
  BY <1>13 DEF SessionDrops, LoaderTypes
<1>14. CASE UNCHANGED loaderVars
  BY <1>14 DEF loaderVars, LoaderTypes
<1>15. QED
  BY <1>1, <1>2, <1>3, <1>4, <1>5, <1>6, <1>7, <1>8, <1>9, <1>10, <1>11, <1>12, <1>13, <1>14
     DEF LoaderNext, Works, Pings

\* Every step keeps a holder for each open session.
LEMMA OpenStep == LoaderTypes /\ OpenAreHeld /\ [LoaderNext]_loaderVars => OpenAreHeld'
<1> SUFFICES ASSUME LoaderTypes, OpenAreHeld, [LoaderNext]_loaderVars, ~shut' PROVE OpenAreHeld'
  BY DEF OpenAreHeld
<1>t. /\ work \in [Worker -> WorkerState] /\ session \in [Server -> Nat]
      /\ \A w \in Worker : work[w].at # "idle" => work[w].on \in Server
  BY DEF LoaderTypes
<1>q. ASSUME NEW w \in Worker, NEW n, Moves1(w, n), work[w].at \notin {"swap", "close"}, ~shut,
             open' = open, session' = session
      PROVE  OpenAreHeld'
  <2>1. \A v \in Worker \ {w} : work'[v] = work[v]
    BY <1>q, <1>t, OneMoves
  <2>2. QED
    BY <1>q, <2>1 DEF OpenAreHeld
<1>1. ASSUME NEW w \in Worker, NEW s \in Server, NEW k \in {"backoff", "stdio", "ondemand"}, Starts(w, s, k), ~shut,
             open' = open, session' = session
      PROVE OpenAreHeld'
  <2>1. PICK n \in WorkerState : StartsAs(w, s, k, n)
    BY <1>1, StartsEffect
  <2>2. QED
    BY <1>1, <1>q, <2>1 DEF StartsAs
<1>2. ASSUME NEW w \in Worker, NEW s \in Server, ConnectInBackground(w, s) PROVE OpenAreHeld'
  BY <1>1, <1>2 DEF ConnectInBackground
<1>3. ASSUME NEW w \in Worker, NEW s \in Server, PingFails(w, s) PROVE OpenAreHeld'
  BY <1>1, <1>3 DEF PingFails
<1>4. ASSUME NEW w \in Worker, CallLosesConnection(w) PROVE OpenAreHeld'
  <2>1. call.on \in Server
    BY <1>4 DEF CallLosesConnection, LoaderTypes
  <2>2. QED
    BY <1>1, <1>4, <2>1 DEF CallLosesConnection
<1>5. ASSUME NEW w \in Worker, Dial(w) PROVE OpenAreHeld'
  <2>1. PICK n \in WorkerState : work[w].at = "dial" /\ Moves1(w, n) /\ n.at = "swap" /\ n.holds = made + 1
    BY <1>5, DialEffect
  <2>2. work'[w] = n /\ \A v \in Worker \ {w} : work'[v] = work[v]
    BY <1>t, <2>1, OneMoves
  <2>3. ~shut /\ session' = session /\ open' = open \cup {made + 1}
    BY <1>5 DEF Dial
  <2>4. QED
    BY <2>1, <2>2, <2>3 DEF OpenAreHeld
<1>6. ASSUME NEW w \in Worker, DialFails(w) PROVE OpenAreHeld'
  <2>1. PICK n \in WorkerState : FailsTo(w, n)
    BY <1>6, FailsEffect DEF DialFails
  <2>2. QED
    BY <1>6, <1>q, <2>1 DEF DialFails, FailsTo
<1>7. ASSUME NEW w \in Worker, Swap(w) PROVE OpenAreHeld'
  <2>1. ~shut /\ open' = open /\ session' = [session EXCEPT ![work[w].on] = work[w].holds]
    BY <1>7 DEF Swap
  <2>2. PICK n \in WorkerState : /\ work[w].at = "swap" /\ Moves1(w, n)
                                 /\ n.at = "close" /\ n.holds = session[work[w].on]
    BY <1>7, <2>1, SwapEffect
  <2>3. work'[w] = n /\ \A v \in Worker \ {w} : work'[v] = work[v]
    BY <1>t, <2>2, OneMoves
  <2>4. SUFFICES ASSUME NEW x \in open
                 PROVE  \/ \E s \in Server : session'[s] = x
                        \/ \E v \in Worker : work'[v].at \in {"swap", "close"} /\ work'[v].holds = x
    BY <2>1 DEF OpenAreHeld
  <2>5. ASSUME NEW s \in Server, session[s] = x PROVE \/ \E r \in Server : session'[r] = x
                                                      \/ work'[w].at = "close" /\ work'[w].holds = x
    BY <1>t, <2>1, <2>2, <2>3, <2>5
  <2>6. ASSUME NEW v \in Worker, work[v].at \in {"swap", "close"}, work[v].holds = x
        PROVE  \/ \E s \in Server : session'[s] = x
               \/ work'[v].at \in {"swap", "close"} /\ work'[v].holds = x
    <3>1. CASE v = w
      <4>1. work[w].on \in Server
        BY <1>t, <2>2
      <4>2. session'[work[w].on] = x
        BY <1>t, <2>1, <2>6, <3>1, <4>1
      <4>3. QED
        BY <4>1, <4>2
    <3>2. CASE v # w
      BY <2>3, <2>6, <3>2
    <3>3. QED
      BY <3>1, <3>2
  <2>7. QED
    BY <2>1, <2>5, <2>6 DEF OpenAreHeld
<1>8. ASSUME NEW w \in Worker, CloseOld(w) PROVE OpenAreHeld'
  <2>1. ~shut /\ session' = session /\ open' = open \ {work[w].holds}
    BY <1>8 DEF CloseOld
  <2>2. PICK n \in WorkerState : Moves1(w, n)
    BY <1>8, CloseOldEffect
  <2>3. \A v \in Worker \ {w} : work'[v] = work[v]
    BY <1>t, <2>2, OneMoves
  <2>4. QED
    BY <2>1, <2>3 DEF OpenAreHeld
<1>9. ASSUME NEW w \in Worker, ListTools(w) PROVE OpenAreHeld'
  <2>1. PICK n \in WorkerState : work[w].at = "list" /\ Moves1(w, n)
    BY <1>9, ListEffect
  <2>2. QED
    BY <1>9, <1>q, <2>1 DEF ListTools
<1>10. ASSUME NEW w \in Worker, Install(w) PROVE OpenAreHeld'
  <2>0. work[w].at = "list" /\ ~shut /\ open' = open /\ session' = session
    BY <1>10 DEF Install
  <2>1. \E n \in WorkerState : Moves1(w, n)
    <3>1. CASE work[w].failed /\ work[w].listed = Nothing
      BY <1>10, <3>1, FailsEffect DEF Install, FailsTo
    <3>2. CASE ~(work[w].failed /\ work[w].listed = Nothing)
      BY <1>10, <3>2, IdleShape DEF Install, Moves1
    <3>3. QED
      BY <3>1, <3>2
  <2>2. QED
    BY <1>q, <2>0, <2>1
<1>11. CASE CallSucceeds \/ Reconnected \/ CallIsSoftened
  BY <1>11 DEF CallSucceeds, Reconnected, CallIsSoftened, OpenAreHeld
<1>12. CASE CloseLoader
  BY <1>12 DEF CloseLoader
<1>13. ASSUME NEW s \in Server, HoldTool(s) PROVE OpenAreHeld'
  BY <1>13 DEF HoldTool, OpenAreHeld
<1>14. ASSUME NEW x \in open, SessionDrops(x) PROVE OpenAreHeld'
  BY <1>14 DEF SessionDrops, OpenAreHeld
<1>15. CASE UNCHANGED loaderVars
  BY <1>15 DEF loaderVars, OpenAreHeld
<1>16. QED
  BY <1>2, <1>3, <1>4, <1>5, <1>6, <1>7, <1>8, <1>9, <1>10, <1>11, <1>12, <1>13, <1>14, <1>15
     DEF LoaderNext, Works, Pings

\* A step of a goroutine that is at work keeps the order of stdio connects:
\* it touches its own server only, and binds tools to sessions the servers have.
LEMMA StdioMove ==
  ASSUME LoaderTypes, StdioComesFirst, NEW w \in Worker, NEW n, Moves1(w, n), work[w].at # "idle",
         n.at # "idle" => n.kind = work[w].kind /\ n.on = work[w].on,
         n.kind = "stdio" /\ n.at \in {"dial", "swap"} => work[w].at \in {"dial", "swap"},
         \A s \in Server : n.listed[s] \in {NoSession, work[w].listed[s], session[s]},
         waiting' = waiting, shut' = shut, call'.at = call.at, call'.on = call.on,
         \A s \in Server : \/ session'[s] = session[s]
                           \/ s = work[w].on /\ work[w].at = "swap" /\ n.at = "close",
         \A s \in Server : tools'[s] \in {tools[s], work[w].listed[s]}
  PROVE  StdioComesFirst'
<1>1. work' \in [Worker -> WorkerState] /\ work'[w] = n /\ \A v \in Worker \ {w} : work'[v] = work[v]
  BY OneMoves DEF LoaderTypes
<1>2. \A v \in Worker : Connecting(v)' => Connecting(v) /\ work'[v].on = work[v].on
  BY <1>1 DEF Connecting
<1>3. \A v, u \in Worker : Connecting(v)' /\ Connecting(u)' => v = u
  BY <1>2 DEF StdioComesFirst
<1>4. \A v \in Worker : Connecting(v)' => work'[v].on \notin waiting' \cup Remote
  BY <1>2 DEF StdioComesFirst
<1>5. ASSUME ~shut', NEW s \in Server, Unconnected(s)'
      PROVE  /\ session'[s] = NoSession /\ tools'[s] = NoSession
             /\ \A v \in Worker : work'[v].listed[s] = NoSession
             /\ call'.at # "none" => call'.on # s
             /\ \A v \in Worker : work'[v].kind # "stdio" /\ work'[v].at # "idle" => work'[v].on # s
  <2>1. Unconnected(s)
    <3>1. CASE s \in waiting' \ Remote
      BY <3>1 DEF Unconnected
    <3>2. ASSUME NEW v \in Worker, work'[v].kind = "stdio", work'[v].at \in {"dial", "swap"}, work'[v].on = s
          PROVE  Unconnected(s)
      BY <1>1, <3>2 DEF Unconnected
    <3>3. QED
      BY <1>5, <3>1, <3>2 DEF Unconnected
  <2>2. /\ session[s] = NoSession /\ tools[s] = NoSession
        /\ \A v \in Worker : work[v].listed[s] = NoSession
        /\ call.at # "none" => call.on # s
        /\ \A v \in Worker : work[v].kind # "stdio" /\ work[v].at # "idle" => work[v].on # s
    BY <1>5, <2>1 DEF StdioComesFirst
  <2>3. ASSUME s = work[w].on, work[w].at = "swap", n.at = "close" PROVE FALSE
    <3>1. work[w].kind = "stdio"
      BY <2>2, <2>3
    <3>2. s \notin waiting \cup Remote
      BY <2>3, <3>1 DEF StdioComesFirst, Connecting
    <3>3. PICK v \in Worker : work'[v].kind = "stdio" /\ work'[v].at \in {"dial", "swap"}
      BY <1>5, <3>2 DEF Unconnected
    <3>4. v # w
      BY <1>1, <2>3, <3>3
    <3>5. Connecting(v) /\ Connecting(w)
      BY <1>1, <2>3, <3>1, <3>3, <3>4 DEF Connecting
    <3>6. QED
      BY <3>4, <3>5 DEF StdioComesFirst
  <2>4. session'[s] = NoSession /\ tools'[s] = NoSession
    BY <2>2, <2>3
  <2>5. \A v \in Worker : work'[v].listed[s] = NoSession
    BY <1>1, <2>2
  <2>6. \A v \in Worker : work'[v].kind # "stdio" /\ work'[v].at # "idle" => work'[v].on # s
    BY <1>1, <2>2
  <2>7. QED
    BY <2>2, <2>4, <2>5, <2>6
<1>6. QED
  BY <1>3, <1>4, <1>5 DEF StdioComesFirst

\* The start of a goroutine keeps it too: of a stdio server when none is
\* connecting, otherwise of a server that needs no first connect.
LEMMA StdioStart ==
  ASSUME LoaderTypes, StdioComesFirst, NEW w \in Worker, NEW s \in Server,
         NEW k \in {"backoff", "stdio", "ondemand"}, Starts(w, s, k), ~shut,
         waiting' = waiting \/ waiting' = waiting \ {s}, shut' = shut, session' = session, tools' = tools,
         call'.on = call.on, call.at = "none" => call'.at = "none",
         k = "stdio" => s \in waiting \ (waiting' \cup Remote) /\ \A v \in Worker : ~Connecting(v),
         k # "stdio" => ~Unconnected(s)
  PROVE  StdioComesFirst'
<1>0. PICK n \in WorkerState : StartsAs(w, s, k, n)
  BY StartsEffect
<1>1. work'[w] = n /\ (\A v \in Worker \ {w} : work'[v] = work[v]) /\ n.on = s /\ n.kind = k /\ n.listed = Nothing
  BY <1>0, OneMoves DEF LoaderTypes, StartsAs
<1>2. \A v, u \in Worker : Connecting(v)' /\ Connecting(u)' => v = u
  BY <1>1 DEF StdioComesFirst, Connecting
<1>3. \A v \in Worker : Connecting(v)' => work'[v].on \notin waiting' \cup Remote
  BY <1>1 DEF StdioComesFirst, Connecting
<1>4. ASSUME NEW r \in Server, Unconnected(r)'
      PROVE  /\ session'[r] = NoSession /\ tools'[r] = NoSession
             /\ \A v \in Worker : work'[v].listed[r] = NoSession
             /\ call'.at # "none" => call'.on # r
             /\ \A v \in Worker : work'[v].kind # "stdio" /\ work'[v].at # "idle" => work'[v].on # r
  <2>1. Unconnected(r)
    <3>1. CASE r \in waiting' \ Remote
      BY <3>1 DEF Unconnected
    <3>2. ASSUME NEW v \in Worker, work'[v].kind = "stdio", work'[v].at \in {"dial", "swap"}, work'[v].on = r
          PROVE  Unconnected(r)
      BY <1>1, <3>2 DEF Unconnected
    <3>3. QED
      BY <1>4, <3>1, <3>2 DEF Unconnected
  <2>2. /\ session[r] = NoSession /\ tools[r] = NoSession
        /\ \A v \in Worker : work[v].listed[r] = NoSession
        /\ call.at # "none" => call.on # r
        /\ \A v \in Worker : work[v].kind # "stdio" /\ work[v].at # "idle" => work[v].on # r
    BY <2>1 DEF StdioComesFirst
  <2>3. \A v \in Worker : work'[v].listed[r] = NoSession
    BY <1>1, <2>2 DEF Nothing
  <2>4. \A v \in Worker : work'[v].kind # "stdio" /\ work'[v].at # "idle" => work'[v].on # r
    BY <1>1, <2>1, <2>2
  <2>5. QED
    BY <2>2, <2>3, <2>4
<1>5. QED
  BY <1>2, <1>3, <1>4 DEF StdioComesFirst

\* Every step keeps the order of stdio connects.
LEMMA StdioStep == LoaderTypes /\ StdioComesFirst /\ [LoaderNext]_loaderVars => StdioComesFirst'
<1> SUFFICES ASSUME LoaderTypes, StdioComesFirst, [LoaderNext]_loaderVars PROVE StdioComesFirst'
  OBVIOUS
<1>t. work \in [Worker -> WorkerState] /\ \A w \in Worker : work[w] \in WorkerState
  BY DEF LoaderTypes
<1>i. \A s \in Server : Idle.listed[s] = NoSession
  BY IdleShape DEF Nothing
<1>1. ASSUME NEW w \in Worker, NEW s \in Server, ConnectInBackground(w, s) PROVE StdioComesFirst'
  <2>1. CASE s \in Remote
    <3>1. ~Unconnected(s)
      BY <2>1 DEF Unconnected, StdioComesFirst, Connecting
    <3>2. QED
      BY <1>1, <2>1, <3>1, StdioStart DEF ConnectInBackground
  <2>2. CASE s \notin Remote
    BY <1>1, <2>2, StdioStart DEF ConnectInBackground, Connecting
  <2>3. QED
    BY <2>1, <2>2
<1>2. ASSUME NEW w \in Worker, NEW s \in Server, PingFails(w, s) PROVE StdioComesFirst'
  <2>1. ~Unconnected(s)
    BY <1>2 DEF PingFails, Unconnected, StdioComesFirst, Connecting
  <2>2. QED
    BY <1>2, <2>1, StdioStart DEF PingFails
<1>3. ASSUME NEW w \in Worker, CallLosesConnection(w) PROVE StdioComesFirst'
  <2>1. call.on \in Server /\ call'.on = call.on /\ call.at = "held"
    BY <1>3 DEF CallLosesConnection, LoaderTypes, CallState
  <2>2. ~Unconnected(call.on)
    BY <1>3, <2>1 DEF CallLosesConnection, StdioComesFirst
  <2>3. QED
    BY <1>3, <2>1, <2>2, StdioStart DEF CallLosesConnection
<1>4. ASSUME NEW w \in Worker, Dial(w) PROVE StdioComesFirst'
  <2>1. PICK n \in WorkerState : /\ work[w].at = "dial" /\ Moves1(w, n) /\ n.at = "swap" /\ n.on = work[w].on
                                 /\ n.kind = work[w].kind /\ n.listed = work[w].listed
    BY <1>4, DialEffect
  <2>2. QED
    BY <1>4, <2>1, StdioMove DEF Dial
<1>5. ASSUME NEW w \in Worker, DialFails(w) PROVE StdioComesFirst'
  <2>1. PICK n \in WorkerState : FailsTo(w, n)
    BY <1>5, FailsEffect DEF DialFails
  <2>2. QED
    BY <1>5, <1>i, <2>1, IdleShape, StdioMove DEF DialFails, FailsTo
<1>6. ASSUME NEW w \in Worker, Swap(w) PROVE StdioComesFirst'
  <2>1. CASE shut
    <3>1. Moves1(w, Idle)
      BY <1>6, <2>1, IdleShape DEF Swap, Moves1
    <3>2. QED
      BY <1>6, <1>i, <2>1, <3>1, IdleShape, StdioMove DEF Swap
  <2>2. CASE ~shut
    <3>1. PICK n \in WorkerState : /\ work[w].at = "swap" /\ Moves1(w, n) /\ n.at = "close" /\ n.on = work[w].on
                                   /\ n.kind = work[w].kind /\ n.listed = work[w].listed
      BY <1>6, <2>2, SwapEffect
    <3>2. \A s \in Server : session'[s] = session[s] \/ s = work[w].on
      BY <1>6, <2>2 DEF Swap, LoaderTypes
    <3>3. QED
      BY <1>6, <3>1, <3>2, StdioMove DEF Swap
  <2>3. QED
    BY <2>1, <2>2
<1>7. ASSUME NEW w \in Worker, CloseOld(w) PROVE StdioComesFirst'
  <2>1. PICK n \in WorkerState : /\ work[w].at = "close" /\ Moves1(w, n) /\ n.at = "list" /\ n.on = work[w].on
                                 /\ n.kind = work[w].kind /\ n.listed = Nothing
    BY <1>7, CloseOldEffect
  <2>2. \A s \in Server : n.listed[s] = NoSession
    BY <2>1 DEF Nothing
  <2>3. QED
    BY <1>7, <2>1, <2>2, StdioMove DEF CloseOld
<1>8. ASSUME NEW w \in Worker, ListTools(w) PROVE StdioComesFirst'
  <2>1. PICK n \in WorkerState : /\ work[w].at = "list" /\ Moves1(w, n) /\ n.at = "list" /\ n.on = work[w].on
                                 /\ n.kind = work[w].kind
                                 /\ \A s \in Server : n.listed[s] \in {work[w].listed[s], session[s]}
    BY <1>8, ListEffect
  <2>2. QED
    BY <1>8, <2>1, StdioMove DEF ListTools
<1>9. ASSUME NEW w \in Worker, Install(w) PROVE StdioComesFirst'
  <2>1. CASE work[w].failed /\ work[w].listed = Nothing
    <3>1. PICK n \in WorkerState : FailsTo(w, n)
      BY <1>9, <2>1, FailsEffect DEF Install
    <3>2. QED
      <4>1. /\ n.at # "idle" => n.kind = work[w].kind /\ n.on = work[w].on
            /\ n.kind = "stdio" /\ n.at \in {"dial", "swap"} => work[w].at \in {"dial", "swap"}
            /\ \A s \in Server : n.listed[s] \in {NoSession, work[w].listed[s], session[s]}
        BY <1>i, <3>1, IdleShape DEF FailsTo
      <4>2. /\ Moves1(w, n) /\ work[w].at = "list" /\ UNCHANGED <<waiting, shut, call, session, tools>>
        BY <1>9, <2>1, <3>1 DEF Install, FailsTo
      <4>3. QED
        BY <4>1, <4>2, StdioMove
  <2>2. CASE ~(work[w].failed /\ work[w].listed = Nothing)
    <3>1. Moves1(w, Idle)
      BY <1>9, <2>2, IdleShape DEF Install, Moves1
    <3>2. call'.at = call.at /\ call'.on = call.on
      BY <1>9, <2>2 DEF Install, LoaderTypes, CallState
    <3>3. tools' = work[w].listed
      BY <1>9, <2>2 DEF Install
    <3>4. QED
      BY <1>9, <1>i, <3>1, <3>2, <3>3, IdleShape, StdioMove DEF Install
  <2>3. QED
    BY <2>1, <2>2
<1>10. CASE CallSucceeds \/ Reconnected \/ CallIsSoftened
  <2>1. call' = NoCall \/ (call' = [call EXCEPT !.at = "retry"] /\ call.at = "reconnecting")
    BY <1>10 DEF CallSucceeds, Reconnected, CallIsSoftened
  <2>2. call'.at # "none" => call.at # "none" /\ call'.on = call.on
    BY <2>1, NoCallShape DEF LoaderTypes, CallState
  <2>3. QED
    BY <1>10, <2>2 DEF CallSucceeds, Reconnected, CallIsSoftened, StdioComesFirst, Unconnected, Connecting
<1>11. CASE CloseLoader
  BY <1>11 DEF CloseLoader, StdioComesFirst, Connecting
<1>12. ASSUME NEW s \in Server, HoldTool(s) PROVE StdioComesFirst'
  <2>1. call'.on = s
    BY <1>12 DEF HoldTool, NoCall
  <2>2. ~Unconnected(s)
    BY <1>12 DEF HoldTool, StdioComesFirst
  <2>3. QED
    BY <1>12, <2>1, <2>2 DEF HoldTool, StdioComesFirst, Unconnected, Connecting
<1>13. ASSUME NEW x \in open, SessionDrops(x) PROVE StdioComesFirst'
  BY <1>13 DEF SessionDrops, StdioComesFirst, Unconnected, Connecting
<1>14. CASE UNCHANGED loaderVars
  BY <1>14 DEF loaderVars, StdioComesFirst, Unconnected, Connecting
<1>15. QED
  BY <1>1, <1>2, <1>3, <1>4, <1>5, <1>6, <1>7, <1>8, <1>9, <1>10, <1>11, <1>12, <1>13, <1>14
     DEF LoaderNext, Works, Pings

\* Every step keeps what is being listed on the sessions the servers have.
LEMMA FreshStep == LoaderTypes /\ ReloadsAreFresh /\ [LoaderNext]_loaderVars => ReloadsAreFresh'
<1> SUFFICES ASSUME LoaderTypes, ReloadsAreFresh, [LoaderNext]_loaderVars, ~shut', ~overlapped'
             PROVE  ReloadsAreFresh'
  BY DEF ReloadsAreFresh
<1>t. work \in [Worker -> WorkerState]
  BY DEF LoaderTypes
<1>q. ASSUME NEW w \in Worker, NEW n, Moves1(w, n), ~shut, ~overlapped, session' = session,
             n.at = "list" => \A s \in Server : n.listed[s] \in {NoSession, session[s]}
      PROVE  ReloadsAreFresh'
  <2>1. work'[w] = n /\ \A v \in Worker \ {w} : work'[v] = work[v]
    BY <1>q, <1>t, OneMoves
  <2>2. QED
    BY <1>q, <2>1 DEF ReloadsAreFresh
<1>1. ASSUME NEW w \in Worker, NEW s \in Server, NEW k \in {"backoff", "stdio", "ondemand"}, Starts(w, s, k),
             ~shut, ~overlapped, session' = session
      PROVE  ReloadsAreFresh'
  <2>1. PICK n \in WorkerState : StartsAs(w, s, k, n)
    BY <1>1, StartsEffect
  <2>2. QED
    BY <1>1, <1>q, <2>1 DEF StartsAs
<1>2. ASSUME NEW w \in Worker, NEW s \in Server, ConnectInBackground(w, s) PROVE ReloadsAreFresh'
  BY <1>1, <1>2 DEF ConnectInBackground
<1>3. ASSUME NEW w \in Worker, NEW s \in Server, PingFails(w, s) PROVE ReloadsAreFresh'
  BY <1>1, <1>3 DEF PingFails
<1>4. ASSUME NEW w \in Worker, CallLosesConnection(w) PROVE ReloadsAreFresh'
  <2>1. call.on \in Server
    BY <1>4 DEF CallLosesConnection, LoaderTypes
  <2>2. QED
    BY <1>1, <1>4, <2>1 DEF CallLosesConnection
<1>5. ASSUME NEW w \in Worker, Dial(w) PROVE ReloadsAreFresh'
  <2>1. PICK n \in WorkerState : Moves1(w, n) /\ n.at = "swap"
    BY <1>5, DialEffect
  <2>2. QED
    BY <1>5, <1>q, <2>1 DEF Dial
<1>6. ASSUME NEW w \in Worker, DialFails(w) PROVE ReloadsAreFresh'
  <2>1. PICK n \in WorkerState : FailsTo(w, n)
    BY <1>6, FailsEffect DEF DialFails
  <2>2. QED
    BY <1>6, <1>q, <2>1, IdleShape DEF DialFails, FailsTo
<1>7. ASSUME NEW w \in Worker, Swap(w) PROVE ReloadsAreFresh'
  <2>1. ~shut
    BY <1>7 DEF Swap
  <2>2. PICK n \in WorkerState : Moves1(w, n) /\ n.at = "close"
    BY <1>7, <2>1, SwapEffect
  <2>3. work'[w] = n /\ \A v \in Worker \ {w} : work'[v] = work[v]
    BY <1>t, <2>2, OneMoves
  <2>4. \A v \in Worker \ {w} : ~Reloading(v)
    BY <1>7, <2>1 DEF Swap
  <2>5. \A v \in Worker : work'[v].at # "list"
    BY <2>2, <2>3, <2>4 DEF Reloading
  <2>6. QED
    BY <2>5 DEF ReloadsAreFresh
<1>8. ASSUME NEW w \in Worker, CloseOld(w) PROVE ReloadsAreFresh'
  <2>1. PICK n \in WorkerState : Moves1(w, n) /\ n.listed = Nothing
    BY <1>8, CloseOldEffect
  <2>2. \A s \in Server : n.listed[s] = NoSession
    BY <2>1 DEF Nothing
  <2>3. QED
    BY <1>8, <1>q, <2>1, <2>2 DEF CloseOld
<1>9. ASSUME NEW w \in Worker, ListTools(w) PROVE ReloadsAreFresh'
  <2>1. PICK n \in WorkerState : /\ work[w].at = "list" /\ Moves1(w, n)
                                 /\ \A s \in Server : n.listed[s] \in {work[w].listed[s], session[s]}
    BY <1>9, ListEffect
  <2>2. ~shut /\ ~overlapped /\ session' = session
    BY <1>9 DEF ListTools
  <2>3. \A s \in Server : work[w].listed[s] \in {NoSession, session[s]}
    BY <2>1, <2>2 DEF ReloadsAreFresh
  <2>4. QED
    BY <1>q, <2>1, <2>2, <2>3
<1>10. ASSUME NEW w \in Worker, Install(w) PROVE ReloadsAreFresh'
  <2>1. \E n \in WorkerState : Moves1(w, n) /\ n.at # "list"
    <3>1. CASE work[w].failed /\ work[w].listed = Nothing
      BY <1>10, <3>1, FailsEffect, IdleShape DEF Install, FailsTo
    <3>2. CASE ~(work[w].failed /\ work[w].listed = Nothing)
      BY <1>10, <3>2, IdleShape DEF Install, Moves1
    <3>3. QED
      BY <3>1, <3>2
  <2>2. QED
    BY <1>10, <1>q, <2>1 DEF Install
<1>11. CASE CallSucceeds \/ Reconnected \/ CallIsSoftened
  BY <1>11 DEF CallSucceeds, Reconnected, CallIsSoftened, ReloadsAreFresh
<1>12. CASE CloseLoader
  BY <1>12 DEF CloseLoader
<1>13. ASSUME NEW s \in Server, HoldTool(s) PROVE ReloadsAreFresh'
  BY <1>13 DEF HoldTool, ReloadsAreFresh
<1>14. ASSUME NEW x \in open, SessionDrops(x) PROVE ReloadsAreFresh'
  BY <1>14 DEF SessionDrops, ReloadsAreFresh
<1>15. CASE UNCHANGED loaderVars
  BY <1>15 DEF loaderVars, ReloadsAreFresh
<1>16. QED
  BY <1>2, <1>3, <1>4, <1>5, <1>6, <1>7, <1>8, <1>9, <1>10, <1>11, <1>12, <1>13, <1>14, <1>15
     DEF LoaderNext, Works, Pings

\* Every step leaves someone to replace tools of an earlier session.  A stdio
\* server has no earlier session when it is swapped in.
LEMMA StaleStep ==
  LoaderTypes /\ StdioComesFirst /\ ReloadsAreFresh /\ StaleToolsAreOwed /\ [LoaderNext]_loaderVars
    => StaleToolsAreOwed'
<1> SUFFICES ASSUME LoaderTypes, StdioComesFirst, ReloadsAreFresh, StaleToolsAreOwed, [LoaderNext]_loaderVars,
                    ~shut', ~overlapped', ~gaveUp'
             PROVE  StaleToolsAreOwed'
  BY DEF StaleToolsAreOwed
<1>t. work \in [Worker -> WorkerState]
  BY DEF LoaderTypes
<1>q. ASSUME NEW w \in Worker, NEW n, Moves1(w, n), ~shut, ~overlapped, ~gaveUp,
             session' = session, tools' = tools, Owes(w) => Owes(w)'
      PROVE  StaleToolsAreOwed'
  <2>1. \A v \in Worker \ {w} : work'[v] = work[v]
    BY <1>q, <1>t, OneMoves
  <2>2. \A v \in Worker : Owes(v) => Owes(v)'
    BY <1>q, <2>1 DEF Owes
  <2>3. QED
    BY <1>q, <2>2 DEF StaleToolsAreOwed
<1>1. ASSUME NEW w \in Worker, NEW s \in Server, NEW k \in {"backoff", "stdio", "ondemand"}, Starts(w, s, k),
             ~shut, ~overlapped, ~gaveUp, session' = session, tools' = tools
      PROVE  StaleToolsAreOwed'
  <2>1. PICK n \in WorkerState : StartsAs(w, s, k, n)
    BY <1>1, StartsEffect
  <2>2. QED
    BY <1>1, <1>q, <2>1 DEF StartsAs, Owes
<1>2. ASSUME NEW w \in Worker, NEW s \in Server, ConnectInBackground(w, s) PROVE StaleToolsAreOwed'
  BY <1>1, <1>2 DEF ConnectInBackground
<1>3. ASSUME NEW w \in Worker, NEW s \in Server, PingFails(w, s) PROVE StaleToolsAreOwed'
  BY <1>1, <1>3 DEF PingFails
<1>4. ASSUME NEW w \in Worker, CallLosesConnection(w) PROVE StaleToolsAreOwed'
  <2>1. call.on \in Server
    BY <1>4 DEF CallLosesConnection, LoaderTypes
  <2>2. QED
    BY <1>1, <1>4, <2>1 DEF CallLosesConnection
<1>5. ASSUME NEW w \in Worker, Dial(w) PROVE StaleToolsAreOwed'
  <2>1. PICK n \in WorkerState : /\ work[w].at = "dial" /\ Moves1(w, n) /\ n.at = "swap"
                                 /\ n.kind = work[w].kind /\ n.failed = work[w].failed
    BY <1>5, DialEffect
  <2>2. work'[w] = n
    BY <1>t, <2>1, OneMoves
  <2>3. Owes(w) => Owes(w)'
    BY <2>1, <2>2 DEF Owes
  <2>4. QED
    BY <1>5, <1>q, <2>1, <2>3 DEF Dial
<1>f. ASSUME NEW w \in Worker, NEW n, FailsTo(w, n), work[w].at = "dial" \/ work[w].failed, ~shut, ~overlapped,
             session' = session, tools' = tools
      PROVE  StaleToolsAreOwed'
  <2>1. work'[w] = n
    BY <1>t, <1>f, OneMoves DEF FailsTo
  <2>2. ~gaveUp
    BY <1>f DEF FailsTo
  <2>3. Owes(w) => Owes(w)'
    <3> SUFFICES ASSUME Owes(w) PROVE Owes(w)'
      OBVIOUS
    <3>1. work[w].kind # "stdio" /\ work[w].failed
      BY <1>f DEF Owes
    <3>2. n # Idle
      BY <1>f, <3>1, IdleShape DEF FailsTo
    <3>3. n.at = "dial" /\ n.kind = work[w].kind /\ n.failed
      BY <1>f, <3>1, <3>2 DEF FailsTo
    <3>4. QED
      BY <2>1, <3>1, <3>3 DEF Owes
  <2>4. QED
    BY <1>f, <1>q, <2>2, <2>3 DEF FailsTo
<1>6. ASSUME NEW w \in Worker, DialFails(w) PROVE StaleToolsAreOwed'
  <2>1. PICK n \in WorkerState : FailsTo(w, n)
    BY <1>6, FailsEffect DEF DialFails
  <2>2. QED
    BY <1>6, <1>f, <2>1 DEF DialFails
<1>7. ASSUME NEW w \in Worker, Swap(w) PROVE StaleToolsAreOwed'
  <2>1. ~shut /\ ~gaveUp /\ tools' = tools /\ session' = [session EXCEPT ![work[w].on] = work[w].holds]
    BY <1>7 DEF Swap
  <2>2. ~overlapped
    BY <1>7, <2>1 DEF Swap
  <2>3. PICK n \in WorkerState : work[w].at = "swap" /\ Moves1(w, n) /\ n.at = "close" /\ n.kind = work[w].kind
    BY <1>7, <2>1, SwapEffect
  <2>4. work'[w] = n /\ \A v \in Worker \ {w} : work'[v] = work[v]
    BY <1>t, <2>3, OneMoves
  <2>5. CASE work[w].kind # "stdio"
    BY <2>3, <2>4, <2>5 DEF StaleToolsAreOwed, Owes
  <2>6. CASE work[w].kind = "stdio"
    <3>1. work[w].on \in Server
      BY <2>3 DEF LoaderTypes
    <3>2. Unconnected(work[w].on)
      BY <2>3, <2>6 DEF Unconnected
    <3>3. tools[work[w].on] = NoSession
      BY <2>1, <3>1, <3>2 DEF StdioComesFirst
    <3>4. \A v \in Worker : Owes(v) => Owes(v)'
      BY <2>4, <2>6 DEF Owes
    <3>5. \A s \in Server : s # work[w].on => session'[s] = session[s]
      BY <2>1 DEF LoaderTypes
    <3>6. QED
      BY <2>1, <2>2, <3>3, <3>4, <3>5 DEF StaleToolsAreOwed
  <2>7. QED
    BY <2>5, <2>6
<1>8. ASSUME NEW w \in Worker, CloseOld(w) PROVE StaleToolsAreOwed'
  <2>1. PICK n \in WorkerState : Moves1(w, n) /\ n.at = "list" /\ n.kind = work[w].kind
    BY <1>8, CloseOldEffect
  <2>2. work'[w] = n
    BY <1>t, <2>1, OneMoves
  <2>3. Owes(w) => Owes(w)'
    BY <2>1, <2>2 DEF Owes
  <2>4. QED
    BY <1>8, <1>q, <2>1, <2>3 DEF CloseOld
<1>9. ASSUME NEW w \in Worker, ListTools(w) PROVE StaleToolsAreOwed'
  <2>1. PICK n \in WorkerState : Moves1(w, n) /\ n.at = "list" /\ n.kind = work[w].kind
    BY <1>9, ListEffect
  <2>2. work'[w] = n
    BY <1>t, <2>1, OneMoves
  <2>3. Owes(w) => Owes(w)'
    BY <2>1, <2>2 DEF Owes
  <2>4. QED
    BY <1>9, <1>q, <2>1, <2>3 DEF ListTools
<1>10. ASSUME NEW w \in Worker, Install(w) PROVE StaleToolsAreOwed'
  <2>0. work[w].at = "list" /\ ~shut /\ ~overlapped /\ session' = session
    BY <1>10 DEF Install
  <2>1. CASE work[w].failed /\ work[w].listed = Nothing
    <3>1. PICK n \in WorkerState : FailsTo(w, n)
      BY <1>10, <2>1, FailsEffect DEF Install
    <3>2. tools' = tools
      BY <1>10, <2>1 DEF Install
    <3>3. QED
      BY <1>f, <2>0, <2>1, <3>1, <3>2
  <2>2. CASE ~(work[w].failed /\ work[w].listed = Nothing)
    <3>1. tools' = work[w].listed
      BY <1>10, <2>2 DEF Install
    <3>2. \A s \in Server : tools'[s] \in {NoSession, session'[s]}
      BY <2>0, <3>1 DEF ReloadsAreFresh
    <3>3. QED
      BY <3>2 DEF StaleToolsAreOwed
  <2>3. QED
    BY <2>1, <2>2
<1>11. CASE CallSucceeds \/ Reconnected \/ CallIsSoftened
  BY <1>11 DEF CallSucceeds, Reconnected, CallIsSoftened, StaleToolsAreOwed, Owes
<1>12. CASE CloseLoader
  BY <1>12 DEF CloseLoader
<1>13. ASSUME NEW s \in Server, HoldTool(s) PROVE StaleToolsAreOwed'
  BY <1>13 DEF HoldTool, StaleToolsAreOwed, Owes
<1>14. ASSUME NEW x \in open, SessionDrops(x) PROVE StaleToolsAreOwed'
  BY <1>14 DEF SessionDrops, StaleToolsAreOwed, Owes
<1>15. CASE UNCHANGED loaderVars
  BY <1>15 DEF loaderVars, StaleToolsAreOwed, Owes
<1>16. QED
  BY <1>2, <1>3, <1>4, <1>5, <1>6, <1>7, <1>8, <1>9, <1>10, <1>11, <1>12, <1>13, <1>14, <1>15
     DEF LoaderNext, Works, Pings

\* What NewLoader leaves: the sessions are the servers', nothing is at work.
LEMMA LoaderStarts == LoaderInit => LoaderIInv
<1> SUFFICES ASSUME LoaderInit PROVE LoaderIInv
  OBVIOUS
<1>1. PICK up \in SUBSET Remote : \E number \in Numberings(up) :
         /\ session = [s \in Server |-> IF s \in up THEN number[s] ELSE NoSession]
         /\ made = Cardinality(up) /\ open = 1 .. made
         /\ waiting = Server \ up
         /\ \E listed \in SUBSET up : tools = [s \in Server |-> IF s \in listed THEN session[s] ELSE NoSession]
  BY DEF LoaderInit
<1>2. PICK number \in Numberings(up) :
         /\ session = [s \in Server |-> IF s \in up THEN number[s] ELSE NoSession]
         /\ made = Cardinality(up) /\ open = 1 .. made
         /\ waiting = Server \ up
         /\ \E listed \in SUBSET up : tools = [s \in Server |-> IF s \in listed THEN session[s] ELSE NoSession]
  BY <1>1
<1>3. up \subseteq Server /\ IsFiniteSet(up) /\ Cardinality(up) \in Nat
  BY LoaderAssumption, FS_Subset, FS_CardinalityType
<1>4. /\ number \in [up -> 1 .. Cardinality(up)]
      /\ \A x \in 1 .. Cardinality(up) : \E s \in up : number[s] = x
  BY DEF Numberings
<1>5. session \in [Server -> Nat] /\ \A s \in Server \ up : session[s] = NoSession
  BY <1>2, <1>3, <1>4 DEF NoSession
<1>6. tools \in [Server -> Nat] /\ \A s \in Server : tools[s] \in {NoSession, session[s]}
  BY <1>2, <1>5 DEF NoSession
<1>7. work = [w \in Worker |-> Idle] /\ call = NoCall
  BY DEF LoaderInit
<1>8. LoaderTypes
  BY <1>2, <1>3, <1>5, <1>6, <1>7, IdleShape, NoCallShape DEF LoaderTypes
<1>9. OpenAreHeld
  <2>1. \A x \in open : \E s \in Server : session[s] = x
    BY <1>2, <1>3, <1>4
  <2>2. QED
    BY <2>1 DEF OpenAreHeld
<1>10. StdioComesFirst
  <2>1. \A w \in Worker : ~Connecting(w)
    BY <1>7, IdleShape DEF Connecting
  <2>2. \A s \in Server : Unconnected(s) => s \notin up
    BY <1>2, <1>7, IdleShape DEF Unconnected
  <2>3. \A w \in Worker, s \in Server : work[w].listed[s] = NoSession /\ work[w].at = "idle"
    BY <1>7, IdleShape DEF Nothing
  <2>4. QED
    BY <1>5, <1>6, <1>7, <2>1, <2>2, <2>3, NoCallShape DEF StdioComesFirst
<1>11. ReloadsAreFresh
  BY <1>7, IdleShape DEF ReloadsAreFresh
<1>12. StaleToolsAreOwed
  BY <1>6 DEF StaleToolsAreOwed
<1>13. QED
  BY <1>8, <1>9, <1>10, <1>11, <1>12 DEF LoaderIInv

\* For any servers, goroutines and faults: when no goroutine is at work every
\* installed tool calls the session its server has, save after overlapping
\* reloads or an abandoned one, and no session is open that no server has
\* (reconnectClient, reloadTools, Close).
THEOREM InstalledToolsAreLive == LoaderSpec => []ToolsAreLive
<1>1. LoaderIInv /\ [LoaderNext]_loaderVars => LoaderIInv'
  BY LoaderTypesStep, OpenStep, StdioStep, FreshStep, StaleStep DEF LoaderIInv
<1>2. LoaderIInv => ToolsAreLive
  BY DEF LoaderIInv, OpenAreHeld, StaleToolsAreOwed, Owes, ToolsAreLive
<1>3. QED
  BY <1>1, <1>2, LoaderStarts, PTL DEF LoaderSpec
================================================================================
