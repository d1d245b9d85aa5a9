---------------------------- MODULE BrokerChannels ----------------------------
(***************************************************************************)
(* The channel adapters that keep a connection of their own: the RabbitMQ  *)
(* channel (internal/channels/rabbitmq) and MQTT (internal/channels/mqtt). *)
(* Each connects, subscribes to the inbox of every user of the datastore,  *)
(* hands what arrives to the router and connects again after a loss.  One  *)
(* behaviour is one adapter (kind).  The messages are those of one user's  *)
(* inbox; a message either carries an ID of its own or not.                *)
(***************************************************************************)
EXTENDS Naturals, FiniteSets

CONSTANTS ChannelUser, InboxUser,  \* users; the one whose inbox is modelled
          CMsg,                    \* messages of that inbox
          MaxChannelFaults         \* bound on losses and failed calls

ASSUME BrokerChannelsAssumption == InboxUser \in ChannelUser /\ MaxChannelFaults \in Nat

VARIABLES kind,       \* "rabbitmq" or "mqtt"
          redials,    \* a lost connection is dialled again; MQTT: only if Reconnect.Enabled
          cmode,      \* the channel's queue mode: "collect", or "queue" for all others
          clink,      \* the adapter's connection: "none", "open" or "closed"
          fresh,      \* a new connection is in hand, setup has not installed it
          loop,       \* "off", "starting", "dialing", "subscribing", "watching" or "gone"
          watched,    \* the loop is watchConnection's, not a reconnectLoop on its own
          flag,       \* connected, what HealthCheck and IsConnected answer
          cusers,     \* users in the datastore
          pending,    \* users subscribeAll has listed and not reached
          listening,  \* users whose inbox is consumed
          wanted,     \* history: users of the last listing whose subscription did not fail
          muted,      \* the AMQP channel was closed under an open connection
          cstopped, cfaults,
          cbody,      \* message -> "named", "unnamed", "ignored" or "malformed"
          cplace,     \* message -> "ready", "held", "acked" or "dead"
          verdict,    \* message -> what its handler answers, "none" while it publishes
          seen,       \* named messages the deduplicator knows
          forgotten,  \* history: named messages it knew and knows no longer
          buffered,   \* message -> its places in the collect buffer
          orphans,    \* message -> handlers still publishing a delivery that was taken back
          routed,     \* message -> times PublishMessage returned nil for it
          undone      \* history: messages given up after a failed publish, or lost in memory

Count == 0 .. 2  \* the counters of a message stop at 2

config == <<kind, redials, cmode>>
connVars == <<config, clink, fresh, loop, watched, flag, cusers, pending, listening, wanted,
              muted, cstopped>>
inboxVars == <<cbody, cplace, verdict, seen, forgotten, buffered, orphans, routed, undone>>
channelsVars == <<connVars, cfaults, inboxVars>>

ChannelsInit ==
    /\ kind \in {"rabbitmq", "mqtt"} /\ cmode \in {"queue", "collect"}
    /\ redials \in BOOLEAN /\ (kind = "rabbitmq" => redials)
    /\ clink = "none" /\ fresh = FALSE /\ loop = "off" /\ watched = TRUE /\ flag = FALSE
    /\ cusers \in SUBSET ChannelUser
    /\ pending = {} /\ listening = {} /\ wanted = {}
    /\ muted = FALSE /\ cstopped = FALSE /\ cfaults = 0
    /\ cbody \in [CMsg -> {"named", "unnamed", "ignored", "malformed"}]
    /\ cplace = [m \in CMsg |-> "ready"]
    /\ verdict = [m \in CMsg |-> "none"]
    /\ seen = {} /\ forgotten = {} /\ undone = {}
    /\ buffered = [m \in CMsg |-> 0] /\ orphans = [m \in CMsg |-> 0]
    /\ routed = [m \in CMsg |-> 0]

Upto2(n) == IF n > 2 THEN 2 ELSE n

Fault == cfaults < MaxChannelFaults /\ cfaults' = cfaults + 1
Fine == UNCHANGED cfaults

\* The broker takes back what was delivered and not settled.  A handler that
\* is publishing it does not notice.
TakeBack ==
    LET back == {m \in CMsg : kind = "rabbitmq" /\ cplace[m] = "held"}
    IN /\ cplace' = [m \in CMsg |-> IF m \in back THEN "ready" ELSE cplace[m]]
       /\ orphans' = [m \in CMsg |-> IF m \in back /\ verdict[m] = "none" THEN Upto2(orphans[m] + 1) ELSE orphans[m]]
       /\ UNCHANGED <<cbody, verdict, seen, forgotten, buffered, routed, undone>>

(***************************************************************************)
(* The connection.                                                         *)
(***************************************************************************)

\* A first connect that fails is logged; RabbitMQ starts a reconnectLoop that
\* nobody watches, MQTT (whose client was not told to retry) does nothing.
StartAdapter ==
    /\ loop = "off"
    /\ \/ Fine /\ fresh' = TRUE /\ loop' = "starting" /\ UNCHANGED watched
       \/ /\ Fault /\ watched' = FALSE /\ UNCHANGED fresh
          /\ loop' = IF kind = "rabbitmq" THEN "dialing" ELSE "gone"
    /\ UNCHANGED <<config, clink, flag, cusers, pending, listening, wanted, muted, cstopped, inboxVars>>

\* Mutant: the first failed dial ends the loop.
DialOnlyOnce ==
    /\ loop = "dialing" /\ ~fresh
    /\ \/ Fine /\ fresh' = TRUE /\ UNCHANGED loop
       \/ Fault /\ loop' = "gone" /\ UNCHANGED fresh
    /\ UNCHANGED <<config, clink, watched, flag, cusers, pending, listening, wanted, muted, cstopped, inboxVars>>
\* One round of reconnectLoop (paho's own loop for MQTT).  With stopCh closed
\* and the timer due, select may still take the timer.
ReconnectLoop ==
    /\ loop = "dialing" /\ ~fresh
    /\ \/ Fine /\ (cstopped => kind = "rabbitmq") /\ fresh' = TRUE /\ UNCHANGED loop
       \/ Fault /\ UNCHANGED <<fresh, loop>>
       \/ Fine /\ cstopped /\ loop' = "gone" /\ UNCHANGED fresh
    /\ UNCHANGED <<config, clink, watched, flag, cusers, pending, listening, wanted, muted, cstopped, inboxVars>>

\* setup installs the connection and its channel, whether Stop has run or not,
\* and subscribeAll lists the users of that moment (MQTT: onConnect).
Setup ==
    /\ fresh /\ Fine /\ fresh' = FALSE
    /\ clink' = "open" /\ flag' = TRUE
    /\ listening' = {} /\ wanted' = cusers /\ pending' = cusers /\ muted' = FALSE
    /\ loop' = "subscribing"
    /\ UNCHANGED <<config, watched, cusers, cstopped, inboxVars>>
\* The users cannot be listed: the connection is there and nobody listens.
ListFails ==
    /\ fresh /\ Fault /\ fresh' = FALSE
    /\ clink' = "open" /\ flag' = TRUE
    /\ listening' = {} /\ wanted' = {} /\ pending' = {} /\ muted' = FALSE
    /\ loop' = "subscribing"
    /\ UNCHANGED <<config, watched, cusers, cstopped, inboxVars>>
\* The channel or an exchange cannot be declared: the connection is closed and
\* dialled again; in Start that is again the loop nobody watches.
SetupFails ==
    /\ fresh /\ kind = "rabbitmq" /\ Fault /\ fresh' = FALSE
    /\ watched' = (watched /\ loop # "starting")
    /\ loop' = "dialing"
    /\ UNCHANGED <<config, clink, flag, cusers, pending, listening, wanted, muted, cstopped, inboxVars>>

\* The next user of the listing.  A declare, bind or consume that RabbitMQ
\* refuses closes the AMQP channel, and with it every consumer there is; what
\* subscribeAll goes on to ask of the closed channel fails too.  The
\* connection stays, so that watchConnection sees nothing.
Subscribe(u) ==
    /\ loop = "subscribing" /\ u \in pending /\ pending' = pending \ {u}
    /\ \/ /\ clink = "open" /\ ~muted /\ Fine
          /\ listening' = listening \cup {u} /\ UNCHANGED <<wanted, muted, inboxVars>>
       \/ /\ clink = "open" /\ ~muted /\ Fault
          /\ wanted' = wanted \ {u} /\ muted' = (kind = "rabbitmq")
          /\ listening' = IF muted' THEN {} ELSE listening
          /\ IF muted' THEN TakeBack ELSE UNCHANGED inboxVars
       \/ /\ clink # "open" \/ muted
          /\ Fine /\ UNCHANGED <<listening, wanted, muted, inboxVars>>
    /\ UNCHANGED <<config, clink, fresh, loop, watched, flag, cusers, cstopped>>
\* The loop goes back to watching, or ends when it was started on its own.
Subscribed ==
    /\ loop = "subscribing" /\ pending = {}
    /\ loop' = IF watched THEN "watching" ELSE "gone"
    /\ UNCHANGED <<config, clink, fresh, watched, flag, cusers, pending, listening, wanted, muted, cstopped,
                   cfaults, inboxVars>>

ConnectionLost ==
    /\ clink = "open" /\ Fault /\ clink' = "closed"
    /\ listening' = {} /\ TakeBack
    /\ UNCHANGED <<config, fresh, loop, watched, flag, cusers, pending, wanted, muted, cstopped>>
\* watchConnection and reconnectLoop; onConnectionLost and paho, which dials
\* again only if it was told to.
WatchChannel ==
    /\ loop = "watching" /\ (clink = "closed" \/ cstopped)
    /\ loop' = IF cstopped \/ ~redials THEN "gone" ELSE "dialing"
    /\ flag' = FALSE
    /\ UNCHANGED <<config, clink, fresh, watched, cusers, pending, listening, wanted, muted, cstopped,
                   cfaults, inboxVars>>
StopAdapter ==
    /\ ~cstopped /\ loop \notin {"off", "starting"} /\ (kind = "mqtt" => ~fresh)
    /\ cstopped' = TRUE /\ flag' = FALSE
    /\ clink' = IF clink = "open" THEN "closed" ELSE clink
    /\ listening' = {} /\ TakeBack
    /\ UNCHANGED <<config, fresh, loop, watched, cusers, pending, wanted, muted, cfaults>>
\* A user of the datastore that no adapter hears of before the next connection.
UserCreated(u) ==
    /\ u \notin cusers /\ cusers' = cusers \cup {u}
    /\ UNCHANGED <<config, clink, fresh, loop, watched, flag, pending, listening, wanted, muted, cstopped,
                   cfaults, inboxVars>>
\* The gateway ends, with or without a Stop, and comes up again: the adapter
\* has not started, and deduplicator, collect buffer and handlers are gone.
GatewayRestarts ==
    /\ loop # "off" /\ Fault
    /\ clink' = "none" /\ fresh' = FALSE /\ loop' = "off" /\ watched' = TRUE /\ flag' = FALSE
    /\ pending' = {} /\ listening' = {} /\ wanted' = {} /\ muted' = FALSE /\ cstopped' = FALSE
    /\ cplace' = [m \in CMsg |-> CASE cplace[m] # "held" -> cplace[m]
                                  [] kind = "rabbitmq" -> "ready"
                                  [] OTHER -> "dead"]
    /\ seen' = {} /\ forgotten' = forgotten \cup seen
    /\ undone' = undone \cup {m \in CMsg : buffered[m] + orphans[m] > 0}
    /\ buffered' = [m \in CMsg |-> 0] /\ orphans' = [m \in CMsg |-> 0]
    /\ UNCHANGED <<config, cusers, cbody, verdict, routed>>

(***************************************************************************)
(* Deliveries.                                                             *)
(***************************************************************************)

\* One delivery at a time is in the handler (prefetch 1, one consumeLoop).
Arrives(m) == cplace[m] = "ready" /\ InboxUser \in listening /\ \A n \in CMsg : cplace[n] # "held"
Answers(m, v) ==
    /\ cplace' = [cplace EXCEPT ![m] = "held"]
    /\ verdict' = [verdict EXCEPT ![m] = v]
    /\ UNCHANGED <<connVars, cbody, forgotten, orphans, routed, undone>>

\* NormalizeInbound: empty text is acknowledged, what cannot be parsed or has
\* no user is dead-lettered (MQTT: logged).  An ignored message also stands
\* for one the allowlist rejects.
Unroutable(m) ==
    /\ Arrives(m) /\ cbody[m] \in {"ignored", "malformed"} /\ Fine
    /\ Answers(m, IF cbody[m] = "malformed" /\ kind = "rabbitmq" THEN "dead" ELSE "ack")
    /\ UNCHANGED <<seen, buffered>>
\* A message without an ID gets one made of the time of its arrival, so that
\* only a named one is recognised when it comes again.
Suppressed(m) ==
    /\ Arrives(m) /\ m \in seen /\ Fine
    /\ Answers(m, "ack")
    /\ UNCHANGED <<seen, buffered>>
\* The entry of a message expires 30 s after it was made.
Forgets(m) ==
    /\ m \in seen /\ seen' = seen \ {m} /\ forgotten' = forgotten \cup {m}
    /\ UNCHANGED <<connVars, cfaults, cbody, cplace, verdict, buffered, orphans, routed, undone>>

IsNew(m) == Arrives(m) /\ cbody[m] \in {"named", "unnamed"} /\ m \notin seen
\* The resolver or the allowlist fails before deduplication.
RefusedEarly(m) ==
    /\ IsNew(m) /\ Fault
    /\ Answers(m, IF kind = "rabbitmq" THEN "requeue" ELSE "ack")
    /\ UNCHANGED <<seen, buffered>>
\* Deduplication takes the message in.  In collect mode the handler has done
\* its work when the message is in the buffer; otherwise it publishes.
Accepted(m) ==
    /\ IsNew(m) /\ Fine
    /\ seen' = IF cbody[m] = "named" THEN seen \cup {m} ELSE seen
    /\ \/ /\ cmode = "collect" /\ Answers(m, "ack")
          /\ buffered' = [buffered EXCEPT ![m] = Upto2(@ + 1)]
       \/ cmode = "queue" /\ Answers(m, "none") /\ UNCHANGED buffered

Publishing(m) == cplace[m] = "held" /\ verdict[m] = "none"
GivenUp(m) == undone' = IF cbody[m] = "named" THEN undone \cup {m} ELSE undone
Published(m) ==
    /\ Publishing(m) /\ Fine
    /\ verdict' = [verdict EXCEPT ![m] = "ack"]
    /\ routed' = [routed EXCEPT ![m] = Upto2(@ + 1)]
    /\ UNCHANGED <<connVars, cbody, cplace, seen, forgotten, buffered, orphans, undone>>
\* Mutant: a failed handler is answered with an ack.
AckFailures(m) ==
    /\ Publishing(m) /\ Fault
    /\ verdict' = [verdict EXCEPT ![m] = "ack"]
    /\ GivenUp(m)
    /\ UNCHANGED <<connVars, cbody, cplace, seen, forgotten, buffered, orphans, routed>>
\* The message is requeued, and the deduplicator remembers it.
PublishFailed(m) ==
    /\ Publishing(m) /\ Fault
    /\ verdict' = [verdict EXCEPT ![m] = IF kind = "rabbitmq" THEN "requeue" ELSE "ack"]
    /\ GivenUp(m)
    /\ UNCHANGED <<connVars, cbody, cplace, seen, forgotten, buffered, orphans, routed>>
\* A handler that lost its delivery comes to the end of its publish; its
\* answer goes to a closed channel.
OrphanPublish(m) ==
    /\ orphans[m] > 0 /\ orphans' = [orphans EXCEPT ![m] = @ - 1]
    /\ \/ Fine /\ routed' = [routed EXCEPT ![m] = Upto2(@ + 1)] /\ UNCHANGED undone
       \/ Fault /\ GivenUp(m) /\ UNCHANGED routed
    /\ UNCHANGED <<connVars, cbody, cplace, verdict, seen, forgotten, buffered>>
\* flushCollectBuffer empties the buffer and publishes what it held; a failed
\* publish is logged.
Flush ==
    /\ \E m \in CMsg : buffered[m] > 0
    /\ buffered' = [m \in CMsg |-> 0]
    /\ \/ Fine /\ routed' = [m \in CMsg |-> Upto2(routed[m] + buffered[m])] /\ UNCHANGED undone
       \/ Fault /\ undone' = undone \cup {m \in CMsg : buffered[m] > 0} /\ UNCHANGED routed
    /\ UNCHANGED <<connVars, cbody, cplace, verdict, seen, forgotten, orphans>>

\* Ack or Nack reaches the broker, unless the connection went first.
Settle(m) ==
    /\ cplace[m] = "held" /\ verdict[m] # "none"
    /\ cplace' = [cplace EXCEPT ![m] = CASE verdict[m] = "ack" -> "acked"
                                         [] verdict[m] = "dead" -> "dead"
                                         [] verdict[m] = "requeue" -> "ready"]
    /\ UNCHANGED <<connVars, cfaults, cbody, verdict, seen, forgotten, buffered, orphans, routed, undone>>

\* What the adapter's goroutines do by themselves.
AdapterRuns ==
    \/ Setup \/ Subscribed \/ WatchChannel
    \/ \E u \in ChannelUser : Subscribe(u)

ChannelsNext ==
    \/ StartAdapter \/ AdapterRuns \/ ReconnectLoop \/ ListFails \/ SetupFails
    \/ ConnectionLost \/ StopAdapter \/ GatewayRestarts \/ Flush
    \/ \E u \in ChannelUser : UserCreated(u)
    \/ \E m \in CMsg : \/ Unroutable(m) \/ Suppressed(m) \/ Forgets(m) \/ RefusedEarly(m)
                       \/ Accepted(m) \/ Published(m) \/ PublishFailed(m) \/ OrphanPublish(m)
                       \/ Settle(m)

ChannelsTypeOK ==
    /\ kind \in {"rabbitmq", "mqtt"} /\ clink \in {"none", "open", "closed"}
    /\ cmode \in {"queue", "collect"}
    /\ loop \in {"off", "starting", "dialing", "subscribing", "watching", "gone"}
    /\ {redials, fresh, watched, flag, muted, cstopped} \subseteq BOOLEAN
    /\ UNION {cusers, pending, listening, wanted} \subseteq ChannelUser
    /\ cplace \in [CMsg -> {"ready", "held", "acked", "dead"}]
    /\ verdict \in [CMsg -> {"none", "ack", "requeue", "dead"}]
    /\ {buffered, orphans, routed} \subseteq [CMsg -> Count]
    /\ UNION {seen, forgotten, undone} \subseteq CMsg
    /\ cfaults \in 0 .. MaxChannelFaults

\* After a loss an adapter that dials again (RabbitMQ always, MQTT when
\* Reconnect.Enabled is set) and whose first connect succeeded is connected
\* and listens to every user it found except those whose subscription was
\* refused, whatever fails in between, unless it is stopped or the gateway
\* restarts (watchConnection, reconnectLoop, subscribeAll).  Two exceptions:
\* an adapter whose first connect failed is not watched, its second
\* connection is its last; and a subscription that RabbitMQ refuses closes the
\* AMQP channel, which silences the other users too until the connection is
\* lost (muted), as nothing watches the channel.
ListensAgain == clink = "open" /\ loop = "watching" /\ (muted \/ wanted \subseteq listening)
ChannelRecovers ==
    (clink = "closed" /\ watched /\ redials) ~> (ListensAgain \/ cstopped \/ loop = "off")

\* PublishMessage returned nil for every RabbitMQ message that was
\* acknowledged; except for one in the collect buffer, which is acknowledged
\* first; a named one that is acknowledged as a duplicate of an earlier
\* delivery while the handler of that is still publishing; and one that is
\* given up: its flush failed, a restart lost it, or it is a named one whose
\* failed publish was requeued and taken for a duplicate of itself
\* (handleDelivery against IsDuplicate and enqueueCollect).  It returned nil
\* for a named message once, unless the deduplicator forgot it, after 30 s or
\* in a restart, before the message came again.
AckedMeansRouted ==
    kind = "rabbitmq" =>
        \A m \in CMsg :
            /\ cplace[m] = "acked" /\ cbody[m] # "ignored"
               => \/ routed[m] > 0 \/ buffered[m] > 0 \/ m \in undone
                  \/ cbody[m] = "named" /\ orphans[m] > 0
            /\ cbody[m] = "named" => routed[m] <= 1 \/ m \in forgotten
=============================================================================
