-------------------------------- MODULE Broker --------------------------------
(***************************************************************************)
(* The gateway's AMQP connections (internal/queue/broker.go): one for      *)
(* publishing, one for consuming, each with a watchdog that dials again    *)
(* after a loss, and the two clients that live on them: the publisher with *)
(* its cached channel (publisher.go) and the event consumer's loop         *)
(* (consumer.go).                                                          *)
(***************************************************************************)
EXTENDS Naturals

CONSTANT MaxLosses   \* bound on lost connections and failed dials
ASSUME BrokerAssumption == MaxLosses \in Nat

Side == {"publish", "consume"}

VARIABLES link,      \* side -> the connection the broker holds: "none", "open" or "closed"
          watchdog,  \* side -> "off", "watching", "dialing", "dialed" or "gone"
          channel,   \* the publisher's cached channel: "none", "open" or "closed"
          consumer,  \* "off", "backoff", "consuming" or "stopped"
          closing,   \* "no", "cancelled" or "closed": how far Close is
          losses,
          late       \* history: sides whose watchdog had dialled when Close ran

brokerVars == <<link, watchdog, channel, consumer, closing, losses, late>>

BrokerInit ==
    /\ link = [s \in Side |-> "none"]
    /\ watchdog = [s \in Side |-> "off"]
    /\ channel = "none" /\ consumer = "off" /\ closing = "no"
    /\ losses = 0 /\ late = {}

Moves(s, from, to) == watchdog[s] = from /\ watchdog' = [watchdog EXCEPT ![s] = to]

\* Both connections or none; the publisher takes its first channel.
Connect ==
    /\ watchdog["publish"] = "off" /\ closing = "no"
    /\ \/ /\ link' = [s \in Side |-> "open"]
          /\ watchdog' = [s \in Side |-> "watching"]
          /\ channel' = "open" /\ consumer' = "backoff"
       \/ \* a dial fails: the one that succeeded is closed, serve gives up
          /\ link' \in {[s \in Side |-> "none"], [link EXCEPT !["publish"] = "closed"]}
          /\ watchdog' = [s \in Side |-> "gone"]
          /\ UNCHANGED <<channel, consumer>>
    /\ UNCHANGED <<closing, losses, late>>

\* The connection breaks, and with it the channels on it.
ConnectionBreaks(s) ==
    /\ link[s] = "open" /\ losses < MaxLosses
    /\ link' = [link EXCEPT ![s] = "closed"]
    /\ losses' = losses + 1
    /\ channel' = IF s = "publish" /\ channel = "open" THEN "closed" ELSE channel
    /\ UNCHANGED <<watchdog, consumer, closing, late>>

\* NotifyClose: unless the context is cancelled the watchdog starts dialling.
WatchConnection(s) ==
    /\ link[s] = "closed" \/ closing # "no"
    /\ Moves(s, "watching", IF closing # "no" THEN "gone" ELSE "dialing")
    /\ UNCHANGED <<link, channel, consumer, closing, losses, late>>

\* Mutant: the first failed dial ends the watchdog.
DialOnce(s) ==
    /\ \/ closing = "no" /\ Moves(s, "dialing", "dialed") /\ UNCHANGED losses
       \/ Moves(s, "dialing", "gone") /\ losses < MaxLosses /\ losses' = losses + 1
    /\ UNCHANGED <<link, channel, consumer, closing, late>>

\* After the delay a dial succeeds or fails; a cancelled context ends it.
ReconnectWithBackoff(s) ==
    /\ \/ Moves(s, "dialing", "dialed") /\ UNCHANGED losses
       \/ closing # "no" /\ Moves(s, "dialing", "gone") /\ UNCHANGED losses
       \/ /\ watchdog[s] = "dialing" /\ losses < MaxLosses /\ losses' = losses + 1
          /\ UNCHANGED watchdog
    /\ UNCHANGED <<link, channel, consumer, closing, late>>

\* setFn and notifyReconnect; nobody looks at the context any more.  The
\* callback gives the publisher a channel when the publish connection is open.
Restored(s) ==
    /\ Moves(s, "dialed", "watching")
    /\ link' = [link EXCEPT ![s] = "open"]
    /\ channel' = IF link'["publish"] = "open" THEN "open" ELSE channel
    /\ UNCHANGED <<consumer, closing, losses, late>>

\* PublishMessage, PublishControl: the cached channel, or a fresh one when the
\* connection is open; otherwise the call fails.
GetChannel ==
    /\ channel # "open" /\ link["publish"] = "open"
    /\ channel' = "open"
    /\ UNCHANGED <<link, watchdog, consumer, closing, losses, late>>
\* A failing publish drops the cached channel, whoever replaced it meanwhile.
PublishFails ==
    /\ channel # "none" /\ link["publish"] = "closed"
    /\ channel' = "none"
    /\ UNCHANGED <<link, watchdog, consumer, closing, losses, late>>

\* One round of the consumer's loop: a channel, or two seconds of waiting.
Consume ==
    /\ consumer = "backoff" /\ link["consume"] = "open"
    /\ consumer' = "consuming"
    /\ UNCHANGED <<link, watchdog, channel, closing, losses, late>>
DeliveriesEnd ==
    /\ consumer = "consuming" /\ link["consume"] # "open"
    /\ consumer' = "backoff"
    /\ UNCHANGED <<link, watchdog, channel, closing, losses, late>>
StopConsumer ==
    /\ consumer \in {"backoff", "consuming"}
    /\ consumer' = "stopped"
    /\ UNCHANGED <<link, watchdog, channel, closing, losses, late>>

\* Close cancels the context and then closes what it finds under the lock.
CloseCancels ==
    /\ closing = "no" /\ watchdog["publish"] # "off" /\ consumer \in {"stopped", "off"}
    /\ closing' = "cancelled"
    /\ UNCHANGED <<link, watchdog, channel, consumer, losses, late>>
\* Mutant: only the publish connection is closed.
CloseHalf ==
    /\ closing = "cancelled" /\ closing' = "closed"
    /\ link' = [link EXCEPT !["publish"] = IF @ = "open" THEN "closed" ELSE @]
    /\ channel' = IF channel = "open" THEN "closed" ELSE channel
    /\ late' = {s \in Side : watchdog[s] \in {"dialing", "dialed"}}
    /\ UNCHANGED <<watchdog, consumer, losses>>
CloseConnections ==
    /\ closing = "cancelled" /\ closing' = "closed"
    /\ link' = [s \in Side |-> IF link[s] = "open" THEN "closed" ELSE link[s]]
    /\ channel' = IF channel = "open" THEN "closed" ELSE channel
    /\ late' = {s \in Side : watchdog[s] \in {"dialing", "dialed"}}
    /\ UNCHANGED <<watchdog, consumer, losses>>

BrokerRuns ==
    \/ \E s \in Side : WatchConnection(s) \/ Restored(s)
    \/ GetChannel \/ Consume \/ DeliveriesEnd
Redials == \E s \in Side : ReconnectWithBackoff(s)

BrokerNext ==
    \/ BrokerRuns \/ Redials \/ Connect \/ PublishFails \/ StopConsumer
    \/ CloseCancels \/ CloseConnections
    \/ \E s \in Side : ConnectionBreaks(s)

BrokerTypeOK ==
    /\ link \in [Side -> {"none", "open", "closed"}]
    /\ watchdog \in [Side -> {"off", "watching", "dialing", "dialed", "gone"}]
    /\ channel \in {"none", "open", "closed"}
    /\ consumer \in {"off", "backoff", "consuming", "stopped"}
    /\ losses \in 0 .. MaxLosses /\ late \subseteq Side

\* After Close no connection is open, except one that a watchdog was already
\* dialling: it is installed after Close has looked and nobody closes it
\* (watchConnection against Close).
ClosedExceptLate == closing = "closed" => \A s \in Side \ late : link[s] # "open"

\* While the gateway runs, the loss of either connection, at any point of an
\* earlier recovery, is repaired: the consumer consumes again and the
\* publisher has a channel (watchConnection, reconnectWithBackoff, Start).
Working == consumer = "consuming" /\ channel = "open" /\ \A s \in Side : link[s] = "open"
BrokerRecovers == consumer = "backoff" ~> (Working \/ consumer = "stopped")
=============================================================================
