----------------------------- MODULE MCLiveParts -----------------------------
(***************************************************************************)
(* The parts that keep connections and services going, of the gateway and  *)
(* of the agent, checked one in each behaviour, with the fairness under    *)
(* which they must recover or come to an end.                              *)
(***************************************************************************)
EXTENDS Broker, Lifecycle, BrokerChannels, HealthMonitor, MCPLoader

CONSTANT Checked  \* the components that a run looks at

VARIABLE part  \* the component of this behaviour

vars == <<part, brokerVars, lifecycleVars, channelsVars, healthVars, loaderVars>>

\* The parts that are not chosen start in one of their initial states.  One that
\* does not stop is in the first phase, with others in its phase, or one that
\* others wait for.  Nothing is claimed of the messages of MQTT.
Rest ==
    /\ stubborn \subseteq IF part = "lifecycle" THEN {"http-server", "event-consumer", "datastore"} ELSE {}
    /\ \/ part = "channels"
       \/ /\ kind = "mqtt" /\ ~redials /\ cmode = "queue" /\ cusers = {}
          /\ cbody = [m \in CMsg |-> "ignored"]
    /\ kind = "mqtt" => cmode = "queue" /\ cbody = [m \in CMsg |-> "ignored"]
    /\ part = "loader" \/ made = 0

Init ==
    /\ part \in Checked
    /\ BrokerInit /\ LifecycleInit /\ ChannelsInit /\ HealthInit /\ LoaderInit
    /\ Rest

InBroker(A) == part = "broker" /\ A
    /\ UNCHANGED <<part, lifecycleVars, channelsVars, healthVars, loaderVars>>
InLifecycle(A) == part = "lifecycle" /\ A
    /\ UNCHANGED <<part, brokerVars, channelsVars, healthVars, loaderVars>>
InChannels(A) == part = "channels" /\ A
    /\ UNCHANGED <<part, brokerVars, lifecycleVars, healthVars, loaderVars>>
InHealth(p, A) == part = p /\ A
    /\ UNCHANGED <<part, brokerVars, lifecycleVars, channelsVars, loaderVars>>
InLoader(A) == part = "loader" /\ A
    /\ UNCHANGED <<part, brokerVars, lifecycleVars, channelsVars, healthVars>>

Next ==
    \/ InBroker(BrokerNext) \/ InLifecycle(LifecycleNext) \/ InChannels(ChannelsNext)
    \/ InHealth("monitor", MonitorNext) \/ InHealth("heartbeat", HeartbeatNext)
    \/ InLoader(LoaderNext)

\* What is scheduled whenever there is something to do: goroutines that run
\* and timers that fire; and the dials that are tried again and again, which
\* succeed at last: their failures are bounded.
Runs ==
    \/ InBroker(BrokerRuns) \/ InLifecycle(Stops) \/ InChannels(AdapterRuns)
    \/ InHealth("monitor", Checks) \/ InHealth("heartbeat", MarkStaleAsFailed) \/ InLoader(Pings)
Redialling == InBroker(Redials) \/ InChannels(ReconnectLoop)
\* The parts exclude each other, so fairness for one of these disjunctions is
\* fairness for each of its disjuncts.
Fairness ==
    /\ WF_vars(Runs) /\ WF_vars(Redialling)
    /\ \A w \in Worker : WF_vars(InLoader(Works(w)))

Spec == Init /\ [][Next]_vars /\ Fairness
=============================================================================
