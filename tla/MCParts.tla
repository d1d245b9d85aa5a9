------------------------------- MODULE MCParts -------------------------------
(***************************************************************************)
(* Parts of the gateway and of the agent that do not meet in one question  *)
(* and whose properties are invariants, checked side by side: a behaviour  *)
(* picks one of them (part) and runs it while the others stay in a fixed   *)
(* initial state, so the state space is the sum of theirs, not the         *)
(* product.                                                                *)
(***************************************************************************)
EXTENDS Scheduler, Delivery, Inbound, AgentTurn, TokenProvider, Sandbox,
        SharedSession, ContextWindow

VARIABLE part  \* the component of this behaviour

vars == <<part, schedulerVars, deliveryVars, inboundVars, turnVars, tokenVars, sandboxVars,
          sharedVars, windowVars>>

\* The parts that are not chosen start in one of their initial states.
Rest ==
    /\ part = "delivery" \/ via = "slack"
    /\ part = "inbound" \/ payload = CHOOSE p \in MQTTPayloads : TRUE
    /\ part = "turn" \/ lean = FALSE
    /\ part = "token" \/ (flow = "device" /\ rotates = FALSE)
    /\ part = "window" \/ (reports = TRUE /\ window = WindowMax)

Init ==
    /\ part \in {"scheduler", "delivery", "inbound", "turn", "token", "sandbox", "shared", "window"}
    /\ Rest
    /\ SchedulerInit /\ DeliveryInit /\ InboundInit /\ TurnInit /\ TokenInit /\ SandboxInit
    /\ SharedInit /\ WindowInit

InScheduler(A) == part = "scheduler" /\ A
    /\ UNCHANGED <<part, deliveryVars, inboundVars, turnVars, tokenVars, sandboxVars,
                   sharedVars, windowVars>>
InDelivery(A) == part = "delivery" /\ A
    /\ UNCHANGED <<part, schedulerVars, inboundVars, turnVars, tokenVars, sandboxVars,
                   sharedVars, windowVars>>
InInbound(A) == part = "inbound" /\ A
    /\ UNCHANGED <<part, schedulerVars, deliveryVars, turnVars, tokenVars, sandboxVars,
                   sharedVars, windowVars>>
InTurn(A) == part = "turn" /\ A
    /\ UNCHANGED <<part, schedulerVars, deliveryVars, inboundVars, tokenVars, sandboxVars,
                   sharedVars, windowVars>>
InToken(A) == part = "token" /\ A
    /\ UNCHANGED <<part, schedulerVars, deliveryVars, inboundVars, turnVars, sandboxVars,
                   sharedVars, windowVars>>
InSandbox(A) == part = "sandbox" /\ A
    /\ UNCHANGED <<part, schedulerVars, deliveryVars, inboundVars, turnVars, tokenVars,
                   sharedVars, windowVars>>
InShared(A) == part = "shared" /\ A
    /\ UNCHANGED <<part, schedulerVars, deliveryVars, inboundVars, turnVars, tokenVars, sandboxVars, windowVars>>
InWindow(A) == part = "window" /\ A
    /\ UNCHANGED <<part, schedulerVars, deliveryVars, inboundVars, turnVars, tokenVars, sandboxVars, sharedVars>>

Next ==
    \/ InScheduler(SchedulerNext) \/ InDelivery(DeliveryNext) \/ InInbound(InboundNext)
    \/ InTurn(TurnNext) \/ InToken(TokenNext) \/ InSandbox(SandboxNext)
    \/ InShared(SharedNext) \/ InWindow(WindowNext)

Spec == Init /\ [][Next]_vars

\* LinesOutliveProcesses claims nothing once a lock was stolen in use or two
\* compactions overlapped.
Claimed == ~robbed /\ ~crossed
=============================================================================
