------------------------------ MODULE Lifecycle ------------------------------
(***************************************************************************)
(* Start and shutdown of the gateway (cli/serve.go, internal/lifecycle).   *)
(* serve starts the parts in a fixed order and returns at the first one    *)
(* that fails; each part registers its stop function with a phase, and     *)
(* Shutdown stops the phases in order, the parts of one phase together.    *)
(***************************************************************************)
EXTENDS Naturals, Sequences, SequencesExt

\* The order in runServe: what everything else needs, the way of a message
\* through the gateway, and what lets messages in.
Foundations == <<"logger", "telemetry", "datastore", "heartbeat-cleanup", "health-monitor",
                 "admin-server">>
Pipeline == <<"broker", "publisher", "dispatcher", "deduplicator", "event-consumer">>
Entrances == <<"runtime-monitor", "http-server", "adapters">>
StartOrder == Foundations \o Pipeline \o Entrances
Part == ToSet(StartOrder)

\* Mutant: the phases are ignored and everything stops together.
OnePhase == [c \in Part |-> 10]
\* The phases of internal/lifecycle as serve assigns them.
PhaseOf ==
    [c \in Part |->
        CASE c \in {"http-server", "admin-server"} -> 10
          [] c = "adapters" -> 20
          [] c \in {"event-consumer", "dispatcher", "deduplicator", "heartbeat-cleanup", "runtime-monitor"} -> 40
          [] c = "publisher" -> 50
          [] c = "broker" -> 60
          [] c = "datastore" -> 70
          [] c \in {"telemetry", "health-monitor"} -> 80
          [] c = "logger" -> 90]

\* The parts whose failure makes serve return; the others are only logged.
Essential == {"logger", "datastore", "admin-server", "broker", "publisher"}

\* <<x, y>>: x calls y while it works, itself or through the router, which has
\* no stop function of its own.
Uses == ({"http-server"} \X {"publisher", "datastore", "deduplicator", "adapters", "broker", "telemetry"})
   \cup ({"admin-server"} \X {"datastore", "adapters", "health-monitor"})
   \cup ({"adapters"} \X {"publisher", "datastore", "deduplicator", "telemetry"})
   \cup ({"event-consumer"} \X {"broker", "dispatcher", "adapters"})
   \cup ({"publisher"} \X {"broker"})
   \cup ({"runtime-monitor"} \X {"datastore", "broker"})
   \cup ({"health-monitor"} \X {"datastore", "telemetry"})
   \cup ((Part \ {"logger"}) \X {"logger"})
\* The calls to a part that stops first, or in the same phase.
Reversed == ({"health-monitor"} \X {"datastore", "telemetry"})
       \cup ({"event-consumer"} \X {"dispatcher", "adapters"})

\* The parts whose stop function returns when their work has ended.  The others
\* are told to end (a channel is closed, a context cancelled, a client
\* disconnected), or, the two servers, waited for until a deadline.
Awaited == {"health-monitor", "publisher", "datastore", "telemetry", "logger"}

VARIABLES booted,    \* how many entries of StartOrder have been started
          life,      \* "starting", "serving", "stopping", "ended" or "failed"
          phase,     \* phase being stopped
          alive,     \* parts at work
          halted,    \* parts whose stop function has returned
          stubborn,  \* parts whose stop function does not return
          timedOut   \* the phase's context has expired

lifecycleVars == <<booted, life, phase, alive, halted, stubborn, timedOut>>

LifecycleInit ==
    /\ booted = 0 /\ life = "starting" /\ phase = 0
    /\ alive = {} /\ halted = {} /\ timedOut = FALSE
    /\ stubborn \in {{}} \cup {{c} : c \in Part}

\* Everything starts, in order and in one goroutine: nobody else takes a step
\* that a property is about before the last part runs.  A part registers its
\* stop function as it starts; one that is not essential is registered even if
\* it fails, which is only logged.
StartParts ==
    /\ life = "starting"
    /\ booted' = Len(StartOrder) /\ alive' = Part /\ life' = "serving"
    /\ UNCHANGED <<phase, halted, stubborn, timedOut>>
\* serve returns an error without Shutdown; the process ends with it.
StartFails ==
    /\ life = "starting"
    /\ \E i \in 1 .. Len(StartOrder) : StartOrder[i] \in Essential /\ booted' = i - 1
    /\ life' = "failed"
    /\ UNCHANGED <<phase, alive, halted, stubborn, timedOut>>

Later(p) == {PhaseOf[c] : c \in {d \in Part : PhaseOf[d] > p}}
First(phases) == CHOOSE p \in phases : \A q \in phases : p <= q

Signal ==
    /\ life = "serving"
    /\ life' = "stopping" /\ phase' = First(Later(0))
    /\ UNCHANGED <<booted, alive, halted, stubborn, timedOut>>

\* A stop function of the phase returns, with or without an error.
StopPart(c) ==
    /\ life = "stopping" /\ c \in Part \ (halted \cup stubborn) /\ PhaseOf[c] = phase
    /\ halted' = halted \cup {c}
    /\ alive' \in IF c \in Awaited THEN {alive \ {c}} ELSE {alive, alive \ {c}}
    /\ UNCHANGED <<booted, life, phase, stubborn, timedOut>>
\* What a part was still busy with when its stop function returned.
WorkEnds(c) ==
    /\ c \in alive \cap halted /\ alive' = alive \ {c}
    /\ UNCHANGED <<booted, life, phase, halted, stubborn, timedOut>>

InPhase == {c \in Part \ halted : PhaseOf[c] = phase}

\* The phase's context expires: an error is noted, and the wait goes on.
PhaseTimesOut ==
    /\ life = "stopping" /\ InPhase # {} /\ ~timedOut
    /\ timedOut' = TRUE
    /\ UNCHANGED <<booted, life, phase, alive, halted, stubborn>>

\* Mutant: a phase that timed out ends the shutdown in its place.
AbandonLate ==
    /\ life = "stopping" /\ InPhase = {} /\ ~timedOut
    /\ UNCHANGED timedOut
    /\ IF Later(phase) = {} THEN life' = "ended" /\ UNCHANGED phase
                            ELSE phase' = First(Later(phase)) /\ UNCHANGED life
    /\ UNCHANGED <<booted, alive, halted, stubborn>>
\* All stop functions of the phase have returned (<-done).
NextPhase ==
    /\ life = "stopping" /\ InPhase = {}
    /\ timedOut' = FALSE
    /\ IF Later(phase) = {} THEN life' = "ended" /\ UNCHANGED phase
                            ELSE phase' = First(Later(phase)) /\ UNCHANGED life
    /\ UNCHANGED <<booted, alive, halted, stubborn>>

Stops == NextPhase \/ \E c \in Part : StopPart(c)
LifecycleNext ==
    \/ StartParts \/ StartFails \/ Signal \/ PhaseTimesOut \/ Stops
    \/ \E c \in Part : WorkEnds(c)

LifecycleTypeOK ==
    /\ booted \in 0 .. Len(StartOrder) /\ alive \subseteq Part /\ halted \subseteq Part /\ stubborn \subseteq Part
    /\ life \in {"starting", "serving", "stopping", "ended", "failed"}

\* No part is at work after one that it calls has been stopped, however the
\* parts of a phase interleave (serve's phases, shutdownGroup); except the
\* health monitor, which reads the datastore after it was closed and shares
\* its phase with the metrics (serve.go:169), the event consumer, which
\* delivers through adapters that have stopped, and what a stop function left
\* unfinished: those of the consumer, the adapters, the runtime monitor and
\* the dispatcher do not wait, those of the HTTP servers until a deadline.
UsedPartsRun ==
    \A u \in Uses : u[2] \in halted /\ u[1] \in alive => u \in Reversed \/ u[1] \in halted \ Awaited

\* A shutdown ends, timeouts or not, unless a stop function never returns:
\* after the timeout the manager still waits for it (shutdownGroup).
ShutdownEnds == life = "stopping" ~> (life = "ended" \/ stubborn # {})
=============================================================================
