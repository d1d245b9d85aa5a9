---------------------------- MODULE HealthMonitor ----------------------------
(***************************************************************************)
(* What the admin health endpoint shows of the agents: the status that the *)
(* health monitor derives from each user's queue (gateway/healthmon.go)    *)
(* and the heartbeats the agents post (gateway/health_handler.go,          *)
(* heartbeat_store.go), both in memory.  A check reads the datastore and   *)
(* the management API user by user while agents come, go and are revoked.  *)
(***************************************************************************)
EXTENDS Naturals, FiniteSets, FiniteSetsExt

CONSTANTS Owner,         \* users, each with one agent
          OverdueAfter,  \* consumer timeout, in check intervals
          MaxChanges,     \* bound on changes of queues and agents
          MaxReadFaults  \* bound on failing reads
ASSUME HealthAssumption == OverdueAfter \in Nat /\ MaxChanges \in Nat /\ MaxReadFaults \in Nat

VARIABLES active,    \* users with an agent that is not revoked
          backlog,   \* the queue of each user, as the management API reports it
          statuses,  \* hm.statuses
          check,     \* the check under way
          ceased,    \* Stop was called
          beats,     \* AgentHeartbeatStore.byID
          posting,   \* agents whose report has passed the token check
          changes, readFaults

monitorVars == <<statuses, check, ceased, backlog, readFaults>>
heartbeatVars == <<beats, posting>>
healthVars == <<monitorVars, heartbeatVars, active, changes>>

Backlog == {q \in [consumers : 0 .. 1, ready : 0 .. 1, unacked : 0 .. 1] : q.unacked <= q.consumers}
Gone == [consumers |-> 0, ready |-> 0, unacked |-> 0]
\* An entry of hm.statuses; age is the time since DegradedSince, in checks.
Unlisted == [status |-> "unlisted", age |-> 0]
NotChecking == [at |-> "none", left |-> {}, seen |-> {}]
Silent == [status |-> "none", fresh |-> FALSE]

HealthInit ==
    /\ active = Owner /\ backlog = [u \in Owner |-> Gone]
    /\ statuses = [u \in Owner |-> Unlisted] /\ check = NotChecking /\ ceased = FALSE
    /\ beats = [u \in Owner |-> Silent] /\ posting = {}
    /\ changes = 0 /\ readFaults = 0

DeriveAgentStatus(q) ==
    CASE q.consumers > 0 /\ q.unacked > 0 -> "processing"
      [] q.consumers > 0 /\ q.unacked = 0 -> "idle"
      [] q.consumers = 0 /\ q.ready > 0 -> "degraded"
      [] OTHER -> "offline"

\* Mutant: every degraded reading starts a new period.
RestartPeriod(old, q) == [status |-> DeriveAgentStatus(q), age |-> 0]
\* updateStatus: DegradedSince stays while the readings are degraded.
Entry(old, q) ==
    LET status == DeriveAgentStatus(q)
    IN  [status |-> status,
         age |-> IF status = "degraded" /\ old.status = "degraded"
                 THEN IF old.age <= OverdueAfter THEN old.age + 1 ELSE old.age
                 ELSE 0]
\* "agent degraded beyond timeout"
Overdue(u) == statuses[u].age > OverdueAfter

ReadFails == readFaults < MaxReadFaults /\ readFaults' = readFaults + 1

\* checkAll: at once and at every tick until Stop.
ListUsers ==
    /\ check.at = "none" /\ ~ceased
    /\ \/ /\ check' = [at |-> "agents", left |-> Owner, seen |-> {}]
          /\ UNCHANGED readFaults
       \/ ReadFails /\ UNCHANGED check
    /\ UNCHANGED <<statuses, ceased, backlog, heartbeatVars, active, changes>>
\* A user whose agents cannot be listed is passed over like one without.
ListAgents ==
    /\ check.at = "agents" /\ check.left # {}
    /\ LET u == CHOOSE v \in check.left : TRUE
           passed == [check EXCEPT !.left = @ \ {u}]
       IN  \/ /\ u \in active
              /\ check' = [check EXCEPT !.at = "queue", !.seen = @ \cup {u}] /\ UNCHANGED readFaults
           \/ /\ u \notin active
              /\ check' = passed /\ UNCHANGED readFaults
           \/ ReadFails /\ check' = passed
    /\ UNCHANGED <<statuses, ceased, backlog, heartbeatVars, active, changes>>
\* A queue that cannot be read counts as one without consumers and messages.
GetQueueInfo ==
    /\ check.at = "queue"
    /\ LET u == CHOOSE v \in check.left : TRUE
       IN  /\ \/ statuses' = [statuses EXCEPT ![u] = Entry(@, backlog[u])] /\ UNCHANGED readFaults
              \/ statuses' = [statuses EXCEPT ![u] = Entry(@, Gone)] /\ ReadFails
           /\ check' = [check EXCEPT !.at = "agents", !.left = @ \ {u}]
    /\ UNCHANGED <<ceased, backlog, heartbeatVars, active, changes>>
RemoveStale ==
    /\ check.at = "agents" /\ check.left = {}
    /\ statuses' = [u \in Owner |-> IF u \in check.seen THEN statuses[u] ELSE Unlisted]
    /\ check' = NotChecking
    /\ UNCHANGED <<ceased, backlog, readFaults, heartbeatVars, active, changes>>
\* Stop waits for the check that is under way.
StopMonitor ==
    /\ ~ceased /\ check.at = "none" /\ ceased' = TRUE
    /\ UNCHANGED <<statuses, check, backlog, readFaults, heartbeatVars, active, changes>>

\* POST /agents/health: the token's agent is looked up, its report recorded.
PostHealth(u) ==
    /\ u \in active /\ u \notin posting
    /\ posting' = posting \cup {u}
    /\ UNCHANGED <<monitorVars, beats, active, changes>>
NormalizeHealthStatus == {"healthy", "degraded", "unhealthy", "unknown"}
Record(u) ==
    /\ u \in posting /\ posting' = posting \ {u}
    /\ \E status \in NormalizeHealthStatus : beats' = [beats EXCEPT ![u] = [status |-> status, fresh |-> TRUE]]
    /\ UNCHANGED <<monitorVars, active, changes>>
\* A minute passes without a report.
BeatAges(u) ==
    /\ beats[u].fresh /\ beats' = [beats EXCEPT ![u].fresh = FALSE]
    /\ UNCHANGED <<monitorVars, posting, active, changes>>
\* The cleanup goroutine of runServe, every fifteen seconds.
MarkStaleAsFailed ==
    /\ \E u \in Owner : beats[u].status \notin {"none", "failed"} /\ ~beats[u].fresh
    /\ beats' = [u \in Owner |-> IF beats[u].status # "none" /\ ~beats[u].fresh
                                 THEN [beats[u] EXCEPT !.status = "failed"] ELSE beats[u]]
    /\ UNCHANGED <<monitorVars, posting, active, changes>>

\* Agents and queues change: a consumer comes or goes, messages arrive.
QueueChanges(u, q) ==
    /\ changes < MaxChanges /\ changes' = changes + 1
    /\ backlog' = [backlog EXCEPT ![u] = q]
    /\ UNCHANGED <<statuses, check, ceased, readFaults, heartbeatVars, active>>
\* An agent is revoked or provisioned.
AgentChanges(u) ==
    /\ changes < MaxChanges /\ changes' = changes + 1
    /\ active' = IF u \in active THEN active \ {u} ELSE active \cup {u}
    /\ UNCHANGED <<monitorVars, heartbeatVars>>

Checks == ListUsers \/ ListAgents \/ GetQueueInfo \/ RemoveStale
MonitorNext == Checks \/ StopMonitor \/ \E u \in Owner : AgentChanges(u) \/ \E q \in Backlog : QueueChanges(u, q)
HeartbeatNext == MarkStaleAsFailed \/ \E u \in Owner : PostHealth(u) \/ Record(u) \/ BeatAges(u) \/ AgentChanges(u)

HealthTypeOK ==
    /\ active \cup posting \subseteq Owner /\ backlog \in [Owner -> Backlog]
    /\ \A u \in Owner :
          /\ statuses[u].status \in {"unlisted", "processing", "idle", "degraded", "offline"}
          /\ statuses[u].age \in 0 .. OverdueAfter + 1
    /\ check.left \cup check.seen \subseteq Owner
    /\ changes \in 0 .. MaxChanges /\ readFaults \in 0 .. MaxReadFaults

\* What the view owes the user: no entry without an agent, a warning for a
\* queue that has messages and no consumer, no silent agent shown as alive.
Behind(u) ==
    \/ u \notin active /\ statuses[u] # Unlisted
    \/ u \in active /\ DeriveAgentStatus(backlog[u]) = "degraded" /\ ~Overdue(u)
    \/ beats[u].status \notin {"none", "failed"} /\ ~beats[u].fresh
\* The view always catches up with the agents, which change only so often,
\* while the monitor runs: although single reads fail, revocations race the
\* checks and the reports, and entries are removed as stale (checkAll,
\* updateStatus, MarkStaleAsFailed).
HealthViewCatchesUp == []<>(ceased \/ \A u \in Owner : ~Behind(u))
=============================================================================
