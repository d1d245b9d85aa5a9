---------------------------- MODULE ControlPlane ----------------------------
(***************************************************************************)
(* Agents and their credentials: the agent and user rows                   *)
(* (internal/datastore/sqlite), the admin API that changes them            *)
(* (internal/admin), the registration endpoint of the gateway              *)
(* (internal/gateway/register.go), the RabbitMQ accounts it manages        *)
(* through the management API, and the agent processes that register,      *)
(* dial, lose their connection and register again (cli/agent.go,           *)
(* internal/agent/registration/client.go).                                 *)
(*                                                                         *)
(* Every call a handler makes to the datastore or to the management API is *)
(* a step of its own: the admin handlers and the registrations of other    *)
(* processes run in between.  A password is named by the process whose     *)
(* registration generated it last.                                         *)
(***************************************************************************)
EXTENDS RateLimiter, FiniteSets, Functions

CONSTANTS Agent, User, UserOf,
          Proc, AgentOf,   \* agent processes, and the agent each is set up as
          Token,           \* auth tokens, each issued at most once
          FirstToken,      \* the tokens issued before the model starts
          NoToken, NoProc,
          MaxTrouble       \* bound on admin requests, failing calls and lost
                           \* connections, taken together

ASSUME ControlAssumption ==
    /\ UserOf \in [Agent -> User]
    /\ AgentOf \in [Proc -> Agent]
    /\ LimitKey = Token
    /\ NoToken \notin Token /\ NoProc \notin Proc
    /\ FirstToken \in [Agent -> Token] /\ IsInjective(FirstToken)
    /\ MaxTrouble \in Nat

VARIABLES
    user,        \* user row: "absent", "enabled" or "disabled"
    row,         \* agent row
    issued,      \* tokens handed out so far
    account,     \* RabbitMQ: agent -> whose password its account has
    permitted,   \* RabbitMQ: agents whose account has vhost permissions
    conn,        \* RabbitMQ: process -> "none", "current" or "stale" password
    pc,          \* agent process
    token,       \* the token in a process's environment
    handler,     \* process -> where the gateway's handler of its request is
    adm,         \* the admin handler that deletes, between its steps
    adminOps, faults,
    raced        \* history: agents a registration of which met a deletion

rowVars == <<user, row, issued>>
brokerVars == <<account, permitted, conn>>
procVars == <<pc, token>>
countVars == <<adminOps, faults, raced>>
vars == <<rowVars, brokerVars, procVars, handler, adm, countVars, limiterVars>>

NoRow == [status |-> "absent", token |-> NoToken, named |-> FALSE]
NewRow(t) == [status |-> "provisioned", token |-> t, named |-> FALSE]
Nobody == [op |-> <<"none">>, targets |-> {}]
Idle == "none"

Init ==
    /\ LimiterInit
    /\ user = [u \in User |-> "enabled"]
    /\ row = [a \in Agent |-> NewRow(FirstToken[a])]
    /\ issued = Range(FirstToken)
    /\ account = [a \in Agent |-> NoProc]
    /\ permitted = {}
    /\ conn = [p \in Proc |-> "none"]
    /\ pc = [p \in Proc |-> "off"]
    /\ token = [p \in Proc |-> NoToken]
    /\ handler = [p \in Proc |-> Idle]
    /\ adm = Nobody
    /\ adminOps = 0 /\ faults = 0 /\ raced = {}

(***************************************************************************)
(* The RabbitMQ management API, as its client uses it.                     *)
(***************************************************************************)

SameAgent(p, q) == AgentOf[p] = AgentOf[q]

\* PUT /api/users: a new password; open connections stay open.
SetPassword(p) ==
    /\ account' = [account EXCEPT ![AgentOf[p]] = p]
    /\ conn' = [q \in Proc |->
                  IF SameAgent(p, q) /\ conn[q] = "current" THEN "stale" ELSE conn[q]]

\* DELETE /api/users: the account goes and its connections are cut.
DropAccount(a) ==
    /\ account' = [account EXCEPT ![a] = NoProc]
    /\ permitted' = permitted \ {a}
    /\ conn' = [q \in Proc |-> IF AgentOf[q] = a THEN "none" ELSE conn[q]]

\* The connections of the account are listed and closed one by one; the
\* first error leaves the rest open.
CloseConnections(p, kept) ==
    conn' = [q \in Proc |-> IF SameAgent(p, q) /\ q \notin kept THEN "none" ELSE conn[q]]

Registering(a) == \E p \in Proc : AgentOf[p] = a /\ handler[p] # Idle

Fault == adminOps + faults < MaxTrouble /\ faults' = faults + 1 /\ UNCHANGED <<adminOps, raced>>

(***************************************************************************)
(* The registration handler.  A failing answer leaves the process in       *)
(* "retry" (429, 503, 500, a lost request) or ends it (401, 403).          *)
(***************************************************************************)

Step(p, from, to) == handler[p] = from /\ handler' = [handler EXCEPT ![p] = to]
Answer(p, outcome) ==
    /\ handler' = [handler EXCEPT ![p] = Idle]
    /\ pc' = [pc EXCEPT ![p] = outcome]
\* 429, 503, 500: Client.Register waits and asks again.
TryAgain(p) == Answer(p, IF pc[p] = "boot" THEN "retryBoot" ELSE "retryLoop")

\* GetAgentByTokenHash finds the process's agent.
KnownToken(p) == row[AgentOf[p]].token = token[p]

\* Mutant: step 3 is missing.
LookUpAnyAgent(p) ==
    /\ pc[p] \in {"boot", "loop"}
    /\ handler[p] = Idle
    /\ IF KnownToken(p)
       THEN Step(p, Idle, "user") /\ UNCHANGED pc
       ELSE Answer(p, "exited")
    /\ UNCHANGED <<rowVars, brokerVars, token, adm, countVars, limiterVars>>

\* Steps 1 to 3: the token's row is read and is not revoked.
LookUpAgent(p) ==
    /\ pc[p] \in {"boot", "loop"}
    /\ handler[p] = Idle
    /\ IF KnownToken(p) /\ row[AgentOf[p]].status # "revoked"
       THEN Step(p, Idle, "user") /\ UNCHANGED pc
       ELSE Answer(p, "exited")
    /\ UNCHANGED <<rowVars, brokerVars, token, adm, countVars, limiterVars>>

\* Steps 4 and 5: the user must exist and be enabled; then the limiter is asked.
LoadUser(p) ==
    /\ handler[p] = "user"
    /\ IF user[UserOf[AgentOf[p]]] = "enabled"
       THEN \/ Allow(token[p]) /\ Step(p, "user", "create") /\ UNCHANGED pc
            \/ Deny(token[p]) /\ TryAgain(p)
       ELSE Answer(p, "exited") /\ UNCHANGED limiterVars
    /\ UNCHANGED <<rowVars, brokerVars, token, adm, countVars>>

\* Steps 8 and 9: CreateUser sets a new password; open connections stay.
CreateUser(p) ==
    /\ Step(p, "create", "perms")
    /\ SetPassword(p)
    /\ raced' = IF adm # Nobody \/ row[AgentOf[p]] = NoRow
                THEN raced \cup {AgentOf[p]} ELSE raced
    /\ UNCHANGED <<rowVars, permitted, procVars, adm, adminOps, faults, limiterVars>>

\* Step 10; if the account was deleted meanwhile the API answers 404 (503).
SetVhostPermissions(p) ==
    LET a == AgentOf[p] IN
    /\ handler[p] = "perms"
    /\ IF account[a] # NoProc
       THEN Step(p, "perms", "close") /\ permitted' = permitted \cup {a} /\ UNCHANGED pc
       ELSE /\ TryAgain(p)
            /\ UNCHANGED permitted
    /\ UNCHANGED <<rowVars, account, conn, token, adm, countVars, limiterVars>>

\* Mutant: step 10b is missing.
KeepUserConnections(p) ==
    /\ Step(p, "close", "status")
    /\ UNCHANGED <<rowVars, brokerVars, procVars, adm, countVars, limiterVars>>

\* Steps 10b and 10c: the agent's open connections are closed one by one; an
\* error stops after some of them and is only logged.  Queue declaration is
\* best effort and touches nothing else here.
CloseUserConnections(p) ==
    /\ Step(p, "close", "status")
    /\ \E kept \in SUBSET {q \in Proc : SameAgent(p, q) /\ conn[q] # "none"} :
          /\ CloseConnections(p, kept)
          /\ IF kept = {} THEN UNCHANGED countVars ELSE Fault
    /\ UNCHANGED <<rowVars, account, permitted, procVars, adm, limiterVars>>

\* Step 11, first half: an UPDATE by id, whatever the row's status is by now.
UpdateAgentStatus(p) ==
    LET a == AgentOf[p] IN
    /\ Step(p, "status", "name")
    /\ row' = IF row[a] = NoRow THEN row ELSE [row EXCEPT ![a].status = "registered"]
    /\ UNCHANGED <<user, issued, brokerVars, procVars, adm, countVars, limiterVars>>

\* Step 11, second half, whose error is only logged, and steps 12 to 14.
\* The first registration of a process only tells it its user; the next one
\* carries the credentials it dials with.
Respond(p) ==
    LET a == AgentOf[p] IN
    /\ handler[p] = "name"
    /\ \/ /\ row' = IF row[a] = NoRow THEN row ELSE [row EXCEPT ![a].named = TRUE]
          /\ UNCHANGED countVars
       \/ Fault /\ UNCHANGED row
    /\ Answer(p, IF pc[p] = "boot" THEN "loop" ELSE "granted")
    /\ UNCHANGED <<user, issued, brokerVars, token, adm, limiterVars>>

\* A call of the handler fails (503 or 500), or the client gives up waiting,
\* which cancels the handler's context: what was done stays done.
RegistrationFails(p) ==
    /\ handler[p] # Idle
    /\ TryAgain(p)
    /\ Fault
    /\ UNCHANGED <<rowVars, brokerVars, token, adm, limiterVars>>

(***************************************************************************)
(* The agent process.                                                      *)
(***************************************************************************)

\* The operator starts a process with the agent's token of the moment.
StartProcess(p) ==
    /\ pc[p] = "off"
    /\ row[AgentOf[p]] # NoRow
    /\ pc' = [pc EXCEPT ![p] = "boot"]
    /\ token' = [token EXCEPT ![p] = row[AgentOf[p]].token]
    /\ UNCHANGED <<rowVars, brokerVars, handler, adm, countVars, limiterVars>>

\* Register waits (at most 30 s) and asks again.
Retry(p) ==
    /\ pc[p] \in {"retryBoot", "retryLoop"}
    /\ pc' = [pc EXCEPT ![p] = IF @ = "retryBoot" THEN "boot" ELSE "loop"]
    /\ UNCHANGED <<rowVars, brokerVars, token, handler, adm, countVars, limiterVars>>

\* Dialling with a password that is no longer the account's ends the process.
Dial(p) ==
    /\ pc[p] = "granted"
    /\ IF account[AgentOf[p]] = p /\ AgentOf[p] \in permitted
       THEN /\ pc' = [pc EXCEPT ![p] = "connected"]
            /\ conn' = [conn EXCEPT ![p] = "current"]
       ELSE pc' = [pc EXCEPT ![p] = "exited"] /\ UNCHANGED conn
    /\ UNCHANGED <<rowVars, account, permitted, token, handler, adm, countVars, limiterVars>>

\* The network takes the connection away.
ConnectionLost(p) ==
    /\ conn[p] # "none"
    /\ conn' = [conn EXCEPT ![p] = "none"]
    /\ Fault
    /\ UNCHANGED <<rowVars, account, permitted, procVars, handler, adm, limiterVars>>

\* Run returns, conn.Close, five seconds, and the loop registers again.
RunEnds(p) ==
    /\ pc[p] = "connected" /\ conn[p] = "none"
    /\ pc' = [pc EXCEPT ![p] = "loop"]
    /\ UNCHANGED <<rowVars, brokerVars, token, handler, adm, countVars, limiterVars>>

(***************************************************************************)
(* The admin API.                                                          *)
(***************************************************************************)

Admin == adminOps + faults < MaxTrouble /\ adminOps' = adminOps + 1 /\ UNCHANGED faults
Unissued == Token \ issued

\* The agent id is derived from user and label and is unique.
ProvisionAgent(a) ==
    /\ Admin /\ user[UserOf[a]] # "absent" /\ row[a] = NoRow
    /\ \E t \in Unissued :
          row' = [row EXCEPT ![a] = NewRow(t)] /\ issued' = issued \cup {t}
    /\ UNCHANGED <<user, brokerVars, procVars, handler, adm, raced, limiterVars>>

\* The token changes; status and RabbitMQ account stay.
RotateAgentToken(a) ==
    /\ Admin /\ row[a] # NoRow
    /\ \E t \in Unissued :
          row' = [row EXCEPT ![a].token = t] /\ issued' = issued \cup {t}
    /\ UNCHANGED <<user, brokerVars, procVars, handler, adm, raced, limiterVars>>

\* Only the status: the account and its connections stay.
RevokeAgent(a) ==
    /\ Admin /\ row[a] # NoRow
    /\ row' = [row EXCEPT ![a].status = "revoked"]
    /\ UNCHANGED <<user, issued, brokerVars, procVars, handler, adm, raced, limiterVars>>

UpdateUser(u) ==
    /\ Admin /\ user[u] # "absent"
    /\ user' = [user EXCEPT ![u] = IF @ = "enabled" THEN "disabled" ELSE "enabled"]
    /\ UNCHANGED <<row, issued, brokerVars, procVars, handler, adm, raced, limiterVars>>

CreateUserRow(u) ==
    /\ Admin /\ user[u] = "absent"
    /\ user' = [user EXCEPT ![u] = "enabled"]
    /\ UNCHANGED <<row, issued, brokerVars, procVars, handler, adm, raced, limiterVars>>

\* The two delete handlers read the rows and note which have an account.
DeleteBegins(op, rows) ==
    /\ Admin /\ adm = Nobody
    /\ adm' = [op |-> op, targets |-> {a \in rows : row[a].named}]
    /\ raced' = raced \cup {a \in rows : Registering(a)}
    /\ UNCHANGED <<rowVars, brokerVars, procVars, handler, limiterVars>>
HandleDeleteAgent(a) == row[a] # NoRow /\ DeleteBegins(<<"agent", a>>, {a})
HandleDeleteUser(u) ==
    user[u] # "absent" /\ DeleteBegins(<<"user", u>>, {a \in Agent : UserOf[a] = u})

\* mgmt.DeleteUser removes the account and cuts its connections; an error is
\* only logged.
DeleteRMQUser(a) ==
    /\ a \in adm.targets
    /\ adm' = [adm EXCEPT !.targets = @ \ {a}]
    /\ \/ DropAccount(a) /\ UNCHANGED countVars
       \/ Fault /\ UNCHANGED brokerVars
    /\ UNCHANGED <<rowVars, procVars, handler, limiterVars>>

\* Mutant: the rows go before the accounts.
DeleteRowsFirst ==
    LET gone == {a \in Agent : adm.op = <<"agent", a>> \/ adm.op = <<"user", UserOf[a]>>} IN
    /\ adm # Nobody
    /\ row' = [a \in Agent |-> IF a \in gone THEN NoRow ELSE row[a]]
    /\ user' = [u \in User |-> IF adm.op = <<"user", u>> THEN "absent" ELSE user[u]]
    /\ adm' = Nobody
    /\ UNCHANGED <<issued, brokerVars, procVars, handler, countVars, limiterVars>>

\* The row is deleted; a user's agent rows go with it (ON DELETE CASCADE).
DeleteRows ==
    LET gone == {a \in Agent : adm.op = <<"agent", a>> \/ adm.op = <<"user", UserOf[a]>>} IN
    /\ adm # Nobody /\ adm.targets = {}
    /\ row' = [a \in Agent |-> IF a \in gone THEN NoRow ELSE row[a]]
    /\ user' = [u \in User |-> IF adm.op = <<"user", u>> THEN "absent" ELSE user[u]]
    /\ adm' = Nobody
    /\ UNCHANGED <<issued, brokerVars, procVars, handler, countVars, limiterVars>>

Tick ==
    /\ LimiterTick
    /\ UNCHANGED <<rowVars, brokerVars, procVars, handler, adm, countVars>>

HandlerStep(p) ==
    \/ LookUpAgent(p) \/ LoadUser(p) \/ CreateUser(p) \/ SetVhostPermissions(p)
    \/ CloseUserConnections(p) \/ UpdateAgentStatus(p) \/ Respond(p)
ProcessStep(p) == Retry(p) \/ Dial(p) \/ RunEnds(p)

Next ==
    \/ \E p \in Proc :
          \/ HandlerStep(p) \/ ProcessStep(p)
          \/ StartProcess(p) \/ RegistrationFails(p) \/ ConnectionLost(p)
    \/ \E a \in Agent :
          \/ ProvisionAgent(a) \/ RotateAgentToken(a) \/ RevokeAgent(a)
          \/ HandleDeleteAgent(a) \/ DeleteRMQUser(a)
    \/ \E u \in User : UpdateUser(u) \/ CreateUserRow(u) \/ HandleDeleteUser(u)
    \/ DeleteRows \/ Tick

\* Handlers and processes run on and time passes; operators and faults owe nothing.
Fairness ==
    /\ \A p \in Proc : WF_vars(HandlerStep(p)) /\ WF_vars(ProcessStep(p))
    /\ WF_vars(Tick)

Spec == Init /\ [][Next]_vars /\ Fairness

(***************************************************************************)
(* Properties.                                                             *)
(***************************************************************************)

\* Every variable has its type.
TypeOK ==
    /\ LimiterTypeOK
    /\ user \in [User -> {"absent", "enabled", "disabled"}]
    /\ row \in [Agent -> [status : {"absent", "provisioned", "registered", "revoked"},
                          token : Token \cup {NoToken}, named : BOOLEAN]]
    /\ issued \subseteq Token
    /\ account \in [Agent -> Proc \cup {NoProc}]
    /\ permitted \subseteq Agent
    /\ conn \in [Proc -> {"none", "current", "stale"}]
    /\ pc \in [Proc -> {"off", "boot", "loop", "retryBoot", "retryLoop", "granted",
                        "connected", "exited"}]
    /\ token \in [Proc -> Token \cup {NoToken}]
    /\ handler \in [Proc -> {Idle, "user", "create", "perms", "close", "status", "name"}]
    /\ adm.targets \subseteq Agent
    /\ adminOps + faults \in 0 .. MaxTrouble /\ raced \subseteq Agent

\* A RabbitMQ account outlives its agent row only if a call failed or a
\* registration of the agent was running while the row was being deleted
\* (handleDeleteAgent, handleDeleteUser against RegisterHandler.Handle).
NoOrphanAccount ==
    \A a \in Agent :
        row[a] = NoRow /\ account[a] # NoProc => faults > 0 \/ a \in raced

\* An old process keeps consuming with a replaced password only until the
\* registration that replaced it reaches CloseUserConnections, unless a call
\* failed (RegisterHandler.Handle, step 10b).
OldConnectionsAreCut ==
    \A p \in Proc :
        conn[p] = "stale" =>
            \/ faults > 0
            \/ \E q \in Proc : AgentOf[q] = AgentOf[p] /\ handler[q] \in {"perms", "close"}

\* Once an agent is revoked and no registration of it is under way, it stays
\* revoked, no process of it is granted credentials and its password is not
\* renewed, until its row is deleted.  (A registration under way does undo a
\* revocation: UpdateAgentStatus does not look at the status.)
Sealed(a) == row[a].status = "revoked" /\ ~Registering(a)
RevocationSticks ==
    [][\A a \in Agent :
          Sealed(a) => /\ Sealed(a)' \/ row'[a] = NoRow
                       /\ account'[a] \in {account[a], NoProc}]_vars

\* A process that is alone, whose gateway and broker do not fail and whose
\* rows nobody changes, gets connected: neither the two registrations of a
\* start, nor the limiter, nor the closing of old connections keeps it out
\* (runAgent, Client.Register).
Disturbed(p) ==
    adminOps > 0 \/ faults > 0 \/ \E q \in Proc \ {p} : pc[q] # "off"
LoneAgentConnects ==
    \A p \in Proc : pc[p] = "boot" ~> (pc[p] = "connected" \/ Disturbed(p))
=============================================================================
