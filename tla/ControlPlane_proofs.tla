------------------------- MODULE ControlPlane_proofs -------------------------
(***************************************************************************)
(* Proofs about ControlPlane, for every set of users, agents, processes    *)
(* and tokens and any number of admin requests and failing calls.          *)
(***************************************************************************)
EXTENDS ControlPlane, WellFoundedInduction, TLAPS

HandlerAt == {Idle, "user", "create", "perms", "close", "status", "name"}
Rows == [status : {"absent", "provisioned", "registered", "revoked"},
         token : Token \cup {NoToken}, named : BOOLEAN]

\* The part of TypeOK that the arguments below rest on.
Types ==
    /\ row \in [Agent -> Rows]
    /\ account \in [Agent -> Proc \cup {NoProc}]
    /\ conn \in [Proc -> {"none", "current", "stale"}]
    /\ handler \in [Proc -> HandlerAt]
    /\ DOMAIN adm = {"op", "targets"}
    /\ adm.targets \subseteq Agent
    /\ faults \in Nat

\* A row that is there has a status.
Present == \A a \in Agent : row[a].status = "absent" => row[a] = NoRow

\* RabbitMQ lets nobody stay connected without an account.
ConnectedHaveAccount == \A p \in Proc : account[AgentOf[p]] = NoProc => conn[p] = "none"

Excused(a) == faults > 0 \/ a \in raced
\* A registration of a has set the password and not yet recorded the account.
Recording(a) ==
    \E p \in Proc : AgentOf[p] = a /\ handler[p] \in {"perms", "close", "status", "name"}
\* The datastore knows of every account, or a registration is about to tell it.
AccountsAreKnown ==
    \A a \in Agent : account[a] # NoProc =>
        Excused(a) \/ (row[a] # NoRow /\ (row[a].named \/ Recording(a)))

Gone(a) == adm.op = <<"agent", a>> \/ adm.op = <<"user", UserOf[a]>>
\* The account of a row that is being deleted goes before the row.
AccountsGoFirst ==
    \A a \in Agent : adm # Nobody /\ Gone(a) /\ account[a] # NoProc =>
        Excused(a) \/ a \in adm.targets

IInv == Types /\ Present /\ ConnectedHaveAccount /\ OldConnectionsAreCut
        /\ AccountsAreKnown /\ AccountsGoFirst

\* It holds at the start.
LEMMA InitIInv == Init => IInv
  BY ControlAssumption DEF Init, IInv, Types, Present, ConnectedHaveAccount, OldConnectionsAreCut,
     AccountsAreKnown, AccountsGoFirst, NewRow, NoRow, Rows, HandlerAt, Idle, Nobody

\* Recording the account in a row changes nothing else of it.
LEMMA NamedRow ==
    ASSUME NEW r \in Rows
    PROVE  /\ [r EXCEPT !.named = TRUE] \in Rows
           /\ [r EXCEPT !.named = TRUE].status = r.status
           /\ [r EXCEPT !.named = TRUE].named
  BY DEF Rows

\* The types are kept by every step.
LEMMA TypesKept == Types /\ [Next]_vars => Types'
<1> SUFFICES ASSUME Types, [Next]_vars PROVE Types'
  OBVIOUS
<1> USE ControlAssumption
<1> USE DEF Types, HandlerAt, Idle
<1>1. ASSUME NEW p \in Proc, LookUpAgent(p) \/ LoadUser(p) PROVE Types'
  BY <1>1 DEF LookUpAgent, LoadUser, Step, Answer, TryAgain, rowVars, brokerVars, countVars
<1>2. ASSUME NEW p \in Proc, CreateUser(p) PROVE Types'
  BY <1>2 DEF CreateUser, SetPassword, Step, rowVars
<1>3. ASSUME NEW p \in Proc, SetVhostPermissions(p) PROVE Types'
  BY <1>3 DEF SetVhostPermissions, Step, Answer, TryAgain, rowVars, countVars
<1>4. ASSUME NEW p \in Proc, CloseUserConnections(p) PROVE Types'
  BY <1>4 DEF CloseUserConnections, CloseConnections, Step, Fault, rowVars, countVars
<1>5. ASSUME NEW p \in Proc, UpdateAgentStatus(p) PROVE Types'
  BY <1>5 DEF UpdateAgentStatus, Step, brokerVars, countVars, Rows
<1>6. ASSUME NEW p \in Proc, Respond(p) PROVE Types'
  <2>1. row' \in [Agent -> Rows]
    <3> DEFINE a == AgentOf[p]
               r == [row[a] EXCEPT !.named = TRUE]
    <3>1. row' \in {row, [row EXCEPT ![a] = r]}
      BY <1>6 DEF Respond
    <3>2. r \in Rows
      BY NamedRow
    <3> HIDE DEF r
    <3>3. QED
      BY <3>1, <3>2
  <2>2. QED
    BY <1>6, <2>1 DEF Respond, Answer, Fault, brokerVars, countVars
<1>7. ASSUME NEW p \in Proc, RegistrationFails(p) PROVE Types'
  BY <1>7 DEF RegistrationFails, TryAgain, Answer, Fault, rowVars, brokerVars
<1>8. ASSUME NEW p \in Proc, StartProcess(p) \/ ProcessStep(p) PROVE Types'
  BY <1>8 DEF StartProcess, ProcessStep, Retry, Dial, RunEnds, rowVars, brokerVars, countVars
<1>9. ASSUME NEW p \in Proc, ConnectionLost(p) PROVE Types'
  BY <1>9 DEF ConnectionLost, Fault, rowVars
<1>10. ASSUME NEW a \in Agent, ProvisionAgent(a) PROVE Types'
  BY <1>10 DEF ProvisionAgent, Admin, brokerVars, NewRow, Rows, Unissued
<1>11. ASSUME NEW a \in Agent, RotateAgentToken(a) \/ RevokeAgent(a) PROVE Types'
  <2>1. CASE RevokeAgent(a)
    <3>1. row' = [row EXCEPT ![a].status = "revoked"]
      BY <2>1 DEF RevokeAgent
    <3>2. [row[a] EXCEPT !.status = "revoked"] \in Rows
      BY DEF Rows
    <3>3. row' \in [Agent -> Rows]
      BY <3>1, <3>2
    <3>4. QED
      BY <2>1, <3>3 DEF RevokeAgent, Admin, brokerVars
  <2>2. CASE RotateAgentToken(a)
    <3>1. PICK t \in Token : row' = [row EXCEPT ![a].token = t]
      BY <2>2 DEF RotateAgentToken, Unissued
    <3>2. row' \in [Agent -> Rows]
      BY <3>1 DEF Rows
    <3>3. QED
      BY <2>2, <3>2 DEF RotateAgentToken, Admin, brokerVars
  <2>3. QED
    BY <1>11, <2>1, <2>2
<1>12. ASSUME NEW a \in Agent, HandleDeleteAgent(a) PROVE Types'
  BY <1>12 DEF HandleDeleteAgent, DeleteBegins, Admin, rowVars, brokerVars
<1>13. ASSUME NEW a \in Agent, DeleteRMQUser(a) PROVE Types'
  BY <1>13 DEF DeleteRMQUser, DropAccount, Fault, rowVars, brokerVars, countVars
<1>14. ASSUME NEW u \in User, UpdateUser(u) \/ CreateUserRow(u) \/ HandleDeleteUser(u) PROVE Types'
  BY <1>14 DEF UpdateUser, CreateUserRow, HandleDeleteUser, DeleteBegins, Admin, rowVars, brokerVars
<1>15. CASE DeleteRows
  BY <1>15 DEF DeleteRows, NoRow, Rows, Nobody, brokerVars, countVars
<1>16. CASE Tick
  BY <1>16 DEF Tick, rowVars, brokerVars, countVars
<1>17. CASE UNCHANGED vars
  BY <1>17 DEF vars, rowVars, brokerVars, countVars
<1>18. QED
  BY <1>1, <1>2, <1>3, <1>4, <1>5, <1>6, <1>7, <1>8, <1>9, <1>10, <1>11, <1>12, <1>13, <1>14,
     <1>15, <1>16, <1>17 DEF Next, HandlerStep

\* What a step may do to the row of an agent: delete it, provision it, or
\* change it in a way that forgets neither the row nor its account.
RowStep(a) ==
    \/ row'[a] = row[a]
    \/ row'[a] = NoRow /\ DeleteRows /\ Gone(a)
    \/ row[a] = NoRow /\ row'[a].status = "provisioned" /\ account' = account
    \/ /\ row[a] # NoRow
       /\ row'[a].status \in {row[a].status, "revoked", "registered"}
       /\ row[a].named => row'[a].named
       /\ row'[a].status = "registered" => row[a].status = "registered" \/ Registering(a)

\* Every step does one of these.
LEMMA RowSteps == ASSUME Types, [Next]_vars, NEW a \in Agent PROVE RowStep(a)
<1> USE ControlAssumption
<1> USE DEF Types, RowStep
<1>1. ASSUME NEW p \in Proc, LookUpAgent(p) \/ LoadUser(p) \/ CreateUser(p) \/ SetVhostPermissions(p)
                             \/ CloseUserConnections(p) \/ RegistrationFails(p)
      PROVE  RowStep(a)
  BY <1>1 DEF LookUpAgent, LoadUser, CreateUser, SetVhostPermissions, CloseUserConnections,
              RegistrationFails, rowVars
<1>2. ASSUME NEW p \in Proc, StartProcess(p) \/ ProcessStep(p) \/ ConnectionLost(p) PROVE RowStep(a)
  BY <1>2 DEF StartProcess, ProcessStep, Retry, Dial, RunEnds, ConnectionLost, rowVars
<1>3. ASSUME NEW p \in Proc, UpdateAgentStatus(p) PROVE RowStep(a)
  BY <1>3 DEF UpdateAgentStatus, Step, Registering, Idle, Rows
<1>4. ASSUME NEW p \in Proc, Respond(p) PROVE RowStep(a)
  <2> DEFINE b == AgentOf[p]
             r == [row[b] EXCEPT !.named = TRUE]
  <2>1. row' = row \/ (row[b] # NoRow /\ row' = [row EXCEPT ![b] = r])
    BY <1>4 DEF Respond
  <2>2. r.status = row[b].status /\ r.named
    BY NamedRow
  <2> HIDE DEF r
  <2>3. row'[a] = row[a] \/ (a = b /\ row[b] # NoRow /\ row'[a] = r)
    BY <2>1
  <2>4. QED
    BY <2>2, <2>3
<1>5. ASSUME NEW b \in Agent, ProvisionAgent(b) PROVE RowStep(a)
  BY <1>5 DEF ProvisionAgent, NewRow, brokerVars
<1>6. ASSUME NEW b \in Agent, RotateAgentToken(b) PROVE RowStep(a)
  <2>1. PICK t \in Token : row' = [row EXCEPT ![b].token = t]
    BY <1>6 DEF RotateAgentToken, Unissued
  <2>2. QED
    BY <1>6, <2>1 DEF RotateAgentToken, Rows
<1>7. ASSUME NEW b \in Agent, RevokeAgent(b) PROVE RowStep(a)
  BY <1>7 DEF RevokeAgent, Rows
<1>8. ASSUME NEW b \in Agent, HandleDeleteAgent(b) \/ DeleteRMQUser(b) PROVE RowStep(a)
  BY <1>8 DEF HandleDeleteAgent, DeleteBegins, DeleteRMQUser, rowVars
<1>9. ASSUME NEW u \in User, UpdateUser(u) \/ CreateUserRow(u) \/ HandleDeleteUser(u) PROVE RowStep(a)
  BY <1>9 DEF UpdateUser, CreateUserRow, HandleDeleteUser, DeleteBegins, rowVars
<1>10. CASE DeleteRows
  BY <1>10 DEF DeleteRows, Gone
<1>11. CASE Tick \/ UNCHANGED vars
  BY <1>11 DEF Tick, vars, rowVars
<1>12. QED
  BY <1>1, <1>2, <1>3, <1>4, <1>5, <1>6, <1>7, <1>8, <1>9, <1>10, <1>11 DEF Next, HandlerStep

\* A row loses its status only with everything else.
LEMMA PresentKept == Types /\ Present /\ [Next]_vars => Present'
<1> SUFFICES ASSUME Types, Present, [Next]_vars, NEW a \in Agent, row'[a].status = "absent"
             PROVE  row'[a] = NoRow
  BY DEF Present
<1>1. RowStep(a)
  BY RowSteps
<1>2. QED
  BY <1>1 DEF RowStep, Present

\* Processes connect to an account, and old connections are cut.
LEMMA ConnKept ==
    Types /\ ConnectedHaveAccount /\ OldConnectionsAreCut /\ [Next]_vars
        => ConnectedHaveAccount' /\ OldConnectionsAreCut'
<1> SUFFICES ASSUME Types, ConnectedHaveAccount, OldConnectionsAreCut, [Next]_vars
             PROVE  ConnectedHaveAccount' /\ OldConnectionsAreCut'
  OBVIOUS
<1> DEFINE Goal == ConnectedHaveAccount /\ OldConnectionsAreCut
<1> USE ControlAssumption
<1> USE DEF Types, ConnectedHaveAccount, OldConnectionsAreCut
<1>1. ASSUME NEW p \in Proc, LookUpAgent(p) \/ LoadUser(p) PROVE Goal'
  BY <1>1 DEF LookUpAgent, LoadUser, Step, Answer, TryAgain, brokerVars, countVars, Idle
<1>2. ASSUME NEW p \in Proc, CreateUser(p) PROVE Goal'
  BY <1>2 DEF CreateUser, SetPassword, SameAgent, Step
<1>3. ASSUME NEW p \in Proc, SetVhostPermissions(p) PROVE Goal'
  BY <1>3 DEF SetVhostPermissions, Step, Answer, TryAgain, countVars
<1>4. ASSUME NEW p \in Proc, CloseUserConnections(p) PROVE Goal'
  BY <1>4 DEF CloseUserConnections, CloseConnections, SameAgent, Step, Fault, countVars
<1>5. ASSUME NEW p \in Proc, UpdateAgentStatus(p) PROVE Goal'
  BY <1>5 DEF UpdateAgentStatus, Step, brokerVars, countVars
<1>6. ASSUME NEW p \in Proc, Respond(p) PROVE Goal'
  BY <1>6 DEF Respond, Answer, Fault, brokerVars, countVars
<1>7. ASSUME NEW p \in Proc, RegistrationFails(p) PROVE Goal'
  BY <1>7 DEF RegistrationFails, TryAgain, Answer, Fault, brokerVars
<1>8. ASSUME NEW p \in Proc, StartProcess(p) \/ ProcessStep(p) PROVE Goal'
  BY <1>8 DEF StartProcess, ProcessStep, Retry, Dial, RunEnds, brokerVars, countVars
<1>9. ASSUME NEW p \in Proc, ConnectionLost(p) PROVE Goal'
  BY <1>9 DEF ConnectionLost, Fault
<1>10. ASSUME NEW a \in Agent, ProvisionAgent(a) \/ RotateAgentToken(a) \/ RevokeAgent(a) PROVE Goal'
  BY <1>10 DEF ProvisionAgent, RotateAgentToken, RevokeAgent, Admin, brokerVars
<1>11. ASSUME NEW a \in Agent, HandleDeleteAgent(a) PROVE Goal'
  BY <1>11 DEF HandleDeleteAgent, DeleteBegins, Admin, brokerVars
<1>12. ASSUME NEW a \in Agent, DeleteRMQUser(a) PROVE Goal'
  BY <1>12 DEF DeleteRMQUser, DropAccount, Fault, brokerVars, countVars
<1>13. ASSUME NEW u \in User, UpdateUser(u) \/ CreateUserRow(u) \/ HandleDeleteUser(u) PROVE Goal'
  BY <1>13 DEF UpdateUser, CreateUserRow, HandleDeleteUser, DeleteBegins, Admin, brokerVars
<1>14. CASE DeleteRows \/ Tick \/ UNCHANGED vars
  BY <1>14 DEF DeleteRows, Tick, vars, brokerVars, countVars
<1>15. QED
  BY <1>1, <1>2, <1>3, <1>4, <1>5, <1>6, <1>7, <1>8, <1>9, <1>10, <1>11, <1>12, <1>13, <1>14
     DEF Next, HandlerStep

\* A failure or a race stays on record.
LEMMA ExcusesStay == ASSUME Types, [Next]_vars, NEW a \in Agent, Excused(a) PROVE Excused(a)'
<1> USE DEF Types, Excused
<1>1. ASSUME NEW p \in Proc, HandlerStep(p) PROVE Excused(a)'
  BY <1>1 DEF HandlerStep, LookUpAgent, LoadUser, CreateUser, SetVhostPermissions,
              CloseUserConnections, UpdateAgentStatus, Respond, Fault, countVars
<1>2. ASSUME NEW p \in Proc, StartProcess(p) \/ ProcessStep(p) \/ ConnectionLost(p) \/ RegistrationFails(p)
      PROVE  Excused(a)'
  BY <1>2 DEF StartProcess, ProcessStep, Retry, Dial, RunEnds, ConnectionLost, RegistrationFails,
              Fault, countVars
<1>3. ASSUME NEW b \in Agent, ProvisionAgent(b) \/ RotateAgentToken(b) \/ RevokeAgent(b) PROVE Excused(a)'
  BY <1>3 DEF ProvisionAgent, RotateAgentToken, RevokeAgent, Admin
<1>4. ASSUME NEW b \in Agent, HandleDeleteAgent(b) \/ DeleteRMQUser(b) PROVE Excused(a)'
  BY <1>4 DEF HandleDeleteAgent, DeleteBegins, DeleteRMQUser, Admin, Fault, countVars
<1>5. ASSUME NEW u \in User, UpdateUser(u) \/ CreateUserRow(u) \/ HandleDeleteUser(u) PROVE Excused(a)'
  BY <1>5 DEF UpdateUser, CreateUserRow, HandleDeleteUser, DeleteBegins, Admin
<1>6. CASE DeleteRows \/ Tick \/ UNCHANGED vars
  BY <1>6 DEF DeleteRows, Tick, vars, countVars
<1>7. QED
  BY <1>1, <1>2, <1>3, <1>4, <1>5, <1>6 DEF Next

\* An account is set up by the CreateUser of one of the agent's processes, and
\* by nothing else.
LEMMA AccountSteps ==
    ASSUME Types, [Next]_vars, NEW a \in Agent
    PROVE  \/ account'[a] \in {account[a], NoProc}
           \/ \E p \in Proc : AgentOf[p] = a /\ CreateUser(p)
<1> USE ControlAssumption
<1> USE DEF Types
<1> DEFINE Goal == \/ account'[a] \in {account[a], NoProc}
                   \/ \E p \in Proc : AgentOf[p] = a /\ CreateUser(p)
<1>1. ASSUME NEW p \in Proc, CreateUser(p) PROVE Goal
  <2>1. AgentOf[p] # a => account'[a] = account[a]
    BY <1>1 DEF CreateUser, SetPassword
  <2>2. QED
    BY <1>1, <2>1
<1>2. ASSUME NEW p \in Proc, LookUpAgent(p) \/ LoadUser(p) \/ SetVhostPermissions(p) \/ CloseUserConnections(p)
                             \/ UpdateAgentStatus(p) \/ Respond(p) \/ RegistrationFails(p)
      PROVE  account' = account
  BY <1>2 DEF LookUpAgent, LoadUser, SetVhostPermissions, CloseUserConnections, UpdateAgentStatus,
              Respond, RegistrationFails, brokerVars
<1>3. ASSUME NEW p \in Proc, StartProcess(p) \/ ProcessStep(p) \/ ConnectionLost(p) PROVE account' = account
  BY <1>3 DEF StartProcess, ProcessStep, Retry, Dial, RunEnds, ConnectionLost, brokerVars
<1>4. ASSUME NEW b \in Agent, ProvisionAgent(b) \/ RotateAgentToken(b) \/ RevokeAgent(b) \/ HandleDeleteAgent(b)
      PROVE  account' = account
  BY <1>4 DEF ProvisionAgent, RotateAgentToken, RevokeAgent, HandleDeleteAgent, DeleteBegins, brokerVars
<1>5. ASSUME NEW b \in Agent, DeleteRMQUser(b) PROVE account'[a] \in {account[a], NoProc}
  BY <1>5 DEF DeleteRMQUser, DropAccount, brokerVars
<1>6. ASSUME NEW u \in User, UpdateUser(u) \/ CreateUserRow(u) \/ HandleDeleteUser(u) PROVE account' = account
  BY <1>6 DEF UpdateUser, CreateUserRow, HandleDeleteUser, DeleteBegins, brokerVars
<1>7. CASE DeleteRows \/ Tick \/ UNCHANGED vars
  BY <1>7 DEF DeleteRows, Tick, vars, brokerVars
<1> HIDE DEF Types
<1>8. QED
  BY <1>1, <1>2, <1>3, <1>4, <1>5, <1>6, <1>7 DEF Next, HandlerStep

\* A registration that has set the password goes on until it has recorded the
\* account, unless a call fails or the account or the row is gone.
LEMMA RecordingSteps ==
    ASSUME Types, [Next]_vars, NEW a \in Agent, Recording(a), account[a] # NoProc
    PROVE  Recording(a)' \/ Excused(a)' \/ row'[a].named \/ row[a] = NoRow
<1> USE ControlAssumption
<1> USE DEF Types, Recording
<1> DEFINE Goal == Recording(a)' \/ Excused(a)' \/ row'[a].named \/ row[a] = NoRow
<1>1. ASSUME NEW p \in Proc, LookUpAgent(p) \/ LoadUser(p) PROVE Recording(a)'
  BY <1>1 DEF LookUpAgent, LoadUser, Step, Answer, TryAgain, Idle
<1>2. ASSUME NEW p \in Proc, CreateUser(p) \/ CloseUserConnections(p) \/ UpdateAgentStatus(p) PROVE Recording(a)'
  BY <1>2 DEF CreateUser, CloseUserConnections, UpdateAgentStatus, Step
<1>3. ASSUME NEW p \in Proc, SetVhostPermissions(p) PROVE Recording(a)'
  BY <1>3 DEF SetVhostPermissions, Step, TryAgain, Answer
<1>4. ASSUME NEW p \in Proc, Respond(p) PROVE Goal
  <2>1. CASE AgentOf[p] # a
    BY <1>4, <2>1 DEF Respond, Answer
  <2>2. CASE faults' = faults + 1
    BY <2>2 DEF Excused
  <2>3. CASE AgentOf[p] = a /\ row[a] # NoRow /\ row' = [row EXCEPT ![a].named = TRUE]
    <3> DEFINE r == [row[a] EXCEPT !.named = TRUE]
    <3>1. r.named
      BY NamedRow
    <3> HIDE DEF r
    <3>2. row'[a] = r
      BY <2>3 DEF r
    <3>3. QED
      BY <3>1, <3>2
  <2>4. QED
    BY <1>4, <2>1, <2>2, <2>3 DEF Respond, Fault
<1>5. ASSUME NEW p \in Proc, RegistrationFails(p) PROVE Excused(a)'
  BY <1>5 DEF RegistrationFails, Fault, Excused
<1>6. ASSUME NEW p \in Proc, StartProcess(p) \/ ProcessStep(p) \/ ConnectionLost(p) PROVE Recording(a)'
  BY <1>6 DEF StartProcess, ProcessStep, Retry, Dial, RunEnds, ConnectionLost
<1>7. ASSUME NEW b \in Agent, ProvisionAgent(b) \/ RotateAgentToken(b) \/ RevokeAgent(b) \/ HandleDeleteAgent(b)
                              \/ DeleteRMQUser(b)
      PROVE  Recording(a)'
  BY <1>7 DEF ProvisionAgent, RotateAgentToken, RevokeAgent, HandleDeleteAgent, DeleteBegins, DeleteRMQUser
<1>8. ASSUME NEW u \in User, UpdateUser(u) \/ CreateUserRow(u) \/ HandleDeleteUser(u) PROVE Recording(a)'
  BY <1>8 DEF UpdateUser, CreateUserRow, HandleDeleteUser, DeleteBegins
<1>9. CASE DeleteRows \/ Tick \/ UNCHANGED vars
  BY <1>9 DEF DeleteRows, Tick, vars
<1> HIDE DEF Types, Recording
<1>10. QED
  BY <1>1, <1>2, <1>3, <1>4, <1>5, <1>6, <1>7, <1>8, <1>9 DEF Next, HandlerStep

\* CreateUser notes a race when the row is gone, RecordingSteps covers the
\* handlers under way, and a row goes after its account.
LEMMA KnownKept == IInv /\ [Next]_vars => AccountsAreKnown'
<1> SUFFICES ASSUME IInv, [Next]_vars, NEW a \in Agent, account'[a] # NoProc, ~Excused(a)'
             PROVE  row'[a] # NoRow /\ (row'[a].named \/ Recording(a)')
  BY DEF AccountsAreKnown
<1> USE ControlAssumption
<1>1. ~Excused(a)
  BY ExcusesStay DEF IInv
<1>2. RowStep(a)
  BY RowSteps DEF IInv
<1>3. CASE account'[a] = account[a]
  <2>1. row[a] # NoRow /\ (row[a].named \/ Recording(a))
    BY <1>1, <1>3 DEF IInv, AccountsAreKnown
  <2>2. ~(DeleteRows /\ Gone(a))
    BY <1>1, <1>3 DEF IInv, AccountsGoFirst, DeleteRows
  <2>3. row'[a] = row[a] \/ (/\ row'[a].status \in {row[a].status, "revoked", "registered"}
                             /\ row[a].named => row'[a].named)
    BY <1>2, <2>1, <2>2 DEF RowStep
  <2>4. row'[a] # NoRow
    <3>1. row[a].status # "absent"
      BY <2>1 DEF IInv, Present
    <3>2. row'[a].status # "absent"
      BY <2>3, <3>1
    <3>3. QED
      BY <3>2 DEF NoRow
  <2>5. row[a].named => row'[a].named
    BY <2>3
  <2>6. Recording(a) => Recording(a)' \/ row'[a].named
    BY <1>3, <2>1, RecordingSteps DEF IInv
  <2>7. QED
    BY <2>1, <2>4, <2>5, <2>6
<1>4. CASE \E p \in Proc : AgentOf[p] = a /\ CreateUser(p)
  <2>1. PICK p \in Proc : AgentOf[p] = a /\ CreateUser(p)
    BY <1>4
  <2>2. row[a] # NoRow /\ row' = row
    BY <2>1 DEF CreateUser, Excused, rowVars
  <2>3. Recording(a)'
    BY <2>1 DEF CreateUser, Step, Recording, IInv, Types
  <2>4. QED
    BY <2>2, <2>3
<1>5. QED
  BY <1>3, <1>4, AccountSteps DEF IInv

\* A delete handler starts from the accounts that are recorded; one that is
\* set up later is a race.
LEMMA GoFirstKept == IInv /\ [Next]_vars => AccountsGoFirst'
<1> SUFFICES ASSUME IInv, [Next]_vars, NEW a \in Agent, adm' # Nobody, Gone(a)', account'[a] # NoProc, ~Excused(a)'
             PROVE  a \in adm'.targets
  BY DEF AccountsGoFirst
<1> USE ControlAssumption
<1>1. ~Excused(a)
  BY ExcusesStay DEF IInv
<1>2. ASSUME adm' = adm PROVE a \in adm'.targets
  <2>1. ~\E p \in Proc : AgentOf[p] = a /\ CreateUser(p)
    BY <1>2 DEF CreateUser, Excused
  <2>2. account'[a] = account[a]
    BY <2>1, AccountSteps DEF IInv
  <2>3. QED
    BY <1>1, <1>2, <2>2 DEF IInv, AccountsGoFirst, Gone
<1>3. ASSUME NEW op, NEW rows, DeleteBegins(op, rows), a \in rows PROVE a \in adm'.targets
  <2>1. ~Registering(a) /\ account' = account /\ adm' = [op |-> op, targets |-> {b \in rows : row[b].named}]
    BY <1>3 DEF DeleteBegins, Excused, brokerVars
  <2>2. row[a].named \/ Recording(a)
    BY <1>1, <2>1 DEF IInv, AccountsAreKnown
  <2>3. Recording(a) => Registering(a)
    BY DEF Recording, Registering, Idle
  <2>4. QED
    BY <1>3, <2>1, <2>2, <2>3
<1>4. ASSUME NEW b \in Agent, HandleDeleteAgent(b) PROVE a \in adm'.targets
  <2>1. adm'.op = <<"agent", b>>
    BY <1>4 DEF HandleDeleteAgent, DeleteBegins
  <2>2. a = b
    BY <2>1 DEF Gone
  <2>3. QED
    BY <1>3, <1>4, <2>2 DEF HandleDeleteAgent
<1>5. ASSUME NEW u \in User, HandleDeleteUser(u) PROVE a \in adm'.targets
  <2>1. adm'.op = <<"user", u>>
    BY <1>5 DEF HandleDeleteUser, DeleteBegins
  <2>2. UserOf[a] = u
    BY <2>1 DEF Gone
  <2>3. QED
    BY <1>3, <1>5, <2>2 DEF HandleDeleteUser
<1>6. ASSUME NEW b \in Agent, DeleteRMQUser(b) PROVE a \in adm'.targets
  <2>1. /\ adm # Nobody /\ Gone(a) /\ a # b /\ account[a] # NoProc
        /\ adm'.targets = adm.targets \ {b}
    BY <1>6 DEF DeleteRMQUser, DropAccount, Fault, Excused, Nobody, Gone, brokerVars, IInv, Types
  <2>2. QED
    BY <1>1, <2>1 DEF IInv, AccountsGoFirst
<1>7. CASE DeleteRows
  BY <1>7 DEF DeleteRows
<1>8. ASSUME NEW p \in Proc, HandlerStep(p) PROVE adm' = adm
  BY <1>8 DEF HandlerStep, LookUpAgent, LoadUser, CreateUser, SetVhostPermissions, CloseUserConnections,
              UpdateAgentStatus, Respond
<1>9. ASSUME NEW p \in Proc, StartProcess(p) \/ ProcessStep(p) \/ ConnectionLost(p) \/ RegistrationFails(p)
      PROVE  adm' = adm
  BY <1>9 DEF StartProcess, ProcessStep, Retry, Dial, RunEnds, ConnectionLost, RegistrationFails
<1>10. ASSUME NEW b \in Agent, ProvisionAgent(b) \/ RotateAgentToken(b) \/ RevokeAgent(b) PROVE adm' = adm
  BY <1>10 DEF ProvisionAgent, RotateAgentToken, RevokeAgent
<1>11. ASSUME NEW u \in User, UpdateUser(u) \/ CreateUserRow(u) PROVE adm' = adm
  BY <1>11 DEF UpdateUser, CreateUserRow
<1>12. CASE Tick \/ UNCHANGED vars
  BY <1>2, <1>12 DEF Tick, vars
<1>13. QED
  BY <1>2, <1>4, <1>5, <1>6, <1>7, <1>8, <1>9, <1>10, <1>11, <1>12 DEF Next

\* Rows, accounts, connections and the handlers under way stay in step in
\* every step of a registration, a process or an admin handler.
THEOREM Inductive == Spec => []IInv
<1>1. IInv /\ [Next]_vars => IInv'
  BY TypesKept, PresentKept, ConnKept, KnownKept, GoFirstKept DEF IInv
<1>2. QED
  BY <1>1, InitIInv, PTL DEF Spec

\* A RabbitMQ account outlives its agent row only after a failed call or a
\* registration that met the deletion (handleDeleteAgent, handleDeleteUser
\* against RegisterHandler.Handle).
THEOREM AccountsGoWithRows == Spec => []NoOrphanAccount
<1>1. IInv => NoOrphanAccount
  BY DEF IInv, AccountsAreKnown, Excused, NoOrphanAccount
<1>2. QED
  BY <1>1, Inductive, PTL

\* A replaced password keeps a connection only until its registration reaches
\* CloseUserConnections, unless a call failed (RegisterHandler.Handle).
THEOREM ReplacedPasswordsAreCut == Spec => []OldConnectionsAreCut
<1>1. IInv => OldConnectionsAreCut
  BY DEF IInv
<1>2. QED
  BY <1>1, Inductive, PTL

\* A revoked agent gets past the look-up with no registration.
LEMMA NobodyRegisters ==
    ASSUME Types, [Next]_vars, NEW a \in Agent, Sealed(a) PROVE ~Registering(a)'
<1> USE ControlAssumption
<1> USE DEF Types, Sealed, Registering
<1>1. ASSUME NEW p \in Proc, LookUpAgent(p) PROVE ~Registering(a)'
  BY <1>1 DEF LookUpAgent, Step, Answer, Idle
<1>2. ASSUME NEW p \in Proc, LoadUser(p) \/ CreateUser(p) \/ SetVhostPermissions(p) \/ CloseUserConnections(p)
      PROVE  ~Registering(a)'
  BY <1>2 DEF LoadUser, CreateUser, SetVhostPermissions, CloseUserConnections, Step, Answer, TryAgain, Idle
<1>3. ASSUME NEW p \in Proc, UpdateAgentStatus(p) \/ Respond(p) \/ RegistrationFails(p) PROVE ~Registering(a)'
  BY <1>3 DEF UpdateAgentStatus, Respond, RegistrationFails, Step, Answer, TryAgain, Idle
<1>4. ASSUME NEW p \in Proc, StartProcess(p) \/ ProcessStep(p) \/ ConnectionLost(p) PROVE ~Registering(a)'
  BY <1>4 DEF StartProcess, ProcessStep, Retry, Dial, RunEnds, ConnectionLost
<1>5. ASSUME NEW b \in Agent, ProvisionAgent(b) \/ RotateAgentToken(b) \/ RevokeAgent(b) \/ HandleDeleteAgent(b)
                              \/ DeleteRMQUser(b)
      PROVE  ~Registering(a)'
  BY <1>5 DEF ProvisionAgent, RotateAgentToken, RevokeAgent, HandleDeleteAgent, DeleteBegins, DeleteRMQUser
<1>6. ASSUME NEW u \in User, UpdateUser(u) \/ CreateUserRow(u) \/ HandleDeleteUser(u) PROVE ~Registering(a)'
  BY <1>6 DEF UpdateUser, CreateUserRow, HandleDeleteUser, DeleteBegins
<1>7. CASE DeleteRows \/ Tick \/ UNCHANGED vars
  BY <1>7 DEF DeleteRows, Tick, vars
<1>8. QED
  BY <1>1, <1>2, <1>3, <1>4, <1>5, <1>6, <1>7 DEF Next, HandlerStep

\* A revoked agent without a registration under way stays revoked and its
\* password is not renewed, until its row is deleted (RevokeAgent against
\* RegisterHandler.Handle).
THEOREM RevocationHolds == Spec => RevocationSticks
<1> USE ControlAssumption
<1>1. ASSUME IInv, [Next]_vars, NEW a \in Agent, Sealed(a)
      PROVE  (Sealed(a)' \/ row'[a] = NoRow) /\ account'[a] \in {account[a], NoProc}
  <2>1. ~Registering(a)'
    BY <1>1, NobodyRegisters DEF IInv
  <2>2. row'[a].status = "revoked" \/ row'[a] = NoRow
    <3>1. RowStep(a)
      BY <1>1, RowSteps DEF IInv
    <3>2. row[a].status = "revoked" /\ row[a] # NoRow /\ ~Registering(a)
      BY <1>1 DEF Sealed, NoRow
    <3>3. QED
      BY <3>1, <3>2 DEF RowStep
  <2>3. ~\E p \in Proc : AgentOf[p] = a /\ CreateUser(p)
    BY <1>1 DEF Sealed, Registering, CreateUser, Step, Idle
  <2>4. QED
    BY <1>1, <2>1, <2>2, <2>3, AccountSteps DEF IInv, Sealed
<1>2. IInv /\ [Next]_vars =>
         [\A a \in Agent : Sealed(a) => /\ Sealed(a)' \/ row'[a] = NoRow
                                        /\ account'[a] \in {account[a], NoProc}]_vars
  BY <1>1
<1>3. QED
  BY <1>2, Inductive, PTL DEF Spec, RevocationSticks

(***************************************************************************)
(* The limiter of registrations.                                           *)
(***************************************************************************)

\* A set of numbers that is not empty has a least element.
LEMMA LeastNumber ==
  ASSUME NEW S, S \subseteq Nat, S # {}
  PROVE  Min(S) \in S /\ \A y \in S : Min(S) <= y
<1> DEFINE R == OpToRel(<, Nat)
<1>1. \E x \in S : \A y \in S : ~(<<y, x>> \in R)
  BY WFMin, NatLessThanWellFounded
<1>2. \A x, y \in Nat : <<y, x>> \in R <=> y < x
  BY DEF OpToRel
<1> HIDE DEF R
<1>3. \E x \in S : \A y \in S : x =< y
  <2>1. PICK x \in S : \A y \in S : ~(<<y, x>> \in R)
    BY <1>1
  <2>2. ASSUME NEW y \in S PROVE x =< y
    <3>1. x \in Nat /\ y \in Nat /\ ~(y < x)
      BY <1>2, <2>1
    <3>2. QED
      BY <3>1
  <2>3. QED
    BY <2>2
<1>4. QED
  BY <1>3 DEF Min

\* Prune takes away a beginning of the sequence, all of it outside the window.
LEMMA PruneDrops ==
  ASSUME NEW ages \in Seq(Nat)
  PROVE  \E j \in 0 .. Len(ages) :
           /\ Prune(ages) \in Seq(Nat) /\ Len(Prune(ages)) = Len(ages) - j
           /\ \A i \in 1 .. Len(ages) - j : Prune(ages)[i] = ages[j + i]
           /\ \A i \in 1 .. j : ages[i] > Window
<1> USE LimiterAssumption
<1> DEFINE live == {i \in DOMAIN ages : ages[i] <= Window}
<1>1. Prune(ages) = IF live = {} THEN <<>> ELSE SubSeq(ages, Min(live), Len(ages))
  BY DEF Prune, FromFirst
<1>2. CASE live = {}
  <2>1. \A i \in 1 .. Len(ages) : ages[i] > Window
    BY <1>2
  <2>2. Prune(ages) \in Seq(Nat) /\ Len(Prune(ages)) = 0
    BY <1>1, <1>2
  <2>3. QED
    BY <2>1, <2>2
<1>3. CASE live # {}
  <2>1. live \subseteq Nat
    OBVIOUS
  <2>2. Min(live) \in live /\ \A y \in live : Min(live) <= y
    BY <1>3, <2>1, LeastNumber
  <2> DEFINE m == Min(live)
  <2>3. m \in 1 .. Len(ages) /\ \A i \in 1 .. m - 1 : ages[i] > Window
    <3>1. m \in 1 .. Len(ages) /\ \A y \in live : m <= y
      BY <2>2
    <3> HIDE DEF m
    <3>2. ASSUME NEW i \in 1 .. m - 1 PROVE ages[i] > Window
      <4>1. i \in DOMAIN ages /\ i < m /\ ages[i] \in Nat
        BY <3>1
      <4>2. i \notin live
        BY <3>1, <4>1
      <4>3. QED
        BY <4>1, <4>2
    <3>3. QED
      BY <3>1, <3>2
  <2> HIDE DEF m, live
  <2>4. Prune(ages) = SubSeq(ages, m, Len(ages))
    BY <1>1, <1>3 DEF m
  <2>5. /\ Prune(ages) \in Seq(Nat) /\ Len(Prune(ages)) = Len(ages) - (m - 1)
        /\ \A i \in 1 .. Len(ages) - (m - 1) : Prune(ages)[i] = ages[(m - 1) + i]
    BY <2>3, <2>4
  <2>6. m - 1 \in 0 .. Len(ages)
    BY <2>3
  <2>7. QED
    BY <2>3, <2>5, <2>6
<1>4. QED
  BY <1>2, <1>3

\* What the limiter has recorded are the last allowed events; the allowed
\* events that it no longer has are outside the window.
Remembers(w, h) ==
    /\ Len(w) <= MaxEvents /\ Len(w) <= Len(h) /\ Len(h) <= MaxEvents + 1
    /\ \A i \in 1 .. Len(w) : w[i] = h[Len(h) - Len(w) + i]
    /\ \A i \in 1 .. Len(h) - Len(w) : h[i] > Window

LimiterIInv ==
    /\ windows \in [LimitKey -> Seq(Nat)] /\ allowedAges \in [LimitKey -> Seq(Nat)]
    /\ \A k \in LimitKey : Remembers(windows[k], allowedAges[k])

\* Pruning forgets only what is outside the window.
LEMMA PruneRemembers ==
  ASSUME NEW w \in Seq(Nat), NEW h \in Seq(Nat), Remembers(w, h)
  PROVE  Prune(w) \in Seq(Nat) /\ Remembers(Prune(w), h)
<1> USE LimiterAssumption
<1>1. PICK j \in 0 .. Len(w) :
           /\ Prune(w) \in Seq(Nat) /\ Len(Prune(w)) = Len(w) - j
           /\ \A i \in 1 .. Len(w) - j : Prune(w)[i] = w[j + i]
           /\ \A i \in 1 .. j : w[i] > Window
  BY PruneDrops
<1> DEFINE q == Prune(w)
<1> HIDE DEF q
<1>2. q \in Seq(Nat) /\ Len(q) = Len(w) - j /\ \A i \in 1 .. Len(q) : q[i] = w[j + i]
  BY <1>1 DEF q
<1>3. /\ Len(w) <= MaxEvents /\ Len(w) <= Len(h) /\ Len(h) <= MaxEvents + 1
      /\ \A i \in 1 .. Len(w) : w[i] = h[Len(h) - Len(w) + i]
      /\ \A i \in 1 .. Len(h) - Len(w) : h[i] > Window
  BY DEF Remembers
<1>4. Len(q) <= MaxEvents /\ Len(q) <= Len(h)
  BY <1>2, <1>3
<1>5. ASSUME NEW i \in 1 .. Len(q) PROVE q[i] = h[Len(h) - Len(q) + i]
  <2>1. j + i \in 1 .. Len(w) /\ Len(h) - Len(w) + (j + i) = Len(h) - Len(q) + i
    BY <1>2, <1>3
  <2>2. w[j + i] = h[Len(h) - Len(w) + (j + i)]
    BY <1>3, <2>1
  <2>3. QED
    BY <1>2, <2>1, <2>2
<1>6. ASSUME NEW i \in 1 .. Len(h) - Len(q) PROVE h[i] > Window
  <2>1. CASE i <= Len(h) - Len(w)
    BY <1>2, <1>3, <2>1
  <2>2. CASE i > Len(h) - Len(w)
    <3> DEFINE x == i - (Len(h) - Len(w))
    <3>1. x \in 1 .. j /\ Len(h) - Len(w) + x = i
      BY <1>2, <1>3, <2>2
    <3> HIDE DEF x
    <3>2. w[x] > Window /\ x \in 1 .. Len(w)
      BY <1>1, <3>1
    <3>3. w[x] = h[i]
      BY <1>3, <3>1, <3>2
    <3>4. QED
      BY <3>2, <3>3
  <2>3. QED
    BY <1>2, <1>3, <2>1, <2>2
<1>7. QED
  BY <1>2, <1>3, <1>4, <1>5, <1>6 DEF Remembers, q

\* An event that is allowed is recorded.
LEMMA AppendRemembers ==
  ASSUME NEW w \in Seq(Nat), NEW h \in Seq(Nat), Remembers(w, h), Len(w) < MaxEvents
  PROVE  LET g == Append(IF Len(h) > MaxEvents THEN Tail(h) ELSE h, 0)
         IN  g \in Seq(Nat) /\ Append(w, 0) \in Seq(Nat) /\ Remembers(Append(w, 0), g)
<1> USE LimiterAssumption
<1> DEFINE d == IF Len(h) > MaxEvents THEN 1 ELSE 0
           b == IF Len(h) > MaxEvents THEN Tail(h) ELSE h
           g == Append(b, 0)
           v == Append(w, 0)
<1>1. /\ Len(w) <= Len(h) /\ Len(h) <= MaxEvents + 1
      /\ \A i \in 1 .. Len(w) : w[i] = h[Len(h) - Len(w) + i]
      /\ \A i \in 1 .. Len(h) - Len(w) : h[i] > Window
  BY DEF Remembers
<1>2. d \in {0, 1} /\ Len(w) <= Len(h) - d /\ Len(h) - d <= MaxEvents
  BY <1>1
<1>3. b \in Seq(Nat) /\ Len(b) = Len(h) - d /\ \A i \in 1 .. Len(b) : b[i] = h[d + i]
  BY <1>1
<1> HIDE DEF d, b
<1>4. g \in Seq(Nat) /\ Len(g) = Len(b) + 1 /\ g[Len(b) + 1] = 0 /\ \A i \in 1 .. Len(b) : g[i] = b[i]
  BY <1>3
<1>5. v \in Seq(Nat) /\ Len(v) = Len(w) + 1 /\ v[Len(w) + 1] = 0 /\ \A i \in 1 .. Len(w) : v[i] = w[i]
  OBVIOUS
<1> HIDE DEF g, v
<1>n. MaxEvents \in Nat /\ Len(w) \in Nat /\ Len(h) \in Nat
  OBVIOUS
<1>l. Len(b) = Len(h) - d /\ Len(g) = Len(b) + 1 /\ Len(v) = Len(w) + 1
  BY <1>3, <1>4, <1>5
<1>6. Len(v) <= MaxEvents /\ Len(v) <= Len(g) /\ Len(g) <= MaxEvents + 1
  BY <1>n, <1>l, <1>2
<1>7. ASSUME NEW i \in 1 .. Len(v) PROVE v[i] = g[Len(g) - Len(v) + i]
  <2>1. CASE i = Len(w) + 1
    <3>1. Len(g) - Len(v) + i = Len(b) + 1
      BY <1>n, <1>l, <1>2, <2>1
    <3>2. QED
      BY <1>4, <1>5, <2>1, <3>1
  <2>2. CASE i # Len(w) + 1
    <3> DEFINE x == Len(g) - Len(v) + i
    <3>1. i \in 1 .. Len(w) /\ x \in 1 .. Len(b) /\ d + x = Len(h) - Len(w) + i
      <4>1. i \in Nat /\ 1 <= i /\ i <= Len(w)
        BY <1>n, <1>l, <2>2
      <4>2. x = Len(h) - d - Len(w) + i
        BY <1>n, <1>l, <1>2, <4>1
      <4> HIDE DEF x
      <4>3. QED
        BY <1>n, <1>l, <1>2, <4>1, <4>2
    <3> HIDE DEF x
    <3>2. g[x] = h[d + x] /\ v[i] = w[i]
      BY <1>3, <1>4, <1>5, <3>1
    <3>3. QED
      BY <1>1, <3>1, <3>2 DEF x
  <2>3. QED
    BY <2>1, <2>2
<1>8. ASSUME NEW i \in 1 .. Len(g) - Len(v) PROVE g[i] > Window
  <2>1. i \in 1 .. Len(b) /\ d + i \in 1 .. Len(h) - Len(w)
    BY <1>n, <1>l, <1>2
  <2>2. QED
    BY <1>1, <1>3, <1>4, <2>1
<1>9. Remembers(v, g)
  BY <1>6, <1>7, <1>8 DEF Remembers
<1>10. QED
  BY <1>4, <1>5, <1>9 DEF g, v, b

\* Time passes for what is recorded as for what was allowed.
LEMMA OlderRemembers ==
  ASSUME NEW w \in Seq(Nat), NEW h \in Seq(Nat), Remembers(w, h)
  PROVE  Older(w) \in Seq(Nat) /\ Older(h) \in Seq(Nat) /\ Remembers(Older(w), Older(h))
<1> USE LimiterAssumption
<1>1. ASSUME NEW s \in Seq(Nat)
      PROVE  /\ Older(s) \in Seq(Nat) /\ Len(Older(s)) = Len(s)
             /\ \A i \in 1 .. Len(s) : Older(s)[i] = IF s[i] > Window THEN s[i] ELSE s[i] + 1
  BY DEF Older
<1> DEFINE v == Older(w)
           g == Older(h)
<1>2. v \in Seq(Nat) /\ Len(v) = Len(w)
  BY <1>1
<1>3. g \in Seq(Nat) /\ Len(g) = Len(h)
  BY <1>1
<1>4. \A i \in 1 .. Len(w) : v[i] = IF w[i] > Window THEN w[i] ELSE w[i] + 1
  BY <1>1
<1>5. \A i \in 1 .. Len(h) : g[i] = IF h[i] > Window THEN h[i] ELSE h[i] + 1
  BY <1>1
<1> HIDE DEF v, g
<1>6. /\ Len(w) \in Nat /\ Len(h) \in Nat
      /\ Len(w) <= MaxEvents /\ Len(w) <= Len(h) /\ Len(h) <= MaxEvents + 1
      /\ \A i \in 1 .. Len(w) : w[i] = h[Len(h) - Len(w) + i]
      /\ \A i \in 1 .. Len(h) - Len(w) : h[i] > Window
  BY DEF Remembers
<1>7. ASSUME NEW i \in 1 .. Len(w) PROVE v[i] = g[Len(h) - Len(w) + i]
  <2> DEFINE x == Len(h) - Len(w) + i
  <2>1. x \in 1 .. Len(h) /\ w[i] = h[x]
    BY <1>6
  <2> HIDE DEF x
  <2>2. v[i] = g[x]
    BY <1>4, <1>5, <2>1
  <2>3. QED
    BY <2>2 DEF x
<1>8. ASSUME NEW i \in 1 .. Len(h) - Len(w) PROVE g[i] > Window
  <2>1. i \in 1 .. Len(h) /\ h[i] > Window
    BY <1>6
  <2>2. QED
    BY <1>5, <2>1
<1>9. Remembers(v, g)
  BY <1>2, <1>3, <1>6, <1>7, <1>8 DEF Remembers
<1>10. QED
  BY <1>2, <1>3, <1>9 DEF v, g

\* Every step keeps what the limiter remembers.
LEMMA LimiterStep == LimiterIInv /\ [Next]_vars => LimiterIInv'
<1> SUFFICES ASSUME LimiterIInv, [Next]_vars PROVE LimiterIInv'
  OBVIOUS
<1>1. CASE UNCHANGED limiterVars
  BY <1>1 DEF limiterVars, LimiterIInv
<1>2. ASSUME NEW k, Allow(k) PROVE LimiterIInv'
  <2>1. CASE k \in LimitKey
    <3> DEFINE q == Prune(windows[k])
               h == allowedAges[k]
               g == Append(IF Len(h) > MaxEvents THEN Tail(h) ELSE h, 0)
    <3>1. q \in Seq(Nat) /\ h \in Seq(Nat) /\ Remembers(q, h)
      BY <2>1, PruneRemembers DEF LimiterIInv
    <3>2. Len(q) < MaxEvents
      BY <1>2 DEF Allow, HasRoom
    <3>3. windows' = [windows EXCEPT ![k] = Append(q, 0)] /\ allowedAges' = [allowedAges EXCEPT ![k] = g]
      BY <1>2 DEF Allow
    <3> HIDE DEF q, h
    <3>4. g \in Seq(Nat) /\ Append(q, 0) \in Seq(Nat) /\ Remembers(Append(q, 0), g)
      BY <3>1, <3>2, AppendRemembers
    <3> HIDE DEF g
    <3>5. QED
      BY <2>1, <3>3, <3>4 DEF LimiterIInv
  <2>2. CASE k \notin LimitKey
    <3>1. windows' = windows /\ allowedAges' = allowedAges
      BY <1>2, <2>2 DEF Allow, LimiterIInv
    <3>2. QED
      BY <3>1 DEF LimiterIInv
  <2>3. QED
    BY <2>1, <2>2
<1>3. ASSUME NEW k, Deny(k) PROVE LimiterIInv'
  <2>1. CASE k \in LimitKey
    <3> DEFINE q == Prune(windows[k])
    <3>1. q \in Seq(Nat) /\ Remembers(q, allowedAges[k])
      BY <2>1, PruneRemembers DEF LimiterIInv
    <3>2. windows' = [windows EXCEPT ![k] = q] /\ allowedAges' = allowedAges
      BY <1>3 DEF Deny
    <3> HIDE DEF q
    <3>3. QED
      BY <2>1, <3>1, <3>2 DEF LimiterIInv
  <2>2. CASE k \notin LimitKey
    <3>1. windows' = windows /\ allowedAges' = allowedAges
      BY <1>3, <2>2 DEF Deny, LimiterIInv
    <3>2. QED
      BY <3>1 DEF LimiterIInv
  <2>3. QED
    BY <2>1, <2>2
<1>4. CASE Tick
  <2>1. /\ windows' = [k \in LimitKey |-> Older(windows[k])]
        /\ allowedAges' = [k \in LimitKey |-> Older(allowedAges[k])]
    BY <1>4 DEF Tick, LimiterTick
  <2>2. \A k \in LimitKey : /\ Older(windows[k]) \in Seq(Nat) /\ Older(allowedAges[k]) \in Seq(Nat)
                            /\ Remembers(Older(windows[k]), Older(allowedAges[k]))
    BY OlderRemembers DEF LimiterIInv
  <2>3. QED
    BY <2>1, <2>2 DEF LimiterIInv
<1>5. ASSUME NEW p \in Proc, LoadUser(p) PROVE LimiterIInv'
  BY <1>1, <1>2, <1>3, <1>5 DEF LoadUser
<1>6. ASSUME NEW p \in Proc, HandlerStep(p), ~LoadUser(p) PROVE UNCHANGED limiterVars
  BY <1>6 DEF HandlerStep, LookUpAgent, CreateUser, SetVhostPermissions, CloseUserConnections,
              UpdateAgentStatus, Respond
<1>7. ASSUME NEW p \in Proc, ProcessStep(p) \/ StartProcess(p) \/ RegistrationFails(p) \/ ConnectionLost(p)
      PROVE  UNCHANGED limiterVars
  BY <1>7 DEF ProcessStep, Retry, Dial, RunEnds, StartProcess, RegistrationFails, ConnectionLost
<1>8. ASSUME NEW a \in Agent, \/ ProvisionAgent(a) \/ RotateAgentToken(a) \/ RevokeAgent(a)
                              \/ HandleDeleteAgent(a) \/ DeleteRMQUser(a)
      PROVE  UNCHANGED limiterVars
  BY <1>8 DEF ProvisionAgent, RotateAgentToken, RevokeAgent, HandleDeleteAgent, DeleteBegins, DeleteRMQUser
<1>9. ASSUME NEW u \in User, UpdateUser(u) \/ CreateUserRow(u) \/ HandleDeleteUser(u)
      PROVE  UNCHANGED limiterVars
  BY <1>9 DEF UpdateUser, CreateUserRow, HandleDeleteUser, DeleteBegins
<1>10. CASE DeleteRows
  BY <1>1, <1>10 DEF DeleteRows
<1>11. CASE UNCHANGED vars
  BY <1>1, <1>11 DEF vars
<1>12. QED
  BY <1>1, <1>4, <1>5, <1>6, <1>7, <1>8, <1>9, <1>10, <1>11 DEF Next

\* For every window and limit, and however the registrations of any number of
\* processes interleave with time: no token is allowed more than MaxEvents
\* registrations in a window (Limiter.allowAt, prune).
THEOREM RegistrationsAreLimited == Spec => []AtMostMaxPerWindow
<1>1. Init => LimiterIInv
  <2>1. <<>> \in Seq(Nat) /\ Len(<<>>) = 0
    OBVIOUS
  <2>2. Remembers(<<>>, <<>>)
    BY <2>1, LimiterAssumption DEF Remembers
  <2>3. QED
    BY <2>1, <2>2 DEF Init, LimiterInit, LimiterIInv
<1>2. LimiterIInv => AtMostMaxPerWindow
  BY LimiterAssumption DEF LimiterIInv, Remembers, AtMostMaxPerWindow
<1>3. QED
  BY <1>1, <1>2, LimiterStep, PTL DEF Spec
================================================================================
