------------------------------ MODULE Scheduler ------------------------------
(***************************************************************************)
(* Cron jobs and one-shot at jobs: the job rows in the datastore, the      *)
(* scheduler that mirrors them in memory (internal/channels/cron), the     *)
(* agent and admin endpoints that add and remove them                      *)
(* (internal/gateway/agent_cron_handler.go, agent_at_handler.go,           *)
(* internal/admin/at.go) and the agent tools that call these endpoints.    *)
(*                                                                         *)
(* An endpoint changes the datastore and then the scheduler; the callback  *)
(* of an at job fires it, then cleans the scheduler, then the datastore,   *)
(* each time by the job's key.  A start reads the cron rows, loads the at  *)
(* jobs, serves the API and loads the cron rows it had read.  An instance  *)
(* number tells the jobs that were added under one key apart; the code has *)
(* no such thing.                                                          *)
(***************************************************************************)
EXTENDS Naturals

CONSTANTS Job, AtJob,   \* keys (user and id) of jobs, and those of one-shot jobs
          ConfigJob,    \* cron jobs of the configuration file
          Client,       \* concurrent API requests
          MaxInstance,  \* bound on the jobs ever added under a key
          MaxStops      \* bound on restarts and deletions of the user

ASSUME SchedulerAssumption ==
    /\ AtJob \subseteq Job /\ ConfigJob \subseteq Job \ AtJob
    /\ MaxInstance \in Nat \ {0} /\ MaxStops \in Nat

VARIABLES jobRow,    \* datastore: key -> instance, 0 if there is no row
          jobEntry,  \* scheduler map (entryIDs, atTimers): key -> instance or 0
          timers,    \* live cron entries and pending timers, <<key, instance>>
          callbacks, \* at callbacks under way, [job, inst, stage]
          passed,    \* at instances whose run_at has passed
          added,     \* key -> instances added so far
          request,   \* client -> what its handler does next
          boot,     \* how far the gateway has come up
          listed,    \* cron jobs the start has read and not loaded: key -> instance or 0
          stops,
          fired,     \* history: at instances fired, and those fired twice
          upset      \* history: keys a change of which met another one

schedulerVars == <<jobRow, jobEntry, timers, callbacks, passed, added, request,
                   boot, listed, stops, fired, upset>>

\* The phases of a process: the cron rows are read, the at jobs loaded, the
\* API served, and last the cron jobs loaded.
BootPhase == {"down", "listed", "loaded", "open", "up"}
Serving == {"open", "up"}

NoRequest == [op |-> "none"]
Ask(op, j, i) == [op |-> op, job |-> j, inst |-> i]

SchedulerInit ==
    /\ jobRow = [j \in Job |-> 0]
    /\ jobEntry = [j \in Job |-> 0]
    /\ timers = {} /\ callbacks = {} /\ passed = {}
    /\ added = [j \in Job |-> 0]
    /\ request = [c \in Client |-> NoRequest]
    /\ boot = "down"
    /\ listed = [j \in Job |-> 0]
    /\ stops = 0
    /\ fired = [once |-> {}, twice |-> {}]
    /\ upset = {}

\* Another request or a callback is at work on the key.
Busy(j) ==
    \/ \E c \in Client : request[c].op \in {"schedule", "rollback", "unschedule"} /\ request[c].job = j
    \/ \E b \in callbacks : b.job = j

Goes(c, r) == request' = [request EXCEPT ![c] = r]
Meets(j) == upset' = IF Busy(j) THEN upset \cup {j} ELSE upset

(***************************************************************************)
(* Adding and removing a job.                                              *)
(***************************************************************************)

\* The agent's tools post a request; the gateway may be down or out of reach.
Requests(c, op, j) ==
    /\ request[c] = NoRequest
    /\ Goes(c, Ask(op, j, 0))
    /\ UNCHANGED <<jobRow, jobEntry, timers, callbacks, passed, added, boot, listed, stops,
                   fired, upset>>
ExecCronAddJob(c, j) == j \in Job \ AtJob /\ added[j] < MaxInstance /\ Requests(c, "add", j)
ExecAtAddJob(c, j) == j \in AtJob /\ added[j] < MaxInstance /\ Requests(c, "add", j)
ExecCronRemoveJob(c, j) == j \in Job \ AtJob /\ Requests(c, "remove", j)
ExecAtRemoveJob(c, j) == j \in AtJob /\ Requests(c, "remove", j)
\* No connection, or an answer that changes nothing: the key is taken (409),
\* or there is no such job (404).
RequestEnds(c) ==
    /\ request[c].op \in {"add", "remove"}
    /\ Goes(c, NoRequest)
    /\ UNCHANGED <<jobRow, jobEntry, timers, callbacks, passed, added, boot, listed, stops,
                   fired, upset>>

\* The row is inserted; the key is unique per user.
InsertRow(c, j) ==
    /\ boot \in Serving /\ request[c] = Ask("add", j, 0)
    /\ jobRow[j] = 0 /\ added[j] < MaxInstance
    /\ jobRow' = [jobRow EXCEPT ![j] = added[j] + 1]
    /\ added' = [added EXCEPT ![j] = @ + 1]
    /\ Goes(c, Ask("schedule", j, added[j] + 1))
    /\ Meets(j)
    /\ UNCHANGED <<jobEntry, timers, callbacks, passed, boot, listed, stops, fired>>
HandleAddCron(c, j) == j \in Job \ AtJob /\ InsertRow(c, j)
HandleAddAt(c, j) == j \in AtJob /\ InsertRow(c, j)

\* Refused when the key is taken, an at job also when its time has passed.
Schedulable(j, i) == jobEntry[j] = 0 /\ <<j, i>> \notin passed

Enter(j, i) ==
    /\ jobEntry' = [jobEntry EXCEPT ![j] = i]
    /\ timers' = timers \cup {<<j, i>>}
    /\ UNCHANGED <<jobRow, callbacks, passed, added, boot, listed, stops, fired, upset>>
AddCronJob(c, j, i) ==
    /\ request[c] = Ask("schedule", j, i) /\ j \notin AtJob /\ Schedulable(j, i)
    /\ Enter(j, i) /\ Goes(c, NoRequest)
AddAtJob(c, j, i) ==
    /\ request[c] = Ask("schedule", j, i) /\ j \in AtJob /\ Schedulable(j, i)
    /\ Enter(j, i) /\ Goes(c, NoRequest)
AddRefused(c, j, i) ==
    /\ request[c] = Ask("schedule", j, i) /\ ~Schedulable(j, i)
    /\ Goes(c, Ask("rollback", j, i))
    /\ UNCHANGED <<jobRow, jobEntry, timers, callbacks, passed, added, boot,
                   listed, stops, fired, upset>>

\* The handler takes its row back, by key.
Rollback(c, j, i) ==
    /\ request[c] = Ask("rollback", j, i)
    /\ jobRow' = [jobRow EXCEPT ![j] = 0]
    /\ Goes(c, NoRequest)
    /\ UNCHANGED <<jobEntry, timers, callbacks, passed, added, boot, listed, stops, fired, upset>>

DeleteRow(c, j) ==
    /\ boot \in Serving /\ request[c] = Ask("remove", j, 0) /\ jobRow[j] # 0
    /\ jobRow' = [jobRow EXCEPT ![j] = 0]
    /\ Goes(c, Ask("unschedule", j, jobRow[j]))
    /\ Meets(j)
    /\ UNCHANGED <<jobEntry, timers, callbacks, passed, added, boot, listed, stops, fired>>
HandleRemoveCron(c, j) == j \in Job \ AtJob /\ DeleteRow(c, j)
HandleRemoveAt(c, j) == j \in AtJob /\ DeleteRow(c, j)

\* Mutant: the scheduler is not told.
LeaveScheduled(c, j, i) ==
    /\ request[c] = Ask("unschedule", j, i)
    /\ Goes(c, NoRequest)
    /\ UNCHANGED <<jobRow, jobEntry, timers, callbacks, passed, added, boot, listed, stops,
                   fired, upset>>

\* Whatever instance the key has by now is stopped and forgotten; a callback
\* that has started goes on.  A job that the start has listed and not loaded
\* is unknown to the scheduler: it will be loaded all the same.
RemoveJob(c, j, i) ==
    /\ request[c] = Ask("unschedule", j, i)
    /\ jobEntry' = [jobEntry EXCEPT ![j] = 0]
    /\ timers' = timers \ {<<j, jobEntry[j]>>}
    /\ Goes(c, NoRequest)
    /\ upset' = IF listed[j] # 0 THEN upset \cup {j} ELSE upset
    /\ UNCHANGED <<jobRow, callbacks, passed, added, boot, listed, stops, fired>>

(***************************************************************************)
(* Firing.                                                                 *)
(***************************************************************************)

TimePasses(j, i) ==
    /\ j \in AtJob /\ i \in 1 .. added[j] /\ <<j, i>> \notin passed
    /\ passed' = passed \cup {<<j, i>>}
    /\ UNCHANGED <<jobRow, jobEntry, timers, callbacks, added, request, boot, listed, stops,
                   fired, upset>>

\* fireAtJob hands the prompt to the router, outside the mutex.
FireAtJob(j, i) ==
    /\ <<j, i>> \in timers \cap passed
    /\ timers' = timers \ {<<j, i>>}
    /\ callbacks' = callbacks \cup {[job |-> j, inst |-> i, stage |-> "fired"]}
    /\ fired' = IF <<j, i>> \in fired.once
                THEN [fired EXCEPT !.twice = @ \cup {<<j, i>>}]
                ELSE [fired EXCEPT !.once = @ \cup {<<j, i>>}]
    /\ upset' = IF Busy(j) THEN upset \cup {j} ELSE upset
    /\ UNCHANGED <<jobRow, jobEntry, passed, added, request, boot, listed, stops>>

\* The callback cleans up by key: the map first, then the row.
CleanScheduler(b) ==
    /\ b \in callbacks /\ b.stage = "fired"
    /\ jobEntry' = [jobEntry EXCEPT ![b.job] = 0]
    /\ callbacks' = (callbacks \ {b}) \cup {[b EXCEPT !.stage = "cleaned"]}
    /\ UNCHANGED <<jobRow, timers, passed, added, request, boot, listed, stops, fired, upset>>
CleanRow(b) ==
    /\ b \in callbacks /\ b.stage = "cleaned"
    /\ jobRow' = [jobRow EXCEPT ![b.job] = 0]
    /\ callbacks' = callbacks \ {b}
    /\ UNCHANGED <<jobEntry, timers, passed, added, request, boot, listed, stops, fired, upset>>

\* A cron entry fires and stays.
FireJob(j) ==
    /\ boot = "up" /\ j \notin AtJob
    /\ \E i \in 1 .. MaxInstance : <<j, i>> \in timers
    /\ UNCHANGED schedulerVars

(***************************************************************************)
(* Start, stop, and the deletion of the user.                              *)
(***************************************************************************)

\* The cron rows are read.  An empty table is seeded from the configuration
\* (stored: the jobs whose row can be inserted) and read again; when there is
\* nothing to load, or reading failed, the configured jobs are loaded, with
\* or without a row.
ListCronJobs(stored, read) ==
    LET empty == \A j \in Job \ AtJob : jobRow[j] = 0
        fallback == ~read \/ (empty /\ stored = {})
        new == stored \cup (IF fallback THEN ConfigJob ELSE {})
    IN  /\ boot = "down"
        /\ stored # {} => empty
        /\ \A j \in new : added[j] < MaxInstance
        /\ boot' = "listed"
        /\ added' = [j \in Job |-> IF j \in new THEN added[j] + 1 ELSE added[j]]
        /\ jobRow' = [j \in Job |-> IF j \in stored THEN added[j] + 1 ELSE jobRow[j]]
        /\ listed' = [j \in Job |-> IF j \in new THEN added[j] + 1
                                   ELSE IF fallback \/ j \in AtJob THEN 0 ELSE jobRow[j]]
        /\ upset' = upset \cup (new \ stored)
        /\ UNCHANGED <<jobEntry, timers, callbacks, passed, request, stops, fired>>

\* Mutant: expired at jobs are scheduled again, and a timer whose delay is
\* not positive fires at once.
LoadExpired(j) == jobRow[j] # 0
\* An at job whose time has passed is not loaded.
Loadable(j) == jobRow[j] # 0 /\ <<j, jobRow[j]>> \notin passed

\* The at rows are read and scheduled, expired ones removed.  Jobs of a user
\* that is gone or disabled are skipped and keep their rows; so do all when
\* they cannot be read.
LoadAtJobs(valid, expired) ==
    /\ boot = "listed"
    /\ \A j \in valid : Loadable(j)
    /\ \A j \in expired : <<j, jobRow[j]>> \in passed
    /\ boot' = "loaded"
    /\ jobRow' = [j \in Job |-> IF j \in expired THEN 0 ELSE jobRow[j]]
    /\ jobEntry' = [j \in Job |-> IF j \in valid THEN jobRow[j] ELSE 0]
    /\ timers' = {<<j, jobRow[j]>> : j \in valid}
    /\ UNCHANGED <<callbacks, passed, added, request, listed, stops, fired, upset>>

\* The admin API is served from the beginning and is given the scheduler
\* only after the at jobs are loaded: until then it changes rows alone.
AdminWithoutScheduler(j) ==
    /\ boot \in {"listed", "loaded"} /\ j \in AtJob
    /\ \/ /\ jobRow[j] = 0 /\ added[j] < MaxInstance
          /\ jobRow' = [jobRow EXCEPT ![j] = added[j] + 1]
          /\ added' = [added EXCEPT ![j] = @ + 1]
       \/ /\ jobRow[j] # 0
          /\ jobRow' = [jobRow EXCEPT ![j] = 0]
          /\ UNCHANGED added
    /\ upset' = IF jobEntry[j] # 0 \/ Busy(j) THEN upset \cup {j} ELSE upset
    /\ UNCHANGED <<jobEntry, timers, callbacks, passed, request, boot, listed, stops, fired>>

\* The admin API gets the scheduler and the HTTP server starts.
OpenServer ==
    /\ boot = "loaded" /\ boot' = "open"
    /\ UNCHANGED <<jobRow, jobEntry, timers, callbacks, passed, added, request, listed, stops,
                   fired, upset>>

\* The cron adapter starts: the jobs listed before are scheduled, whatever
\* became of their rows, except those of a user that is gone or disabled.
LoadJobs(valid) ==
    /\ boot = "open"
    /\ \A j \in valid : listed[j] # 0
    /\ boot' = "up"
    /\ jobEntry' = [j \in Job |-> IF j \in valid THEN listed[j] ELSE jobEntry[j]]
    /\ timers' = timers \cup {<<j, listed[j]>> : j \in valid}
    /\ listed' = [j \in Job |-> 0]
    /\ UNCHANGED <<jobRow, callbacks, passed, added, request, stops, fired, upset>>

\* The process ends: timers, callbacks and handlers go with it, and what they
\* left in disorder.
Stop ==
    /\ boot # "down" /\ stops < MaxStops
    /\ boot' = "down" /\ stops' = stops + 1
    /\ jobEntry' = [j \in Job |-> 0]
    /\ listed' = [j \in Job |-> 0]
    /\ timers' = {} /\ callbacks' = {}
    /\ request' = [c \in Client |-> NoRequest]
    /\ upset' = {}
    /\ UNCHANGED <<jobRow, passed, added, fired>>

\* The rows go with the user (ON DELETE CASCADE); the scheduler is not told.
UserDeleted ==
    /\ boot # "down" /\ stops < MaxStops
    /\ stops' = stops + 1
    /\ jobRow' = [j \in Job |-> 0]
    /\ upset' = Job
    /\ UNCHANGED <<jobEntry, timers, callbacks, passed, added, request, boot, listed, fired>>

SchedulerNext ==
    \/ \E c \in Client : RequestEnds(c)
    \/ \E c \in Client, j \in Job :
          \/ ExecCronAddJob(c, j) \/ ExecAtAddJob(c, j)
          \/ ExecCronRemoveJob(c, j) \/ ExecAtRemoveJob(c, j)
          \/ HandleAddCron(c, j) \/ HandleAddAt(c, j)
          \/ HandleRemoveCron(c, j) \/ HandleRemoveAt(c, j)
          \/ \E i \in 1 .. MaxInstance :
                \/ AddCronJob(c, j, i) \/ AddAtJob(c, j, i) \/ AddRefused(c, j, i)
                \/ Rollback(c, j, i) \/ RemoveJob(c, j, i)
    \/ \E j \in Job : FireJob(j) \/ \E i \in 1 .. MaxInstance : TimePasses(j, i) \/ FireAtJob(j, i)
    \/ \E b \in callbacks : CleanScheduler(b) \/ CleanRow(b)
    \/ \E stored \in SUBSET ConfigJob, read \in BOOLEAN : ListCronJobs(stored, read)
    \/ \E valid, expired \in SUBSET AtJob : LoadAtJobs(valid, expired)
    \/ \E j \in Job : AdminWithoutScheduler(j)
    \/ OpenServer
    \/ \E valid \in SUBSET (Job \ AtJob) : LoadJobs(valid)
    \/ Stop \/ UserDeleted

SchedulerTypeOK ==
    /\ jobRow \in [Job -> 0 .. MaxInstance]
    /\ jobEntry \in [Job -> 0 .. MaxInstance]
    /\ listed \in [Job -> 0 .. MaxInstance]
    /\ boot \in BootPhase
    /\ timers \subseteq Job \X (1 .. MaxInstance)
    /\ passed \subseteq AtJob \X (1 .. MaxInstance)
    /\ callbacks \subseteq [job : AtJob, inst : 1 .. MaxInstance, stage : {"fired", "cleaned"}]
    /\ upset \subseteq Job /\ stops \in 0 .. MaxStops

\* A one-shot job fires at most once, also when the gateway stops between the
\* firing and the clean-up and loads the row again (scheduleAtJob, LoadAtJobs).
AtFiresAtMostOnce == fired.twice = {}

\* While nothing is at work on a key, what the scheduler would fire for it is
\* the stored job and is known to the map, so that it can be listed and
\* removed (HandleAdd, HandleRemove, scheduleAtJob, LoadJobs).  Not so, until
\* the next restart, when a change of the key met another one or the firing;
\* when the user was deleted; when a configured job is loaded because the rows
\* could not be read or its own not stored; when a cron job is removed after
\* the start has read the rows and before it loads them; and when the admin
\* API removes a one-shot job before it is given the scheduler.
WhatFiresIsStored ==
    \A j \in Job \ upset, i \in 1 .. MaxInstance :
        ~Busy(j) /\ <<j, i>> \in timers => jobRow[j] = i /\ jobEntry[j] = i
=============================================================================
