# Open-Nipper in TLA+

A verification project for Open-Nipper: a gateway that takes messages from
channels (WhatsApp, Slack, MQTT, RabbitMQ, cron), queues them per user in
RabbitMQ, and delivers the answers of the user's agent back; and the agent, which
keeps a transcript per conversation and calls a language model.

Files: `*.tla` modules, `MC*.tla` and `MC*.cfg` instances for TLC, `*_proofs.tla`
proofs for TLAPS, `PROJECT.json` the inventory of runs, theorems, hazards and the
correspondence of definitions to source lines.

## The system

```
 channel --request--> Router --> Registry (FIFO of delivery contexts per session)
                        |  \--> Deduplicator
                        |  \--> collect buffers --flush-->\
                        \------------------ publish ----> agent queue (per user)
                                                              |
   channel <--deliver-- Dispatcher <-- event queue <--done-- Agent --> session files
```

| Component | State | Operations | What is hard | Module |
|---|---|---|---|---|
| Router (`gateway/router.go`) | none of its own; one goroutine per request | admit, register context, dedup, publish or collect, interrupt | steps of several requests interleave; each step may fail after the earlier ones took effect | Gateway |
| Collect buffers (`router.go`) | map of buffers, one timer each | `enqueueCollect`, timer, `flushCollectBuffer` | timers, flush goroutines and arrivals race; a flush is bound to a key, not to a buffer | CollectBuffer |
| Registry (`gateway/registry.go`) | FIFO per session | `Register`, `Lookup`, `Consume` | answers are matched to messages by position only | Registry |
| Deduplicator (`gateway/dedup.go`) | expiry per key | `IsDuplicate`, cleanup | retries racing the window and the cleanup | Deduplicator |
| Queue (`queue/`) | user queues, event queue; two connections | publish, consume, ack; watch, reconnect, close | overflow without confirms, TTL, redelivery; reconnect racing close | Gateway, Broker |
| Webhooks, normalizers, targets (`gateway/webhook.go`, `channels/*`) | none | verify, normalize, choose the target | one person has several addresses; the program's own posts come back | Inbound |
| Channel connections (`channels/rabbitmq`, `channels/mqtt`) | connection, subscriptions | connect, subscribe, settle, reconnect | losses during a recovery; a redelivery is a duplicate, or is no longer known as one | BrokerChannels |
| Dispatcher and delivery (`gateway/dispatcher.go`, `channels/*/delivery.go`) | accumulators, typing flags | `HandleEvent`, chunks, retries, broadcast, cleanup | redelivered events, events without context, the cleanup loop beside a turn | Gateway, Delivery |
| Agent runtime (`agent/runtime.go`, `commands.go`, `usage.go`, `tooldedup.go`) | delivery at hand, tool-call counts, usage per session | receive, prepare, generate, recover, report, settle; `/new`, `/compact`; auto-compaction | crash between report and ack, paths without an answer, recoveries that repeat calls, a window measured one turn late | Gateway, AgentTurn, ContextWindow |
| Session store (`pkg/session`) | transcript, archives, metadata, lock file | append, compact, archive, create | crash between file operations, leftover locks, two processes, stale metadata | SessionStore, SharedSession |
| Cron scheduler (`channels/cron`, agent and admin endpoints) | jobs, one-shot timers, rows | add, remove, fire, load | timer callback racing removal and re-creation; restart between firing and clean-up | Scheduler |
| Registration, admin API, agent process (`gateway/register.go`, `admin/`, `cli/agent.go`) | rows, RabbitMQ accounts, connections | register, provision, rotate, revoke, delete; dial, reconnect | every handler is many calls, any of which may fail or be overtaken | ControlPlane |
| Rate limiter (`ratelimit/`) | events per token | `Allow` | window boundary, pruning only when asked | RateLimiter |
| Health (`gateway/healthmon.go`, `heartbeat_store.go`) | status and heartbeat per agent | check, record, age | reads fail one by one; agents change during a check | HealthMonitor |
| Lifecycle (`cli/serve.go`, `lifecycle/`) | parts by phase | start, shut down | a part that does not stop; a part used after it stopped | Lifecycle |
| MCP (`agent/mcp`) | sessions, tools bound to them | connect, ping, reconnect, call | reconnects overlap; tools outlive their session | MCPLoader |
| OIDC (`agent/mcp/oidc`) | token file and cache | ensure, refresh, authorize, save | rotating refresh tokens, concurrent refresh, crash before save | TokenProvider |
| Sandbox and skills (`agent/sandbox`, `agent/skills`) | container, staging directory | create, execute, clean up | executions share files by name | Sandbox |
| Datastore cache, security, configuration, telemetry, most tools | see *Not modelled* | | | |

What makes the parts correct: no message is lost, duplicated or reordered inside
the gateway's own memory; an answer goes, whole, to the message it answers, and never
to another conversation; retries within the window are processed once; a turn ends with
one outcome; the transcript loses nothing that was written and its prompt fits the
model; every delivery is eventually settled; a revoked agent stays out; what is lost is
connected again; what is shut down ends.

## Modules

**CollectBuffer** models collect mode in full. `EnqueueCollect` is the critical
section of `enqueueCollect`, `TimerFires` the callback of `time.AfterFunc`,
`FlushFindsNothing` and `FlushTakes` the critical section of
`flushCollectBuffer`, `PublishBatch` and `PublishBatchFails` what follows it outside
the mutex, `Restart` the end of the process. A buffer is `<<>>` when the map has none
(the code never keeps an empty one). Buffers of a key are numbered by `gen`, so that a
timer can be told from the timer of a later buffer; the code does not see the number.

**Batching** is the abstract specification of collect mode: messages are accepted
one at a time; a batch is everything accepted for its key since the last one, in
order. CollectBuffer implements it (`ImplementsBatching`): which flush takes a buffer
only decides when a batch is cut.

**Registry** and **Deduplicator** are the two in-memory components; each method
holds its mutex and is one action.

**Gateway** composes these three with the router, the broker's queues, the agent and
the dispatcher. A request goes through
`idle -> registered -> accepted -> ok | signal | enqueued`, or ends `rejected`,
`duplicate`, `error`, `killed`; every arrow is one access to shared state.
Steps 1 to 4 of `handleNormalizedMessage` touch no shared state the model has and are
one guard (`Admitted`). A queue item is the sequence of its requests, the last of which
is its primary message, the only one the agent works on (`runtime.go:493`). Agent
events carry the session key only; the field `about` is history, which the dispatcher
does not use. `skewed` is history too: the sessions for which one of the following has
happened, each at the action that adds it: a duplicate, a failed or silently lost
publish, a batch of several messages, a publish that overtakes an older entry, an item
that expires, an agent that fails without an event, an error event in the middle of a turn
(`AgentToolErrors`: a native tool failed), a redelivery after the report, a lost ack, a
restart. `Outstanding` is the order in which the dispatcher will see the
answers of a session: those reported, the one at work, those queued; `OfSession` picks a
session's requests by a recursive function, so that it can be reasoned about.

**SessionStore** models one session on disk and the agent working on it: the turn of
`handleMessage` as far as it touches the session, `/new` and `/compact`. `pc` is the
next file operation. The lock file is `none`, `held` or `done` (the running agent's,
before and after its write), `orphan` (a dead process's) or `stale`. Lines are named
by turn, attempt and role. `exists` tells a missing transcript from an empty one:
`ArchiveSession` replaces an archive in the second case only. Left out: temporary
files (the next compaction truncates its own, the lock's are random), the session
index (written, never read), short writes.

**Journal** is the abstract specification of a session: an append-only journal of which
the agent reads the most recent part. The part grows at its end with the journal and
shrinks at its beginning only; an entry leaves it once it is on the shelf, and does not
come back. SessionStore implements it (`ImplementsJournal`), with all lines ever written
as the journal, the transcript as the part that is read and the archives, those that a
rename has replaced included, as the shelf.

**SharedSession** is the same store with two processes and one step per system call:
the hard-link lock with its stale detection, the append, and the compaction with its
temporary file. Names and files are apart, so that a process can hold a file whose name
has gone to another. A crash in a write leaves half a line; `torn` are the files that end in one.
An archive of `/new` is named by the second: `latest` is that of the present one, which the
next `/new` replaces unless `SecondPasses` comes first.

**ContextWindow** follows the size of a session's prompt: the probe's answer or the
configuration as the window, the usage a server reports, auto-compaction before a turn,
tool results and failed turns within it, `/new`, `/compact`, restarts. The system prompt and
the tools are made anew for every turn, and `base` is any of `Bases`; `counted` is what they
were when the tracker last heard of a prompt. Sizes are added up by a recursive function
(`Sums`, `TotalSize`).

**AgentTurn** is one message inside the agent: which tools are bound (skills matched by
keywords or embeddings, lean mode), up to three attempts with the recovery the kind of
failure calls for (images dropped, agent rebuilt, hint added, backoff), the counting
wrapper around the tools, the cleaning of the answer, the terminal events.

**Inbound** follows one payload of WhatsApp, Slack, MQTT or RabbitMQ from the webhook's
checks through the normalizer to the address its answer is posted to, and what the
channel reports back for that post. People, groups, Slack users, conversations, threads,
users and addresses are constants; a payload remembers who wrote it and where, which the
code does not see except through the fields the channel fills in. **Delivery** follows the events of a session's turns
to what the user sees: accumulated deltas, chunks (`CutChunk` is an iteration of the loop
of `SplitTextChunks`), the attempts of `deliverWithRetry`,
broadcasts, typing reactions, and the cleanup loop that runs beside them.

**Scheduler** has the rows, the scheduler's maps and timers, the add and remove
endpoints (datastore first, then scheduler, with a rollback), the agent tools that call
them, the callback of a one-shot job in its three steps, and restarts. A start has the
phases of `runServe`: the cron rows are read (`ListCronJobs`), the at jobs loaded
(`LoadAtJobs`), the API served (`OpenServer`), and last the cron jobs loaded that were read at the
beginning (`LoadJobs`); the admin API is there before it is given the scheduler
(`AdminWithoutScheduler`). Jobs added under one key are told apart by an instance number the
code does not have.

**ControlPlane** (with **RateLimiter**) has the rows, the RabbitMQ accounts and
connections, the admin handlers, the registration handler and the agent processes. Every
call to the datastore or the management API is a step. A password is named by the process
whose registration generated it. The limiter drops the expired beginning of a token's
events, as `Allow` does, and the history keeps the last `MaxEvents` + 1 allowed ones.

**BrokerChannels** is one adapter, RabbitMQ or MQTT, in one queue mode, with or without the
redialling that MQTT does only if `Reconnect.Enabled` is set, and the inbox of one of its users.
`muted` is an AMQP channel that a refused subscription has closed under an open connection. A
delivery is taken in by the deduplicator, whose entry lasts 30 seconds (`Forgets`), and is
published or put into the collect buffer (`buffered`), which is acknowledged first and
flushed later. A loss gives unsettled deliveries back to the broker while their handlers go on
publishing (`orphans`). `GatewayRestarts` empties what is in memory.

**Lifecycle** starts the parts in the order of `runServe` and stops them by phase. `Uses` are
the calls between parts, all of them; `Reversed` those to a part that stops first or in the
same phase. A stop function either ends the work of its part (`Awaited`) or only tells it to
end, and then the part may stay `alive` after it has `halted`.

**TokenProvider** has the token file, the cache and, per goroutine, the refresh, authorization
or save it is at. A server may or may not replace refresh tokens, and its answer may be lost
after it has (`RefreshAnswerLost`). **Sandbox** has the container, the staging directory and the
executions. Docker, the writes and the removals, whose errors the code ignores, may fail.
The end of `docker exec` counts as the end of its command; on a timeout only the docker
client is killed, and a command that goes on in the container is not followed further.

**HealthMonitor**, **Broker** and **MCPLoader** model the components of the table; each
module's opening comment says what its state stands for.

`MCParts` and `MCLiveParts` check modules that do not meet in one question side by side:
a behaviour picks one part and leaves the others in an initial state, so the state space
is the sum of theirs. The constant `Checked` of `MCLiveParts` names the parts
that a run picks from. `MCCollectBuffer`, `MCGateway`, `MCSessionStore` and
`MCControlPlane` are instances of one module each.

## Runs

| Run | Instance | Shows |
|---|---|---|
| `collect` | 3 messages of one key, 1 of another, cap 2 | `NoStrandedBuffer`, `ExactlyOnePlace`, `ImplementsBatching`, and under fairness `EnqueuedIsEventuallyFlushed` |
| `gateway_queue` | a message and its retry, a second message in interrupt mode, one session; queue of 1; 1 fault; clock of 3 ticks | `OneReplyPerContext`, `OncePerWindow` |
| `gateway_collect` | two conversations sharing a buffer, a cron message; 1 fault | `RepliesStayInSession`, `AlignedUnlessDisturbed`, and under fairness `AcceptedIsAnswered` |
| `session` | two chats, `/compact`, `/new` in any order; keep 1 line; 1 fault; 2 seconds | `ImplementsJournal`, `LinesAreKept`, `OnePlaceUnlessFault`, `MissedOnlyAfterFault`, and under fairness `EveryTurnSettles` |
| `control` | two processes of one agent, two tokens, one registration per window, 2 admin requests, failures or losses | `NoOrphanAccount`, `OldConnectionsAreCut`, `RevocationSticks`, `AtMostMaxPerWindow`, and under fairness `LoneAgentConnects` |
| `parts` | see below | Scheduler: `AtFiresAtMostOnce`, `WhatFiresIsStored`; Delivery: `AnswersArriveWhole`, `TypingEnds`; Inbound: `AnswersGoHome`; AgentTurn: `OneOutcomePerTurn`, `RepeatsAreBounded`; TokenProvider: `KeptTokensAreHonoured`; Sandbox: `NothingLeftBehind`, `SecretsReachTheSkill`; SharedSession: `LinesOutliveProcesses`; ContextWindow: `PromptsFitTheWindow` |
| `live_parts` | see below | Broker: `ClosedExceptLate`, `BrokerRecovers`; Lifecycle: `UsedPartsRun`, `ShutdownEnds`; BrokerChannels: `AckedMeansRouted`, `ChannelRecovers`; HealthMonitor: `HealthViewCatchesUp`; MCPLoader: `ToolsAreLive`, `ServersComeBack` |
| `collect_cap` | as `collect` | violated: `BatchWithinCap` |
| `gateway_fifo` | as `gateway_queue`, no fault | violated: `FirstResponseMatchesFirstMessage` |
| `session_archive` | one chat, two `/new`, no fault | violated: `HistoryIsArchived` |
| `session_meta` | two chats, no fault | violated: `MetaCountsCompactions` |
| `mcp_retry` | the MCP part of `live_parts`, one session more | violated: `RetryIsFresh` |

The violated properties state what a comment, a document or the program's own answer
says; `PROJECT.json` quotes them under `findings`:

* `/new` twice within a second destroys the archived conversation: the archive's name
  has the resolution of a second and the rename replaces.
* The turn that triggers an auto-compaction writes back the metadata it read before it.
* The registry's FIFO does not match the first response with the first message once a
  message was suppressed, lost, batched or overtaken.
* `collectCap` is not a maximum.
* The retry of an MCP tool call after a reconnect goes through the session that the
  reconnect has closed.

Many properties name the exceptions the code leaves open; a behaviour that meets one
sets a history variable, and the property holds for all the others. They are worth
knowing:

* A registration under way undoes a revocation; one that meets a deletion can leave an
  account without a row (`RevocationSticks`, `NoOrphanAccount`).
* Two changes of one job key, or a change and the firing, can leave a timer that is not
  in the map (`WhatFiresIsStored`); deleting a user leaves its jobs scheduled. A cron job
  removed after the start has read the rows and before it loads them is loaded without a row,
  and so stays a one-shot job that the admin API removes before it has the scheduler.
* The cleanup loop, or a done event without a context, spoils the accumulator or the
  typing flag of the turn under way (`AnswersArriveWhole`, `TypingEnds`).
* A named RabbitMQ message whose publish failed is requeued, suppressed as its own
  duplicate and acknowledged. In collect mode a message is acknowledged while it is in the
  buffer, and lost if the flush fails or the gateway restarts. A redelivery can be acknowledged
  as a duplicate while the handler of the first delivery is still publishing; one that comes
  after the dedup entry has expired, or after a restart, is published again
  (`AckedMeansRouted`).
* An adapter whose first connect failed is not watched; MQTT does not dial again unless it is
  told to, which is not the default; and one subscription that RabbitMQ refuses closes the AMQP
  channel and silences all users until the connection is lost (`ChannelRecovers`).
* An agent rebuilt after a transport error has no limit on repeated calls
  (`RepeatsAreBounded`); a failing native tool publishes an error event that costs the
  dispatcher a context (`OneOutcomePerTurn`), after which the answer of that turn meets the
  context of a later message or none (`AlignedUnlessDisturbed`, `AcceptedIsAnswered`).
* A lock can be removed just after another process acquired it; an append between the
  read and the rename of another process's compaction is dropped; a line after half a
  line is unreadable; two `/new` of one second leave the archive of the second only
  (`LinesOutliveProcesses`).
* The window is unknown, overestimated (`/v1/models` reports the training context), not
  reported, or forgotten by a restart or a `/new` that could not archive; compaction did
  not free enough; the message does not fit a new session either; or the message, the last
  line and what system prompt and tools have grown by since the tracker's last entry need
  more than the room above the threshold (`PromptsFitTheWindow`).
* Overlapping reloads, or a call that gives up between swap and reload, leave tools on a
  closed session (`ToolsAreLive`). A stop function that never returns blocks the
  shutdown (`ShutdownEnds`). A reconnect that finishes after `Close` stays open
  (`ClosedExceptLate`).
* The health monitor goes on reading the datastore after it was closed; the event consumer
  delivers through adapters that have stopped; and what a stop function does not wait for works
  on while the parts it calls are stopped (`UsedPartsRun`).
* A grant that was not saved before a crash, or the answer to a refresh that did not arrive or
  could not be decoded, has used up the kept refresh token (`KeptTokensAreHonoured`). Two
  executions with a secret of the same name share its file (`SecretsReachTheSkill`). A secret
  whose removal failed stays until the agent ends (`NothingLeftBehind`).

### Bounds

The interesting collect cases need a third message for a key whose cap is two: it
arrives after the cap was reached and before the flush has the mutex, or opens a new
buffer that the older flush takes. The second key exists to be disturbed.
In the gateway, two requests of one message and one of another are enough for every
way the registry can be skewed; a second conversation is there for
`RepliesStayInSession`. One fault (crash, lost ack, restart, allowlist change) can
happen at every point. `QueueCap` 1 makes overflow reachable; three clock ticks let a
window of one tick expire, be cleaned up and be opened again. In the session store, one
chat writes two lines, so that with `KeepLines` 1 every later compaction cuts
something; one fault at any step covers each crash point, and the redelivery runs the
handler again on what it left. `MaxTime`, `MaxSecond`, `MaxFaults` bound counters in
guards and nothing else.

In `control`, two disturbances are what a race of an admin request with a failing call
needs; time has no bound, because the limiter keeps ages. In `parts`:

| Part | Bounds and why |
|---|---|
| Scheduler | a one-shot and a configured cron job, two concurrent requests, two jobs ever added under a key (the one removed and the one re-created), two stops or user deletions; requests meet every phase of a start |
| Delivery | two turns (the second inherits what the first left), answers up to 3 characters with chunks of 2, so one, two and cut-at-newline chunks; 2 attempts, 1 failing call |
| Inbound | every combination of the fields that the normalizers look at, with two people, groups, Slack users, conversations, users and addresses, so that an answer could go to the wrong one |
| AgentTurn | a native and an MCP tool, 3 model steps, 3 attempts as in the code, two messages (what the first taught about images stays) |
| TokenProvider | two goroutines, three grants, one fault (restart, failed write or lost answer) |
| Sandbox | two executions, two secrets |
| SharedSession | two processes, three lines, three files, one crash, short write or stop inside the lock; also run with two upsets while the module was developed. States after a stolen lock or crossed compactions are not explored further (`CONSTRAINT Claimed`), because the property claims nothing of them |
| ContextWindow | window 10, training context 20, configured 8, threshold 60 %, lines of 1 and 3 units, a system prompt with its tools of 1 or 2, transcripts of at most 8 lines |

In `live_parts`: three losses, failed calls or restarts, so that a connection is lost again
during its recovery, or a message redelivered after a failed publish; two users of which one
may be created late, and one message, of which three deliveries can be under way at once
(counters of a message stop at 2, one more than the property allows); two MCP servers (one remote,
one stdio), two goroutines, three sessions, one drop and one other failure; three changes of
agents or queues and one failing read. Of the parts of the server one may not stop: one of the
first phase, one with others in its phase, or one that others wait for, which stand for all. An
MQTT adapter has no messages to settle here, because `AckedMeansRouted` claims nothing of them.

Deadlock checking is off: when all requests, turns, payloads and faults are used up, or
after a shutdown, the system rests.

### Fairness

`CollectBuffer`: timers expire, goroutines waiting for a mutex get it, and a publish
returns (it has a ten-second timeout). `Gateway`: in addition, a request's handler
goes on, a running agent works off its queue, and the event consumer its own; arrivals,
faults, expiry and restarts are never required. `SessionStore`: the agent goes on with
its delivery; nothing is assumed about when a leftover lock grows stale, because
`Lock` gives up after `lockMaxWait`. `ControlPlane`: handlers and processes go on and
time passes. `MCLiveParts`: goroutines that have something to do run, tickers tick, and
the dials that are repeated forever succeed once their bounded failures are used up.
Its weak fairness is stated for three disjunctions over the parts; a behaviour is in
one part only, so each is fairness for the disjunct of that part. A group's fairness asks
no more than that of its goroutines: everything outside the groups is bounded, so from some
point on only a step of the group itself can disable one of its actions.


## Proofs

Every invariant and action property of the passing runs is a theorem for every value of the
constants. The assumptions are those of the modules (`CollectAssumption`,
`GatewayAssumption`, ...), which TLC evaluates on every instance; they say that the maps are functions and the bounds are numbers, and no more than the code
has. Modules without a `Spec` of their own get one in the proof module (`DeliverySpec`,
`TokenSpec`, ...): their `Init` and `Next`, which `MCParts` and `MCLiveParts` run.

`CollectBuffer_proofs`, for every set of keys and messages, every assignment of keys and
every cap:

* `TypeCorrect`: `Spec => []TypeOK`, by induction with one step per action.
* `NeverStranded`: `Spec => []NoStrandedBuffer`. With the types the property is
  inductive as it stands; the reason is that the two ways a timer leaves `armed`,
  firing and being stopped at the cap, both add a flush goroutine for the same key,
  and that a goroutine is used up only by finding the key's buffer absent or by taking
  it. The second conjunct (a full buffer has a goroutine) is needed to cover a message
  that arrives at a buffer already at its cap.
* `Refinement`: `Spec => ImplementsBatching`, the collect state implements `Batching`.
  The lemma `ClosedSteps` sorts the steps by what they do to the set of batches that
  left a buffer: nothing, one message accepted, or the whole buffers of a set of keys
  cut off at once (one key for a flush, all open ones for a restart). These are the
  stuttering steps, `Accept` and `Seal` of the abstract specification; generations of
  timers are forgotten by the mapping (`ForgetfulUnion`).
* `NothingDuplicatedOrDropped` (`ExactlyOnePlace`). The property counts places; the
  invariant says instead that buffers and batches are disjoint and hold no message twice
  (`OnePlace`), and that a batch has one outcome (`OneOutcome`), for which a batch that a
  flush cuts must be new (`CutIsNew`: it holds a message no earlier batch has).

`Gateway_proofs`, for every set of requests, messages, sessions and users, every dedup
window, queue length and collect cap, and any number of faults:

* `GatewayRunsCollectBuffers`: `Spec => Collect!Spec`. The router adds no access to the
  buffers that CollectBuffer does not know, so the theorems above hold inside the gateway.
* `TypeCorrect`. `TypeOK` is not inductive: an answer is about the last message of its
  item, so items must not be empty (`ItemsHoldMessages`), and a queue may be one over its
  length only because the agent that gives an item back had taken it out (`RoomForItem`).
* `AnswersStayInSession` (`RepliesStayInSession`): contexts are filed under the session of
  their request and events name it (`NamesSession`).
* `AnsweredAtMostOnce` (`OneReplyPerContext`): a context is in the registry once, is there
  only after its handler has started, and not once it is answered (`ContextsAreOnce`); a
  handler does not start over.
* `OnePassPerWindow` (`OncePerWindow`), an action property, with the addition that the
  deduplicator's entry for a key lasts as long as its window (`EntryOutlastsWindow`).
* `AnswersLineUp` (`AlignedUnlessDisturbed`), the gateway's central property. It relates
  four queues that are filled and emptied by different processes: the registry, the agent
  queue, the delivery at work and the event queue. Its invariant has three parts besides
  the types and the two above. What an agent or the dispatcher has was published to that
  user (`SentItems`, `Sent`), and what collect mode holds was put there by its handler and
  is in one place (`CollectedAreEnqueued`, `CollectedOnce`), so a published message is not
  waiting and does not wait again. A request that waits has its context
  (`PendingRegistered`): without this, a publish could find nothing to line up with. And
  the registry lines up (`Lined`). `AgentsKeepOrder` shows that agents and broker hand
  requests on, give them back to the front, or lose one of another session; `PublishedDue`
  that a publish adds one answer at the end, and `LinesUpPublished` that its context is
  the next one, because it overtakes nobody; `DispatchedDue` and `LinesUpAnswered` that
  the dispatcher takes the first answer and the first context. What `OfSession` returns
  for a joined sequence is proved from its definition (`OfSessionConcat`).

`SessionStore_proofs`, for every set of deliveries of every kind, every `KeepLines` and any
number of faults and seconds:

* `TypeCorrect`, `NoHoleInTranscript` (`TranscriptIsRecentHistory`) and
  `NothingForgotten` (`LinesAreKept`), all from one inductive invariant `IInv`
  (`Inductive`). It adds to the three: a handler under way has a delivery
  (`WorksOnTurn`); from its decision until its rename, the copy that Compact took
  without the lock is still the transcript (`CompactsWhatItRead`, true because one
  agent handles one delivery at a time); the lines a rename cuts off are in an archive
  before it (`ArchivedBeforeRename`); there are no lines without a file
  (`LinesAreInFile`, or ArchiveSession would forget them). `QuietSteps` reduces the
  last two properties to the three steps that touch the lines: the append and the
  renames of a compaction and of `/new`.
* `SessionIsJournal`: `Spec => ImplementsJournal`. The append is `Write`; the archive of a
  compaction is `Leave(0)`, which puts lines on the shelf while they are still read; its
  rename is `Leave` of the lines before the cut, and that of `/new` `Leave` of all;
  everything else stutters. The rename leaves nothing unshelved because of
  `ArchivedBeforeRename` and cuts at the beginning only because of `CompactsWhatItRead`.
  `TranscriptIsRecentHistory` is its consequence for the lines alone.
* `LockIsGivenBack` (`MissedOnlyAfterFault`), with the addition that a lock file of
  nobody was left by a crash.
* `NoLineTwice` (`OnePlaceUnlessFault`). Without a fault a delivery at hand is not queued
  again (`HeldIsNotQueued`), so no line is written twice (`WrittenOnce`), archives hold
  only what was written (`ArchivedWasWritten`), and a cut keeps the two sides apart
  (`CutsApart`).

`ControlPlane_proofs`, for every set of users, agents, processes and tokens and any number
of admin requests, failing calls and lost connections:

* `AccountsGoWithRows` (`NoOrphanAccount`) and `ReplacedPasswordsAreCut`
  (`OldConnectionsAreCut`), from the inductive invariant `IInv`. `NoOrphanAccount` alone
  says too little to survive a step. `AccountsAreKnown` says that every account, failures
  and races apart, is recorded in its row or has a registration between CreateUser and
  Respond that will record it; `AccountsGoFirst` that a row being deleted has lost its
  account or still has it among the handler's targets; and a recording registration is
  registering, so a delete handler that starts then is a race. `OldConnectionsAreCut`
  needs `ConnectedHaveAccount`: SetVhostPermissions gives up when the account is gone, and
  is then not needed for the cut.
* `RevocationHolds` (`RevocationSticks`), an action property: `RowSteps` lists what a step
  may do to a row, `AccountSteps` what it may do to an account, and `NobodyRegisters` that
  a sealed agent is turned away at the look-up. The limiter does not enter this argument,
  nor the one above.
* `RegistrationsAreLimited` (`AtMostMaxPerWindow`). The limiter's own list proves nothing
  about the past unless it has all of it that is within the window: `Remembers` says that
  the events it keeps are the last ones of the history and that what it has pruned is out
  of the window.

`GatewayParts_proofs`:

* `ReactionsAreRemoved` (`TypingEnds` of Delivery), for any number of turns and failures: a
  reaction still shown is that of the turn under way and the session has the flag
  (`ReactionsAreFlagged`); only Slack reacts; a turn without a context is noted.
* `AnswersAreWhole` (`AnswersArriveWhole` of Delivery), for any number of turns, letters,
  chunk length and failures. The invariant follows an answer through its four forms: the
  accumulator is what the turn has said (`AccumulatedIsSaid`); the posts of a job are those
  its text is cut into (`JobIsAnswer`); while no post has failed, the user sees those before
  the next one (`ViewFollows`); and a delivery counts as made only after the last
  (`DeliveredIsOver`). `ChunksAddUp` says that the chunks have
  the letters of the text in their order: `CutEffect` shows it of one iteration of the
  loop, whether it cuts at a newline or at the limit.
* `AnswersReachTheirAsker` (`AnswersGoHome` of Inbound), for any people, groups, Slack
  users, conversations, threads, users and addresses. `InboundIInv` says that the message
  at hand is what the normalizer made of the payload, and that a payload which is the echo
  of an own post carries the mark the normalizer looks for (`EchoIsOurs`). `WhatsAppHome`
  is the case with several addresses for one person.
* `AtJobsFireOnce` and `ScheduledIsStored` (`AtFiresAtMostOnce`, `WhatFiresIsStored` of
  Scheduler), for any jobs, requests and restarts: an instance that has fired is out of
  map and timers (`FiredAreGone`), nothing runs while the gateway is down
  (`DownIsQuiet`), and `KeyIsOrderly` follows a key that was not upset through the steps
  of the single request at work on it, from row to map to timer and back. While a cron job is
  read and not yet loaded, its row is the one that was read or a request is at work on it.
* `CallersStopFirst` (`UsedPartsRun` of Lifecycle): phases stop in increasing order, and
  the users of a part are in an earlier phase, the `Reversed` pairs apart (`UsersStopFirst`); a
  part whose stop function waits is at work only until that has returned.

`AgentParts_proofs`:

* `CallsAreBounded` and `MessageEndsOnce` (`RepeatsAreBounded`, `OneOutcomePerTurn` of
  AgentTurn), for any tools and number of steps: what reached a tool was counted while the
  agent is wrapped (`CallsAreCounted`, `UnwrappedForGood`); an empty answer was one of
  reasoning and template tokens only (`EmptyWasWordless`, for which `CleanedAway` shows
  what the cleaning leaves).
* `WhatIsKeptIsHonoured` (`KeptTokensAreHonoured` of TokenProvider), for any number of
  goroutines and grants: a refresh token that is being saved has not been used and nobody
  else can use it (`GrantsInHandAreGood`), and a kept one that is used up will be
  overwritten by a goroutine that is saving (`UsedUpIsReplaced`). A lost answer ends the claim, as
  a crash before the save does.
* `LinesSurvive` (`LinesOutliveProcesses` of SharedSession), for any set of processes:
  inside the lock is its holder only (`LockIsHeld`), a writer has the transcript's current
  file (`WriterIsCurrent`), one compaction runs at a time and its copy has, at each of its
  system calls, what the transcript has (`CompactionsHaveAll`). No step takes a line from the
  archives and the excused lines together (`Elsewhere`, `ElsewhereStays`): a `/new` that replaces
  the archive of its second excuses the lines it held.
* `FirstPromptFits` (`PromptsFitTheWindow` of ContextWindow), for every window, threshold
  and set of sizes, of lines and of system prompts: the recorded fill counts the history but for
  its last line, and the system prompt and tools of its time (`FillCountsHistory`), and a turn that compacted nothing found the fill below the
  threshold (`NotDueIsBelow`). `SumsAddUp` and `CompactedSize` are the facts about sizes.
  The attempt showed one more exception, which the instance is too small to meet: the
  message and the last line together may need more than the room above the threshold.

`Connections_proofs`:

* `CloseCloses` (`ClosedExceptLate` of Broker), for any number of broken connections and
  failed dials. The strengthening `NoNewDials` is that after Close every watchdog that was
  not dialling meets the cancelled context.
* `AcknowledgedWasRouted` (`AckedMeansRouted` of BrokerChannels): what the deduplicator
  knows was published, buffered or given up, or a handler is publishing it
  (`SeenWereTried`); until a named message is forgotten it is in one place at most on its way
  to the agent, be it the handler, a handler without its delivery, the buffer or the queue
  (`TakenInOnce`); and an acknowledgement that is due was earned (`AcksAreEarned`).
* `InstalledToolsAreLive` (`ToolsAreLive` of MCPLoader), for any servers and goroutines:
  an open session is its server's or in a goroutine's hands (`OpenAreHeld`); while installed
  tools are of an earlier session some goroutine owes a reload (`StaleToolsAreOwed`), and
  what a goroutine has listed is of present sessions (`ReloadsAreFresh`).

`Sandbox_proofs`, for any number of executions and secrets: `OwnSecrets`
(`SecretsReachTheSkill`) and `CleanAfterwards` (`NothingLeftBehind`). The inductive
invariant says whose value every file holds: a name written by two executions
is crossed for both, one written by a single execution holds its value (`Owned`); a file
belongs to an execution that still has it on its list, unless a write broke off, a removal
failed or the agent was killed (`Accounted`); nobody executes without a container (`RunsInBox`).

The library's induction theorems take an operator and cannot be used with these provers.
Where a recursive function has to be reasoned about (`OfSession`, `Without`, `Sums`,
`Letters`, `FlattenSeq`, the chunk loop, the limiter's pruning), induction is over a set of
numbers instead: `LeastOne` takes the least element of a set from `WFMin`, `UpTo` is
induction up to a bound; `StepByStep` and `StepsAgree` say that a function given by its
value at 0 and a step for each number exists and is unique.

Only model-checked: liveness (`EnqueuedIsEventuallyFlushed`, `AcceptedIsAnswered`,
`EveryTurnSettles`, `LoneAgentConnects`, `BrokerRecovers`, `ChannelRecovers`,
`HealthViewCatchesUp`, `ServersComeBack`, `ShutdownEnds`). It needs fairness, which is
beyond the prover. Type invariants are theorems where a proof rests on them, as `TypeCorrect`
or as the part that is needed (`AnswerTypes`, `SchedulerTypes`, ...); no run lists them.

## Not modelled

* *Datastore cache*: `NewCachedRepository` has no caller outside the tests. The SQL
  repository appears as the rows its callers read and write, one statement a step.
* *Security audit and runtime checks, configuration, telemetry, S3 fetch*: written once,
  read once, or without state.
* *Tools* for documents, the web and the weather, *LLM clients*: stateless calls of
  external services; their failures are inputs of AgentTurn.
* *CLI admin commands*: HTTP calls of the admin API.
* *Dead code*: `EvictOlderThan`, `CleanStaleLocks` and the reading side of the session
  index have no callers; Slack streaming cannot be reached, because
  `extractSlackMetaFromEvent` always returns false.
* *WebSocket fan-out and the notify endpoint*: best effort, nothing depends on them.
* In the modelled parts: message contents and mark-up, prompt texts, media download,
  the audit log, metrics. `PublishMessage` returning an error is taken to mean that the
  broker does not have the item.
* Interrupt mode publishes a control message that no code of the agent consumes; Gateway
  counts it and there is no step a run could add.
* Two channels of a user can derive the same session ID (a cron job named like an MQTT
  client, say); their session keys differ but their files do not, because `store.go:95`
  names them by user and session ID. The models have one session per ID.

A note for readers of `runtime.go`: the comment at line 831 ("Fallback: bind ALL MCP
tools if nothing else matched") is not what the code below it does in lean mode; it binds
the native tools only, and AgentTurn follows the code. And of the shutdown:
`docs/GATEWAY_IMPLEMENTATION.md:2141` lets the event consumer finish its current batch before
the connections are closed; its `Stop` (`queue/consumer.go:167`) closes a channel and
returns, and nothing waits for a delivery under way. Lifecycle follows the code here too.

## Plan

1. An abstract specification of Gateway's exchange of messages for answers, per session and
   in order while the session is undisturbed. SharedSession has none of its own: what it
   promises of two processes is Journal but for the exceptions of `LinesOutliveProcesses`.
2. Composition of BrokerChannels with Gateway, so that a redelivery of the channel's own broker
   meets the collect buffers and the registry of the same model.
