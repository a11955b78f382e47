# OSEye: a TLA+ verification project

OSEye is an endpoint detection and response platform. A Go agent collects
security events on a host and sends them over gRPC/mTLS to a Python server; the
server normalises and stores them, evaluates rules, correlates alerts into
incidents, scores incidents, records decisions in a hash-chained journal, asks
operators to approve the severe ones, and sends response commands back to the
agents. A React front end talks to the server's REST and WebSocket APIs.

This directory models the parts of that system whose correctness depends on
order, concurrency, failure or bounds. `PROJECT.json` maps every definition to
the lines it models and lists runs, mutants, hazards and theorems.

## 1. The system's parts

| part | state | operations | interacts with |
|---|---|---|---|
| collectors, `CollectorManager` (agent) | fan-in channel | start, stop, throttle | merger |
| `EventMerger` (agent) | merge groups, output channel | ingest, flushExpired, flushAll | fanout, batcher |
| fanout, `Batcher`, `Buffer`, `GRPCClient` (agent) | current batch, SQLite rows, retry state | flush, push, send, pop, drain | server ingest |
| commands, responder (agent) | dedup table, rollback state, report queue | receive, execute, roll back, report | server command topics |
| autonomy, local rules (agent) | cascade window, kill switch, rule files | evaluate, act, load, roll back | responder |
| watchdog, snapshot, host profile, enrollment (agent) | baselines, certificates | check, collect, enroll | server |
| gRPC ingest (server) | active streams, agent rows, blocked list | IngestEvents, StreamCommands, ReportActions | bus, storage |
| bus (server) | Redis streams and groups, or in-memory queues | publish, subscribe, acknowledge | all workers |
| workers: rules, ML, TI, correlation, notify, storage (server) | cooldowns, batches, incident links | one handler per message | bus, storage |
| decision engine, journal, executor (server) | last hash, commit history, leader key | decide, commit, roll back, persist, execute | bus, storage, Redis |
| human approval queue (server) | `human_decision` of a decision row | approve, reject, expire | REST API, executor |
| rule engine, policy engine, plugins, TI client, ML engine (server) | loaded rules, versions, breaker, cache, models | reload, evaluate, look up | workers |
| auth, API keys, enrollment, cases, forensics (server) | tokens, keys, cases | REST handlers | storage |
| storage (server) | SQL tables, immutability triggers | repositories | everything |
| web UI, CLI, SDK, audit tools | client-side stores | - | REST, WebSocket |

What is hard to test here:

* **Order and delivery.** An agent's batch is written to the offline buffer, sent,
  and removed from it in three steps; a failed send leaves a backlog behind
  which later batches are appended. Replies get lost, the client retries, and a
  process may die between any two of the steps.
* **Concurrency.** Several operators and a timeout sweep answer the same
  decision; each reads the row, awaits, then updates it. Collectors, merger,
  fanout and batcher are goroutines joined by bounded channels.
* **Stale rows.** The correlation worker, the threat-intelligence worker and
  analysts' requests each read an alert or incident, await, and write back every
  column; the stale-incident loop closes incidents meanwhile.
* **Partial failure.** The journal advances in memory before the row is
  persisted; a failed persist must be rolled back, a crash in between must not
  break the chain, and a COMMIT may have happened although it reported an error.
* **Leadership and staleness.** The Redis leader key expires, and a new
  leader's journal tip may be old.
* **Copies of copies.** The user file is cached for a minute and truncated by the
  command-line tool while it is written; the blocklist of tokens is in memory and
  in a file; a revoked role lives on in tokens and in open WebSocket feeds.
* **Handlers that overlap.** gRPC handlers are threads, an agent that reconnects
  has two of them until the first notices, and they share topics, agent rows and
  the table of pings.
* **Work done under no lock.** Two flushers take the same batch of events; two
  administrators read, number and write one rule row; an export reads a case in
  four queries while it is being changed; a broadcast sends to a snapshot of its
  clients while they come and go.
* **Breakers and locks.** A half-open circuit breaker lets one probe through and
  must get the slot back however the probe ends; the plugin manager awaits the end
  of a process under its lock.
* **Files at a crash.** The ML checkpoint is four files, replaced one by one.
* **Limits.** The buffer's cap, the commit history's length, channel capacities.
* **Termination.** Shutdown must flush and drain; a timed-out decision must
  eventually be answered.

`PROJECT.json` lists each at its line under `hazards`.

## 2. The modules

| module | models | lines it stands for |
|---|---|---|
| `AgentDelivery` | batcher, offline buffer, retrying client, drain, server handler | `main_linux.go`, `buffer.go`, `batcher.go`, `grpc_client.go`, `IngestEvents` |
| `AgentDeliveryProofs` | its theorems | |
| `EventMerger`, `MCEventMerger` | collectors' channel, merge groups, fanout, shutdown | `merger.go`, `manager.go`, `main_linux.go` |
| `DecisionPipeline` | decide, commit, create, rollback, execute, leader election, verification | `engine.py`, `journal.py`, `decision_worker.py`, `action_executor.py` |
| `DecisionPipelineProofs` | its theorems | |
| `Verdict` | what the approval queue promises | abstract |
| `HumanApproval` | approve, reject, timeout sweep, kill command | `human_queue.py`, `repositories/decisions.py`, `routers/decisions.py`, migrations |
| `HumanApprovalProofs` | its theorems and the refinement of `Verdict` | |
| `AlertPipeline` | rule matches, correlation, stale incidents, TI enrichment, analysts' updates | `rule_worker.py`, `correlation_worker.py`, `correlation/`, `ti_worker.py`, `repositories/incidents.py`, `repositories/alerts.py`, `routers/alerts.py` |
| `AlertPipelineProofs` | the theorems of `AlertPipeline` and `ThreatIntel` | |
| `Ingest` | keys, validation, conversion and publication of a batch | `grpc_service.py`, `validator.py`, `normalizer_bridge.py`, `schema.py` |
| `EventStore`, `MCEventStore` | `Ingest` with the Redis stream, the storage writer and the ML worker | `redis_bus.py`, `storage_writer.py`, `ml_worker.py`, `repositories/events.py` |
| `EventStoreProofs` | the theorems of both and of `Rules` | |
| `AgentAccess` | enrollment tokens, blocking, streams, start-up | `enrollment_store.py`, `routers/enrollment.py`, `routers/agents.py`, `grpc_service.py`, repositories |
| `AgentCommands`, `MCAgentCommands` | `AgentAccess` with pings, throttling and policies | `grpc_service.py`, `backpressure.py`, `policy/engine.py`, `cmd_agents.py`, `redis_bus.py` |
| `AgentCommandsProofs` | the theorems of both and of `EventMerger` | |
| `Rules`, `MCRules` | rule files and engines, evaluation, the rule table | `rule_engine/`, `rule_worker.py`, `routers/rules.py`, `cmd_rules.py` |
| `ThreatIntel`, `MCThreatIntel` | lookups, cache, breaker, retries | `threat_intel/`, `routers/ti.py` |
| `Sessions` | tokens, blocklist, user store and its tool | `auth/jwt.py`, `auth/rbac.py`, `routers/auth.py`, `cmd_user.py` |
| `LiveFeed`, `MCLiveFeed` | `Sessions` with the WebSocket feeds | `api/ws/` |
| `LiveFeedProofs` | the theorems of both and of `ServerProcess` | |
| `Cases` | cases, custody log, exports | `forensic/`, `repositories/cases.py`, `routers/cases.py` |
| `CasesProofs` | its theorems | |
| `Plugins` | registry, processes, plugin socket | `plugin/`, `routers/plugins.py`, `cmd_plugin.py` |
| `MLCheckpoint` | files and saves of the ML models | `ml_engine/`, `ml_worker.py` |
| `ServerProcess`, `MCServerProcess` | start, stop and crash over both | `main.py` |

An MC module gives constants that a cfg cannot write down (functions, records) and
the symmetry; it adds no behaviour. Composition is by extension where a component
works on the state of another (`EventStore` on `Ingest`, `AgentCommands` on
`AgentAccess`, `LiveFeed` on `Sessions`) and by `INSTANCE` where two components only
share the life of the process (`ServerProcess` over `Plugins` and `MLCheckpoint`).
Four proof modules hold the theorems of two components that have nothing to do with
each other; the initial states, next-state relations and specifications of the second
ones are therefore called `MInit`, `MNext`, `MSpec` (`EventMerger`), `TInit`, ...
(`ThreatIntel`), `RInit`, ... (`Rules`) and `SInit`, ... (`ServerProcess`).

### AgentDelivery

State: the source events still to come, the channel to the batcher, the current
batch, the rows of the SQLite buffer (a row is the event's number; `AUTOINCREMENT`
makes insertion order the id order), the batch being sent with its attempt, the
calls under way at the server, the page the drain is replaying. An action is one
step between two points where another goroutine, the server or a crash can
interfere: `Receive`/`Timer`/`Done` are the three cases of `Batcher.Run`'s
select; a flush is `PushCommit` or `PushError`, then `Evict`, `OpenStream`,
`Retry`/`GiveUp`/`SendOk`, then `Pop`; the shutdown drain is `Replay`, the
send, `Ack`, `DrainEnd`. `Handle` is the server's `IngestEvents`: it may handle a
batch whose reply the client never sees (`Lose`). `Crash` ends the process; the
rows survive and `Start` begins again. Each event records, as history, whether it
was stored, received, evicted, unreadable, or disturbed by a fault, so that a
property can say what happens on the paths nothing disturbed. One event cannot be
mapped: the batcher leaves it out of the batch, and the drain deletes it unread.

Not in it: the hash chain's values and signature checking. The mapping of fields,
TLS set-up and metrics are left out.

### EventMerger

An activity of the host is reported by one or two collectors; `KeyOf` is what
`mergeKey`'s fingerprint makes of it, so two connections to one destination share
a key. `in`, `out` and `batcherCh` are the three Go channels with their
capacities. `ingest` is the whole handler with its branches (pass through, first of
a group, secondary, promotion, flush and restart); `flushExpired` is a ticker
step for any set of groups whose window may be over; `emit` blocks on a full
channel where `flushGroup` and `flushAll` drop. `MainReturn` is the point where
`main` has waited for all goroutines and begins the drain that `AgentDelivery`
models.

### DecisionPipeline

`Servers` server processes share a database and, with `Redis`, a leader key. A
server boots by reading the last journal hash; it receives an incident, tries to
become leader, commits to its in-memory journal or (as a follower) builds a
decision without hashes, persists the row, rolls back when that raises, and
publishes. Each of these is an action, so a crash, the expiry of the key or the
other server's steps can come in between. A hash is the sequence of decisions it
covers, which is what a collision-free hash tells apart. `unsure` records that a
COMMIT reported an error although it took place, after which no claim is made
about the chain. `_apply_risk_matrix` is modelled with the code's thresholds;
the score itself is an input from a small set.

### HumanApproval and Verdict

A caller (an operator's request or a sweep) reads the row (`GetDecision`), then
updates it (`UpdateDecision`); `RowFree` is the `WHERE human_decision IS NULL` of
the UPDATE. `AfterUpdate` is the re-read that decides what the caller is told.
`SweepStart` takes the list of pending decisions that have timed out, `SweepNext`
works through it, `Raised` is the exception that ends the sweep, `Emit` publishes
`KILL_PROCESS`. With `Triggers` the PostgreSQL immutability trigger raises on every
UPDATE. `Verdict` is the abstract promise: each decision gets at most one verdict,
and the kill command goes out at most once and only after an approval;
`ImplementsVerdict` is the refinement.

### AlertPipeline

One host and one server. State: the tables `alerts`, `incidents` and
`incident_alerts` (`links`), the topics `alerts:created`, `alerts:enrichment` and
`analysis:correlated` (`announced`), the rule worker's cooldowns, and for each task
where it is and the rows it holds. A step is what a task does between two awaits:
`_create_alert`, `PublishCreated`, `PublishEnrichment` are the rule worker;
`Load`, `Find`, `AddAlert`, `UpdateIncident` or `CreateIncident`, `Stamp`, `Publish`
are `CorrelationWorker._process` with `CorrelationEngine.process_alert`, each a
transaction of its own, and `CorrError` is the exception after any of them;
`close_stale` is the auto-close loop; `Lookup`/`UpdateTi` the TI worker;
`GetAlert`/`UpdateAlert` a request of an analyst.

Linkers are abstracted to *which may win*: `SameHostLinker` and `TemporalLinker`
score an incident exactly when it lies in their windows, `UserActivityLinker` may
score (it compares process names), `PidLineageLinker` never does (it looks for
`host:pid` in titles, which are rule names). When a linker other than
`SameHostLinker` wins, the worker reads `max_severity`, which only `SameHostLinker`
has: the `AttributeError` after the committed `add_alert` is part of `AddAlert`.
An alert is handled within one tick of the clock (`Tick` waits for it), and
`PipelineAssumption` says that the largest window plus that tick is at most the
auto-close time (600 s and 1800 s by default). A crash loses the messages
a task had read, because the bus never delivers them again.

### Ingest and EventStore

An agent opens one stream per batch, so one call of `IngestEvents` is one batch and
one response. The validator rejects a whole batch (too large, signature) or single events
(incomplete); `UniversalEvent` may refuse an event, which ends the call; and the publication is scheduled on the event loop without being
waited for: the response says "accepted" before anything has left the thread.
`EventStore` follows the events from there: the Redis stream keeps every message,
each consumer group has its position and its messages read and not yet
acknowledged. The storage writer has two flushers, the main loop when the batch is
full and the timer task; each takes the whole batch out before it awaits the
insert. A failed insert puts the events back in front; after `MaxFailures` in a row
they go to the dead-letter topic. One refused row fails the insert of its whole
batch. The ML worker reads the same events in a group of its own and updates a row
which may not be there yet. Each way of losing an event that the code has (a
failed publication, a crash with events in memory, a poisoned batch) is recorded as
history, so that `NoEventLost` says that there is no other.

### AgentAccess and AgentCommands

Requests of administrators and of enrolling agents are coroutines that interleave
at each database call; streams are threads that hand their database writes to the
event loop, which completes them in any order. `AgentAccess` has the tokens (rows,
spent by one DELETE with the expiry in its condition), the blocked list (in the
database and in memory), the set of active agents, and the restore of all of it at start-up.
`AgentCommands` adds what is sent to agents: two topics each, a handler being a
subscriber on the event loop, a queue and a thread. A subscriber takes up to
`ReadBatch` messages at a time (100 in the code), which count as handed out from then
on. When an agent leaves, its thread notices late: the subscriber moves one more
message and drops the rest of its batch, and the handlers of an agent that returns
overlap and share one consumer group. The throttle level is chosen from the stream lengths; the lag of
`events:raw` is always zero, since nothing writes that topic.

### Rules

Two engines load the same YAML files: the one of the API, which the reload endpoint
reaches, and the one of the rule worker. `Evaluate` is the worker's whole step with
recording, pruning, purging and the cap on entries. A condition is the set of the
kinds of event that satisfy it and one call of `count_events`: the kinds that reach
the call, those that it decides, the kinds it counts, its seconds, and the numbers
that pass. The call looks at the rule's own window before the event is recorded and
prunes it by its own seconds (`Looked`); on the recorded events, which the evaluator
looks at again to count them, it returns 0 (`CountIn`). So a rule that calls
`count_events` with fewer seconds than its timeframe undercounts, and the call always
gives 0 in a rule without a timeframe, which records nothing.

`TemporalExact` compares what fires with the history of all events of the worker's
life: exactly, for rules without such a call; for a rule with one it says only that
the rule never fires on too few. The rule table, which has no effect on evaluation, is
modelled with its change log: a request reads the row, then writes the columns that
differ and a log entry in one transaction, and two administrators may do so at once.
The entry of a creation has the content of the rule and no other column, so the model
keeps, as a ghost, the profile a row was created with (`born`): a rule that is created
with a profile cannot be reconstructed from its log alone. `HistoryReplays` replays
the logged differences from there. The other columns behave like the profile, the name
and the configuration taking a new version as the content does.

### ThreatIntel

A lookup that misses the cache calls every provider concurrently under one
timeout, each through a breaker around a retried call; every await is a step.
`RaisingCalls` says whether the function handed to the breaker may raise. The
breaker is written for functions that do; the providers hand it `retry_async`, which
turns every failure into `None`, so in the product the breaker never opens. The
run sets it to `TRUE`, because the failure path is what the breaker's invariant is
about; `ThreatIntelOutage.cfg` sets it to `FALSE`.

### Sessions and LiveFeed

`login`, `refresh` and `logout` do not await between reading and writing the
blocklist, so each is one step. What interleaves is the clock, the command-line
tool (a process of its own that truncates the user file before it writes it, and
may be killed in between), failing saves of the blocklist, and restarts. `LiveFeed`
adds the WebSocket feeds: admission with the token of the first frame, caps on
connections in all and per user, a broadcast that sends to a snapshot of
the registry, dead clients removed afterwards, and the Redis channel through
which a message comes back to the server that published it.

### Cases

A request that changes a case takes its lock, loads the case, changes the copy,
writes it back with new notes and evidence, then appends a custody entry. Each is
an await and may fail. A reader takes no lock and makes four queries. The hash of a
custody entry is the sequence of payloads it covers. The timeline of an export is
kept as the places its custody entries have in the log, in the order
`build_timeline` lists them: a stable sort by time stamp with the linked events in
between.

### Plugins, MLCheckpoint and ServerProcess

The plugin manager's operations run under one asyncio lock and two of them await
under it. A process belongs to the run of the server that started it (`gen`);
nothing but disable and delete stops one.

`MLCheckpoint` has the two halves of a checkpoint, the anomaly models and the
classifier, each with its data, its MAC and its temporary files, and the two savers
that may write them, a periodic one on a thread and the last one of a shutdown. A file
holds the number of the model state dumped into it. The two halves are saved
differently: the anomaly models and their MAC are two renames (`ReplacePkl`,
`ReplaceMac`), the MAC of the classifier is written under its final name before the
rename (`Sign`, `ReplaceClf`). Any step may raise (`SaveFails`). What runs on a thread
goes on after a cancellation: `Train` may change a half after the worker has begun
its last save or ended, and the periodic saver may still be at work beside the last
one; `handle` follows the file a saver has open while the other renames it. `kept` is,
for each half, the state a start must find at least: that of the last save which wrote
the half by itself. It is given up when two savers write the half at once, and when a
save is cut off between two writes that belong together (`Between`), since the code
then does lose the half. The model does not have the worker's loop ending by itself on
an error of the bus.

`ServerProcess` puts both under `lifespan`: workers are cancelled and awaited, then
the plugin socket is closed, then the process ends, once its threads have.

## 3. The runs

| run | shows | bounds |
|---|---|---|
| `delivery` | exactly-once on every undisturbed path; the drain deletes only delivered or unreadable rows; shutdown completes | 4 events (1 unmappable), 2 process starts, 2 faults, page and cap small enough that eviction, a backlog and several drain pages occur |
| `merger` | every report in exactly one place; enrichment survives either order; the path drains | 4 activities, 6 reports, capacities 1 so that every channel fills |
| `decisions` | chain intact, journal equals database, rollback accepted, only recorded decisions dispatched | 1 server with Redis, 3 incidents, 2 faults |
| `approval` | truthful answers, kill only after approval, `Verdict` implemented, every timed-out decision answered | 3 decisions, 2 operators, 1 sweep, 1 fault |
| `alerts` | list, count and link table of an incident agree; a chain names an incident that has the alert; no duplicate announcement, none missing; a resolved incident stays resolved | 2 alerts, 1 analyst's request, windows 0, 1 and 2, auto-close 3, clock up to 4, 1 fault |
| `event_store` | an accepted event is stored, waiting, dead-lettered or accounted for by a named fault; waiting events are stored once the database works | 2 agents, 4 kinds of batch, 3 publications, 1 database error, 1 fault, batches of 2, 2 failures to the dead letter |
| `commands` | a token enrolls one agent, no ghost agents, blocked agents stay out over restarts, overlapping handlers deliver a command once, a ping that is answered was received under its own identifier | 2 agents, 1 token, 2 enrollers, 2 administrators, 2 streams, 2 handlers, batches of 2, 3 requests, 2 faults |
| `rules` | a temporal rule fires exactly when the events of its window reach the threshold, one that calls `count_events` never on fewer; the change log accounts for the row | 7 rule definitions (2 with a call), 3 events, TTL 2, 3 window entries, purge every 2, 2 administrators on 1 row, 2 contents, 5 operations |
| `threat_intel` | the probe slot of a half-open breaker always comes back; nobody is given a report older than its TTL | 2 lookups, 2 providers, 4 indicators, 3 queries, TTL 2 and 1, clock up to 3 |
| `sessions` | one usable token per session; a withdrawn role is gone after one cache TTL and one token lifetime; the registries of connections are exact; a broadcast reaches every client that stays | 2 users, 3 tokens, clock up to 5, 4 tokens, tool runs and faults in all (2, and clock 2, once a connection exists), 3 sockets, 2 in all and 1 per user, 1 broadcast |
| `cases` | the custody log is one chain; every change is kept and logged; an export never shows a custody entry without its subject | 1 case, 2 writers, 1 reader, 3 changes, 1 fault |
| `process` | every process of the running server has an entry that can stop it; a half of the checkpoint that one save has finished stays loadable and as new, but for the named cases; every request ends | 1 plugin, 2 requesters, 3 requests, 2 processes, 2 starts of the server, 2 model states, 1 periodic save a run and the last one; `MaxLoad` 3 |

Why the bounds are enough: four events make two batches of two with one backlog,
the smallest case in which `Pop` can remove another batch's rows; two faults allow
a lost reply and a crash on one path; capacities of one make every blocking send
block. Three incidents give a chain with a middle element whose predecessor can
be rolled back. Two alerts are one that creates an incident and one that joins it,
or finds it too old, or resolved: the clock goes one past the auto-close time. With three decisions one sweep can fail in the middle of its list.
A storage batch of two with three publications lets one flush fail while the other
flusher holds newer events. Two handlers of one agent and one message are the least
in which a message can be delivered twice or to a handler nobody reads from. Two
lookups over one breaker are a probe and the call it competes with. In `rules`
administrators and contents are symmetric; a rule with a call of one second in a
timeframe of two is the least that prunes what it still has to count. In `process`
plugins and models share only the start, the stop and the crash of the server, so
`MaxLoad` bounds the product of the requests and of the saves and training: either may
reach its own bound while there is little of the other. `MLCheckpoint` by itself, with
three model states and three saves, satisfies `CheckpointKept` in 1.4 million states.
The rest of a batch and a second handler together need four requests: `commands` sees
each alone, and the theorem covers both. Three tokens
are an original, its refresh, and a second refresh of the original. Two writers and a
reader are the least in which a lost update and a torn export can happen.
The theorems below remove the bounds for every safety property of every run.

**Fairness.** `AgentDelivery`: weak fairness of the agent's own steps after
cancellation, because the goroutine runs and its sends have deadlines; nothing
makes the server answer. `EventMerger`: weak fairness of each goroutine (the Go
scheduler is fair, a ready select case is taken), of the flush of all groups (time
passes), and of collectors returning once the context is done; none for a report.
`DecisionPipeline` and `AlertPipeline` have none: their properties are safety.
`HumanApproval`: weak fairness of the sweep loop and its awaits; none for operators;
faults are bounded by `MaxFaults` and so end. `EventStore`: weak fairness of the
restart, of scheduled publications, of the storage worker's reading and consuming, of
the timer's flush and of an insert's outcome, which are all tasks of one event loop;
none for agents; failing inserts are bounded, so the database works in the end.
`ServerProcess`: weak fairness of the operations of each request, which the event loop
runs; none for the end of a plugin process, which is why the stop's SIGKILL matters.
`ServerShutdown.cfg` adds that of each save, of training and of the shutdown's steps
(`ShutdownSpec`), so that its counterexample is not a server that just stops.
The other modules have none.

**Deadlock** is not checked where the system legitimately stops: an agent that has
shut down, a decision pipeline with no incidents left, an approval queue with
everything answered, an alert pipeline whose alerts are handled, and in every
module a clock and counters that have reached their bounds.

## 4. Where the code and its comments disagree

These statements say what a comment, a docstring or a message of the repository
says, and do not hold of the code. They are not part of the runs above; each cfg
reproduces its counterexample with `tlc -config <cfg> <module>`.

| cfg | module | statement | what the code does |
|---|---|---|---|
| `AgentDeliveryLoss` | `AgentDelivery` | `NoLossOnTransportFailure` | `main_linux.go:452`, `:469`: `sendBatch` removes the oldest rows, not those it sent, so after one failed send events are deleted that were never delivered |
| `EventMergerShutdown` | `MCEventMerger` | `ShutdownReachesDrain` | `merger.go:335`: the merger blocks in `emit` after its consumer has left |
| `DecisionVerify` | `DecisionPipeline` | `EndpointAgrees` | the verifying endpoint calls a sound chain broken |
| `DecisionFollower` | `DecisionPipeline` | `EveryIncidentDecided` | an incident read by a follower yields no decision |
| `DecisionFork` | `DecisionPipeline` | `NoFork` | a leader change forks the chain |
| `HumanApprovalTriggers` | `HumanApproval` | `Expires` | with the PostgreSQL triggers no decision ever expires |
| `AlertEscalation` | `AlertPipeline` | `EscalationAnnounced` | the incident's earlier severity is read through the chain of a new alert, which has none, so the branch for escalation is dead |
| `EventStoreSigned` | `MCEventStore` | `SignedBatchesAccepted` | the agent signs a digest of the chain head and the hashes, the validator verifies a digest of the hashes alone |
| `RulesReload` | `MCRules` | `OneRuleBase` | `main.py:134`: the reload reaches the API's engine, not the worker's |
| `ThreatIntelOutage` | `MCThreatIntel` | `OutageNotCached` | `client.py`: "use a short TTL when TI is unavailable": the failures `retry_async` swallows look like empty answers, so an outage is cached for the full TTL |
| `ServerShutdown` | `MCServerProcess` | `ShutdownEnds` | `ipc.py:108`: closing the socket waits for connected plugins |
| `PluginsTwice` | `MCServerProcess` | `NeverTwice` | `manager.py`: "Raises RuntimeError if the plugin is already running": an install resets the status of a running plugin, and a second process starts |
| `MLCheckpointCrash` | `MLCheckpoint` | `CheckpointSurvivesCrash` | `anomaly.py:240`: model and MAC file are replaced one after the other; a crash in between loses both halves, as the second is loaded after the first |

`EveryAgentTold` (`AgentCommands`) and `ScorePersisted` (`EventStore`) are two more
such statements, without a cfg: the commands of the
backpressure controller go to "every connected agent", but one whose publication
failed is not repeated, and an agent is off the list when the first of its
overlapping streams ends; and a score computed before the row is inserted updates nothing (`ml_worker.py:169`).

Facts met while modelling which no statement expresses:

* An event `pb_to_event` refuses makes the handler raise, and with it the whole batch
  (`grpc_service.py:339`); the agent sends the same batch again.
* No adapter is registered for agents' events and nothing writes `events:raw`, so the
  normaliser's loop never runs.
* `response_actions` rows are never created and `BLOCK_IP` is never emitted; the
  servicer's `policy_engine` is never set.
* Blocking an agent "takes effect immediately" (`routers/agents.py:172`), except for
  streams that are already open.
* A feed never checks its token again; API keys are refused on `/ws`, where the
  handler reads `.name` of what is a dict; with Redis each local client gets each
  broadcast twice; a new alert is never broadcast, only its acknowledgement is.
* `PATCH` of a case accepts statuses (`cases.py:98`) which the schema refuses
  (`schema.py:238`).
* A rule with a timeframe above `_MAX_TTL` undercounts. So does one whose condition
  calls `count_events` with fewer seconds than its timeframe, as the call prunes the
  rule's window (`evaluator.py:101`); and in a rule without a timeframe the call
  always returns 0 (`evaluator.py:9` lists it as a feature of conditions).
* Concurrent updates of a rule may reuse a version number, and the content in the
  newest log entry may be the one an overlapping update has replaced
  (`repositories/rules.py:65`); an update of the profile, the tags or the flag takes no
  version; the entry of a creation has no `diff_json`.
* Two savers of the ML checkpoint share the names of their temporary files, so the last
  save of a shutdown and a periodic one beside it may both be lost; a kill
  between the MAC of the classifier and its rename loses the classifier
  (`ml_engine/engine.py:168`); what is trained while the last save runs is not saved.
* A report of some providers only is cached for the full TTL.
* Installing over a running plugin leaves its process without an entry; the `.sig`
  file is not copied with a plugin; processes outlive the server.
* `cmd_user` asks for a restart, while the server rereads the file within a minute.

## 5. What is proved

All theorems hold for every value of the constants (any number of events,
servers, operators, agents, tokens, sockets, cases, rules, lookups and plugins, any
batch size, cap, channel capacity and history length), and every invariant and action property
that a run checks is one of them. For each component one
conjunction of invariants (two where its parts do not touch) is shown to be
inductive, and the properties are drawn from it. The `IInv` of
`EventStoreProofs`, `AgentCommandsProofs`, `LiveFeedProofs` and `CasesProofs` also pass in
TLC on the instances of their runs.

* `AgentDeliveryProofs`: `TypeCorrect`, `ExactlyOnce`, `DrainSafe`. Exactly-once
  is not inductive: a step from an arbitrary state where `Pop` would remove
  another batch's rows breaks it. `IInv` adds that a batch in flight is
  contiguous, that rows are exactly the stored events not yet removed, and that
  while nothing was disturbed the buffer holds nothing but the batch in flight,
  which is why the oldest rows are then the batch's own.
* `DecisionPipelineProofs`: `TypeCorrect`, `RollbacksAccepted`, `DispatchSafe` for
  any number of servers, and `OneServerChain` and `JournalAtTip` for one. The invariant relates the
  tip held in memory to the last row at each program counter: equal before a
  commit and after a create, one decision ahead in between.
* `HumanApprovalProofs`: `AnswersAreTrue`, `KillsAreApproved`, `ExpiryIsLate`, and
  `Refinement` (`Spec => Verdict!Spec`). The invariant says that a caller past
  its update holds the row's verdict as its own, that the set of kills is exactly
  those emitted by such callers, and that every decision on a sweep's list has timed out.
* `AlertPipelineProofs`: `TypeCorrect`, `LinksAlwaysAgree`, `StampIsAlwaysTrue`,
  `NoDuplicates`, `AllAnnounced`, `ResolvedForGood`. The invariant has five parts
  besides the types. `FlowInv`: an alert goes through `alerts:created` once, and no
  incident has it until then. `CopyInv`: every row a task holds has a chain
  that the link table confirms; links are never removed, so a late write-back is
  harmless. `IncidentInv`: the incident held by the worker counts what the table
  counts. `AnnounceInv`: an incident is announced by the alert that created it or
  is about to be. `TimeInv`: an incident being written back was created no more
  than the largest window and a tick ago, so the auto-close cannot take it.

* `EventStoreProofs`: `TypeCorrect`, `NothingLost`. `NoEventLost` speaks of what has
  left the event loop or not, and is not inductive: it does not know that the entries
  a worker has read and not been given are the last ones of its group. `InboxInv`
  says so; `OriginInv` says that nothing on the way was not accepted; `SentInv`
  accounts for an event in front of the stream, `GivenInv` for one behind it. Every
  action is described by what it moves upstream of the stream, downstream of it, or
  across it, and one lemma (`FlowStep`) combines the three.
* `AgentCommandsProofs`, about `AgentAccess` and `AgentCommands` together:
  `TypeCorrect`, `TokensSpentOnce`, `NoGhosts`, `BlockedOut` (an action property),
  `PingsHonest`, `DeliveredAtMostOnce`. `TokenInv`: a token is in one place, its row, a request
  that has spent it, or a certificate. `BlockInv`: an acknowledged block is in the
  table, and in memory as soon as the server has read it. `GhostInv`: a write
  a stream has left on the event loop is about an agent that was seen. `PingInv`: no two
  administrators wait for one identifier. `TopicInv`, `QueueInv`, `GotInv`: a message
  is yet to be fetched, in the queue of one handler, or received, and never two of these,
  which is why overlapping handlers do not deliver twice. A batch moves any number of
  messages at once (`Fetched`, `SliceFacts`).
* `LiveFeedProofs`, about `Sessions` and `LiveFeed` together: `TypeCorrect`,
  `SessionsIntact`, `Offboarding`, `RegistryIsExact`, `BroadcastReachesAll`.
  `BlocklistInv`: what memory blocks is on disk or known to be unsaved. `SessionInv`:
  all tokens of a session but the newest were ended. `GrantInv` carries the time a
  role was last held from the file to the cache (not older than the cache's reading)
  and into tokens (issued at most one TTL later); the bound of `OffboardedInTime` is
  the sum. `RegistryInv`: a registered connection is served on that feed. `OwedInv`:
  whoever is owed a message is connected.
* `CasesProofs`: `TypeCorrect`, `ChainUnbroken`, `NothingUndone`, `ExportsConsistent`.
  `LockInv` is the heart: the request at work holds the lock, so the copy it loaded is
  what the tables hold, and the entry it appends extends the stored chain.
  `ChainInv` adds that time stamps do not decrease, which the timeline's order
  needs. `LoggedInv` states the logging per case, with the change a request has
  stored and not logged. `AboutInv` and `ExportInv` follow the four queries of an
  export: the log is read before the items it names, and items are never removed.
* `EventMerger`, in `AgentCommandsProofs`: `ReportsAccountedFor`, `AddressesSurvive`,
  `PathTypeCorrect`. A report is the activity and the collector of an event, whatever
  address the merger has added. `PathInv` says that every report has exactly one of ten
  homes (not yet reported, the three channels, the fanout's hand, delivered, to be
  emitted, in a group, merged away, given up); that no channel holds a report twice,
  which is what makes the count of `OneEventPerGroup` one and not two; that a group's
  primary has the group's key; and that some event of the key still carries an address
  for each netlink report merged away. Each action moves a set of reports from one home to
  another (`HomeMoves`), and replaces an event by one of the same key that carries
  at least as much (`AddressPasses`).
* `ThreatIntel`, in `AlertPipelineProofs`: `ProbeSlotFreed`, `CacheIsSound`. `ProbeSlotNotLeaked`
  is inductive beside the types and the fact that the slot is taken in a half-open
  circuit only (`ProbeInv`); the step under it is that moving one call of one lookup
  leaves every other call where it is (`MoveCalls`). An entry of the cache expires one lifetime after its
  report was made (`Stored`), and an answer was given within that time (`AnswerInv`).
* `Rules`, in `EventStoreProofs`: `TemporalRulesFire`, `HistoryIsKept`.
  `TemporalExact` speaks of the last event only. `WindowsFollow` says of every window
  that it embeds in order into the matching events of the history, and that a matching event
  it lacks is older than all it has and either out of the timeframe or behind a full
  window; pruning, purging and the cap keep that, and counting the window and counting
  the history then agree up to the threshold (`CountExact`, by an injection).
  `TableInv` is `HistoryReplays` with the newest entry of a rule and the newest
  entry of each of its columns named. It holds although concurrent updates may reuse a
  version number, because the columns written are those logged, in one transaction.
  A rule that calls `count_events` needs less of its window: what it records must be in the
  history (`MayRecord`), what it lacks does not matter (`MustRecord` is empty for it).
* `ServerProcess`, in `LiveFeedProofs`: `ProcessesManaged`, `PluginsAlone`,
  `CheckpointSafe`. For the plugins, `LockInv` (one request at most is past the lock),
  `SandboxInv` (a plugin about to be started or stopped has no registered
  sandbox) and `RunInv` (a server that is down has neither). For the models,
  `HalfInv`, one for each half of the checkpoint: a save that has the half to itself has
  written what its step implies (`Wrote`), and what is kept can be loaded (`KeptInv`);
  of a half two saves write, only that nothing of it is kept. The steps of one half
  leave the other's files alone (`HalfFrame`), and states only grow, which is why
  training beside a save cannot make it older than what the save found. `PluginsAlone` (`SSpec => P!Spec`) says that inside the server process the
  plugin manager does nothing that `Plugins` on its own does not do.

Assumptions are the named `ASSUME`s of the modules: bounds are natural numbers,
sentinels are not elements of the sets beside them, a batch is a finite sequence, the
initial user tables are tables, finitely many events are linked to a case, channels,
windows and the purge period are not empty (`MergerAssumption`, `RulesAssumption`),
a source holds one rule per identifier (the one the loader reads last), and for
`AlertPipeline` that medium is a severity and that the windows fit into the
auto-close time. `OneServerChain` and `JournalAtTip` assume one server; with two the
chain forks, as `DecisionFork.cfg` shows.

Type correctness and `NoEarlyExpiry` are proved and need no run of their own.

Only model-checked is liveness (`ShutdownCompletes`, `PathDrains`, `Expires`,
`EventuallyStored`, `RequestsAnswered`), which is outside the prover.

## 6. What is not modelled, and the plan

In order of importance:

1. `Autonomy` (agent): the cascade window, the kill switch, the local rule store
   with rollback and the degradation levels; then the responder, whose commands the
   server does not send today apart from pings, throttling and the kill command.
2. The agent's side of a policy, `push_to_all` and the policy engine's known agents.
3. API keys, and the refresh endpoint's rate limit (which only refuses).
4. The in-memory bus of a single process, and the notification worker.
5. The web UI's token refresh and WebSocket reconnect.
6. The watchdog's baseline of files.
7. An abstract specification of the custody log for `Cases` to refine.

Left out for good: field mappings, formatting and exporters, floating-point scoring
and ML models, installers and other sequential scripts, read-only routes, page
rendering, packaging.
