# RASA: a verification development

RASA ("Reliable Autonomous System of Agents") runs LLM agents as processes that
share a PostgreSQL database and a Redis server. A Go control plane (`cmd/`,
`internal/`) routes tasks, watches heartbeats, recovers the tasks of dead
agents and evaluates policies; Python agents (`rasa/`) claim and run the tasks.
This directory holds TLA+ models of it, the TLC runs that check them, and
TLAPS proofs about them. Everything is translated from the source; where the
documents say something else, a run shows the difference (see *Findings*).

Check a model with `tlc -config MCPGBus.cfg MCPGBus.tla`, a proof with
`tlapm PGBusProofs.tla`. `PROJECT.json` maps each definition to its lines of
source and lists the runs, the faulty variants, hazards and theorems.

## 1. The system

| Component | State | Operations | Talks to | Hard part | What makes it correct |
|---|---|---|---|---|---|
| Message bus, PostgreSQL (`internal/bus/pg_*.go`, `rasa/bus/pg.py`) | table `bus_messages`, one queue of NOTIFYs per subscriber | publish, fetch and mark, reconnect | every component | NOTIFYs and rows are paired by order only; competing subscribers; lost connections | nothing handled twice, nothing left behind without a fault |
| Message bus, Redis (`internal/bus/redis_*.go`, `rasa/bus/redis.py`) | none | publish, subscribe | agents to controllers | messages are lost silently | receivers survive losses |
| Orchestrator CLI (`cmd/orchestrator`) | row of `tasks` | submit, cancel, retry, wait | bus, pool | three transactions, no lock | a task is never left with nobody responsible |
| Pool controller (`internal/pool`) | registry, index by soul, `hbSeq`, table `agents` | route, heartbeat, reap, launch, unblock dependants | bus, agents, `tasks` | overwrites statuses, two goroutines | routes only to agents of the soul; the table follows the registry |
| Recovery controller (`internal/recovery`) | `lastSeen`, ledger, log | heartbeat, reap, re-queue | bus, `tasks`, `checkpoint_refs` | acts on stale reads | the task of a dead agent runs again |
| Agent (`rasa/agent/runtime.py`) | state, current task, messages, checkpoints (Redis, table, file) | claim, tool rounds, result, pause, resume, recover, heartbeat | all | three coroutines, crashes | one run per claim; no work lost over a pause |
| Dispatcher and Python pool (`rasa/agent/dispatcher.py`, `rasa/pool`) | `tasks`, live agents | route row-less NOTIFYs, sweep, one-shot runs | `tasks` | sweeps race with daemons | a task is run once |
| Task DAG (`rasa/orchestrator/{delegator,dag,project}.py`) | `parent_id`, `task_dependencies` | create, assign, detect cycles (never called) | pool | NOTIFYs nobody listens to | dependants are unblocked, or a loss is on record |
| Chat runtime (`rasa/orchestrator/runtime.py`) | message list | turn, tool rounds, trim, retry | LLM, DAG | trimming | the list stays a valid conversation |
| Reviews (`rasa/orchestrator/reviews.py`, `internal/policy/human_review.go`) | `human_reviews` | request, answer, time out | agent, human | answer against timeout | an answer counts or is known to be late |
| Policy engine and client (`internal/policy`, `rasa/policy`) | rules, cache | evaluate, reload | agents | stale and failed reads, sheets that switch the rules off | a rule out for long is obeyed (it is not by all, see *Findings*) |
| Memory (`internal/memory`, `rasa/memory`) | `canonical_nodes`, `embeddings` | ingest, clear, embed | agents read it | commands at once, ids that change | the graph is the tree scanned; one embedding per node |
| LLM gateway (`rasa/llm_gateway`) | cache | complete, fall back | providers | cache key | an answer belongs to its question |
| Evaluation (`internal/eval`, `rasa/eval`) | sliding window | record, alert, snapshot | bus | restart, duplicates | the window holds the last n scores |
| Sandbox (`rasa/sandbox`) | directory per task | clone, gates, promote, clean up | bus, work tree | concurrent pipelines, partial copies, commands nobody kills | only gated changes are promoted |
| Soul loader (`rasa/agent/soul.py`) | cache of soul sheets | load, reload | agents | edits while it reads | an old sheet can be told from the file's time |
| Registry of souls (`rasa/orchestrator/capabilities.py`, `rasa/pool`) | `agent_capabilities` | reconcile | orchestrator | passes overlap, sheets half written | rows follow the sheets |
| GUI, CLI, scripts, launchers | pipes to the orchestrator's daemon | ask, reset, wait | chat runtime | late and doubled answers | answers come in order |
| `caravaneer/` | a trading game: ships, holds, market events | travel, fight, trade, turns | nothing above | calls in the middle of a trip, shared objects | nothing moves or appears unpaid |

The core is the path of a task: CLI → bus → pool controller → agent → recovery,
and beside it the older Python stack that does the same without rows of
messages. These interact through `tasks` and are composed in `TaskLifecycle`
and `PyPool`. The other components keep their state to themselves: each has a
module of its own, and one run checks them side by side (`components`). What is
left out is listed in *Not modelled*.

## 2. Modules

| Module | Models |
|---|---|
| `BusChannel` | abstract: what one channel of the durable bus promises |
| `PGBus` | `bus_messages`, NOTIFY, Go and Python subscribers of one channel |
| `TaskLifecycle` | a task's row and everybody who writes it: CLI, pool, agents, recovery |
| `AgentPool` | the pool controller's registry, index, sequence numbers and table `agents` |
| `AgentRuntime` | the two coroutines of an agent that run and steer a task, and the three checkpoint stores |
| `PyPool` | the Python stack: sessions that assign, the pool controller that hears NOTIFYs, daemons and one-shots |
| `OrchChat` | a conversation with the orchestrator: GUI, pipes, daemon, list of messages |
| `ToolGate` | what stands between an agent's tool call and the tool: rules, cache, reviews |
| `LLMGateway` | routes, fallback and cache of the model's answers, and their two callers |
| `SandboxPipeline` | clone, scan, build, test, promote, clean up |
| `SoulLoader`, `Capabilities` | the cache of a soul sheet; the registry of souls |
| `CanonicalModel` | ingestion of the source tree and its embeddings |
| `HexGrid`, `HexRoute`, `Caravan`, `CaravanTrade` | the game: geometry, route search, turns and trips and fights, goods and markets |
| `Components` | the modules from `OrchChat` on, side by side |
| `PGBusProofs`, `TaskLifecycleProofs`, `AgentPoolProofs`, `AgentRuntimeProofs`, `PyPoolProofs` | theorems about the module they are named for |
| `ServicesProofs` | theorems about `Components`: the gate, the sandbox, the LLM gateway, the chat, the soul loader, the registry of souls, the graph of the codebase |
| `GameMapProofs` | the same: the game's hexes and routes, and how induction is done |
| `GameProofs` | the same: the game's ships and markets, and the types of all parts |
| `MCPGBus`, `MCTaskLifecycle`, `MCAgentPool`, `MCAgentRuntime`, `MCPyPool`, `MCComponents` | instances for TLC |

`PGBus` implements `BusChannel` (property `ImplementsChannel`, checked and
proved). `TaskLifecycle` stands on `BusChannel`, not on `PGBus`: its `mail` is
the set of queued messages of the channel `tasks_assigned`, taken in any order
and lost at any time (`Take`, `LoseMail`), which is all the channel promises.
It knows of the pool controller's registry only which agents are in it;
`AgentPool` is that registry in full. It knows of a checkpoint only that there is
one, and of a run that it ends; `AgentRuntime` is the inside of the runs, and
takes from everybody else only that a task may become ASSIGNED (`Assign`).

Each module with a state machine has a section of *faulty variants*:
definitions with the parameters of one that follows, changed as a bug would
change it. No specification uses them; they are there to show that each
property notices such a change (`PROJECT.json`, "mutants").

### PGBus

`row[m]` is the row of message `m`: `none`, `open` (inserted, not committed),
`pending`, `consumed`, `rolledback`. `Insert` and `Commit` are the two halves of
`Publish`; other publishers commit between them, so ids and commits may come in
different orders. `RawNotify` is the `SELECT pg_notify(..)` of the agents and of
the delegator, which has no row. A subscriber's `pc` follows its dispatch loop:

* `Fetch`: take one queued NOTIFY and begin. A Go subscriber's SELECT takes a
  snapshot (`select`), then waits for the row lock (`LockRow`), looks at the
  status again (`locked`), marks and commits (`Mark`). A Python subscriber reads
  (`read`) and marks in a second statement, with no lock.
* `Mark` also calls the handler: nothing of the bus happens between the two.
  `LoseMark` is the same mark when the handler is never called.
* `FailFetch`, `Crash`, `Disconnect`, `Reconnect`: errors. Each but the last
  counts against `MaxFaults`.

NOTIFYs carry no data in the Go fetch nor in the Python one (`message_id` is
not used), so a queue of them is its length `owed[s]`. Other channels never
meet these rows. An envelope that does not parse is not modelled: every
publisher of the repository builds its envelopes.

### TaskLifecycle

One soul: agents claim by soul and the pool routes by soul. Each SQL statement
is a step. `Submit`, `SubmitAssign`, `Publish` are `cmdSubmit`; `RetryCheck`,
`RetryReset`, `Publish` are `cmdRetry`; `Cancel` is `cmdCancel`. `Take` and
`Assign` are `HandleTaskAssigned`: the agent is chosen, then the UPDATE is sent.
`Claim` is the transaction of `_poll_for_task`; `Finish` and `Wrapup` are the
result and `delete_checkpoint`; `Abort` is an unexpected error, after which the
row stays RUNNING. `RecReap` to `RecPublish` are the steps of
`reapDeadAgents`/`handleDeadAgent`.

Agents choose any ASSIGNED task, not the oldest: the query skips locked rows.
An agent id is never used again (the runtime makes a fresh one), so a restarted
agent is another member of `Agents`. Agents are launched by the Procfile
(`InitialAgents`) and by the pool controller (`spawns`).

`HasUpdatedAt` is a switch. `cmdCancel` and `cmdRetry` write a column
`updated_at` that no migration of the repository creates; with the migrations
as they are both commands fail at that statement. FALSE models the repository's
schema, TRUE a database that has the column.

Left out: pause, resume and recover (in `AgentRuntime`; nothing in the
repository sends on `agents.control.*`), `HandleTaskCompleted` (no row is ever published on
`task_completed`, so it is not called), and the Python pool and dispatcher
(module `PyPool`; the Procfile runs the Go pool).

### AgentPool

`inbox` is the Redis subscription, drained by one goroutine: `Hear` (Upsert),
`Number` (`hbSeq`), `WriteRow` (the row) handle one heartbeat. The reaper is the
other goroutine: `Remove` (RemoveDead, under the registry's lock), then for each
agent `Mark` (UPDATE to DISCONNECTED) and `Forget` (`hbSeq`). `Age` lets the time
limit pass for an entry at any moment. A heartbeat that is lost is one that was
not sent. An agent may send another soul than before (a soul reload). States
the enum `agent_state` does not have (RESUMING, RECOVERING) make the UPDATE
fail, which nobody looks at.

### AgentRuntime

A process runs three coroutines on one event loop; they interleave only at an
`await`. `pc[a]` is where the polling one is (`poll`, `warm`, `call`, the
steps of saving and deleting a checkpoint, `COMPLETED` or `FAILED` when about to
write that), `ctl[a]` the command the control one is obeying and its next step.
The third sends heartbeats and only reads `state` and the current task
(`AgentPool` has it).

* `Claim`, `Restore`, `Answer`, `Round`, `Write`: `_poll_for_task` and
  `_execute_task`. From the state ACTIVE to the first call there is no `await`, so
  `Restore` is one step. `Onward` says what follows a round.
* `SaveHot` to `SaveRef`, `DelHot` to `DelRef`: `save_checkpoint` and
  `delete_checkpoint`, store by store. They block the event loop, so the
  control coroutine waits (`Awake`), but other agents go on and a crash may
  come between two stores, or while the file is written (`Torn`). Redis and
  PostgreSQL may fail there; both failures are swallowed.
* `Pause`, `Resume`, `Recover` and the steps after them: the commands. The row is
  updated in a transaction of its own, for the task that was current when the
  statement was sent, and the state is set afterwards.
* `GiveUp` is the unexpected error of a call, after which the task is given up as it
  is; `Raise` is an exception elsewhere, which the polling loop catches and which
  leaves `state` and the current task as they were; `Crash` ends the process.
  A key in Redis may expire at any time.

A conversation is its number of rounds; a snapshot is that, the state saved with
it and who saved it. Left out: memory context and model (saved and restored with
the conversation), the replay bundle (written after the outcome, never read),
reviews and tools (part of a round; `ToolGate` has them), the model's answers and
the interactive mode (`LLMGateway`), and the end of the control coroutine when Redis drops its connection (then no command comes).
`_poll_for_task` has a second half, for RUNNING tasks with a checkpoint, which
cannot be reached: the `try` before it returns on every path.

### PyPool

`AskAssign` and `WriteAssign` are the SELECT and the UPDATE of `assign_task`, which
does not look again; `SpawnAgent` the daemon the session starts. `PoolSweep`,
`PoolListen`, `RouteToDaemon`, `SpawnForTask`, `HandleCompleted`, `StaleSweep`
are the controller's sweeps and handlers. A NOTIFY is put into `assignedQ` or
`doneQ` only while the controller listens (`pool = "up"`): between the startup
sweep and the LISTEN, and after a failed poll (`PoolDeaf`), it is gone. `ClaimDaemon`
is `_poll_for_task`, `ClaimShot` the dispatcher's `run_task`, which also takes a
PENDING task. `Age` lets the half hour pass after which `StaleSweep` fails a
RUNNING task, whose process may go on and write its result over it. The edges
of `task_dependencies` are a constant: no code of the repository writes them.

### The components

* `OrchChat`. The GUI's wait, the thread that reads the daemon's output, the
  daemon's main thread and its event loop. A request is its number; `outbox`
  holds the events that end a wait. `done` is written by `send_message` and again
  by the main thread (`Reply`, `Settle`), so that an answer may slip to the next
  request; `Overrun` is the hour after which the main thread goes on and the
  coroutine too.
* `ToolGate`. `GetRules` is the policy client's cache with its 30 s, `Tick` the passing
  of them; `Request`, `Respond`, `Look`, `StopWaiting` a review and its 60 s.
* `LLMGateway`. `complete` in steps: cache, route after route, fallback, store. What
  an answer was made for is recorded in it.
* `SandboxPipeline`. A file is a path and a version. Promotion goes file by file
  while agents edit the tree, and two processes may be handed one message. The
  command of a build or test that timed out, or whose pipeline died, runs on:
  `GaveUp` puts its task among the `strays`, `StrayWrites` lets it write whenever
  it likes, also under a later run of that task, `StrayEnds` ends it.
* `SoulLoader`. `load` reads the sheet, then the parent's, then takes the time of
  the file: an edit may come between any two. The parent's time is not looked at.
* `Capabilities`. A pass of the reconciliation is its transactions: upserts, the list
  of rows, deletions. A sheet may be half written; a load stops at the first
  sheet of the directory that does not parse.
* `CanonicalModel`. A run scans, maybe clears, writes and commits; rows keep their
  ids, edges are always those of the last run. A file may define a name several times
  (`code` counts; methods of one name on two receivers count as one name), and each match
  has an id of its own, of which the row keeps the first. Jobs embed the nodes they chose in
  batches, while the table may be cleared.
* `HexGrid`, `HexRoute`. Lines with the rounding of Python, rings and discs; A* pass by
  pass, checked against a relaxation that is the reference. `Caravan` uses `HexGrid`.
* `Caravan`. One thread; `trip`, `fight` and `npc` are the calls under way, cell by cell
  and round by round, in the order of `process_turn`. What dice decide is a choice.
* `CaravanTrade`. A hold is its list of stacks; a sale looks at one stack and removes
  from the first. An event is one object in the lists of several systems.

## 3. Runs

Runs of TLC; "violation" runs show a finding.

| Run | Instance | Checks |
|---|---|---|
| `bus` | 2 messages, 2 Go and 1 Python subscriber, 2 faults or 1 row-less NOTIFY, fairness | `TypeOK`, `NoRowLeftBehind`, `GoHandsOutOnce`, `ImplementsChannel`, `LoyalSubscriberDrains` |
| `bus_replay` (violation) | 1 message, 1 Go subscriber, 1 fault, fairness | `ReplayedOnReconnect` |
| `lifecycle` | 1 task, 3 agents, 1 retry, `updated_at`, 2 faults, fairness | `TypeOK`, `RunsArePaidFor`, `PendingIsTracked`, `RunningIsTracked`, `TasksSettle` |
| `completed_is_final` (violation) | 1 task, 2 agents, no fault | `CompletedIsFinal` |
| `orphan_requeued` (violation) | 1 task, 2 agents, 1 fault, fairness | `OrphanIsRequeued` |
| `pool_record` | 2 agents, 2 souls, 2 states, 1 waiting heartbeat, 1 fault, fairness | `TypeOK`, `IndexAgrees`, `NothingIsLeftBehind`, `BeatingAgentReadsLive` |
| `agent_runtime` | 2 agents, 1 task assigned twice, 2 rounds, a checkpoint after the second, 2 commands or faults | `TypeOK`, `LoadIsNewest`, `CheckpointsAreDeleted`, `RowsAreWorked`, `ReportsItsWork` |
| `checkpoint_resumes` (violation) | the same, 1 command or fault | `ResumesFromCheckpoint` |
| `py_pool` | 3 tasks, the third depends on both others, 1 daemon, 2 sessions, 2 requests, 1 fault, fairness | `TypeOK`, `ClaimsArePaidFor`, `AssignedIsTracked`, `NoDependentForgotten`, `AssignedTasksEnd` |
| `components` | eleven parts, each with its own bounds (`MCComponents`) | `TypeOK`, `GridIsSound`, `ShipsMoveByPaying`, `TradeIsSound`, `RoundsAreWhole`, `AnswersComeForward`, `GateHolds`, `PromotedWasScanned`, `OldSoulsAreStale`, `AnswersFitTheirCalls`, `RowsFollowSheets`, `GraphIsWhole` |
| `sandbox_timeout_kills` (violation) | the sandbox alone, 1 process that does not die, 1 fault | `TimeoutsKill` |
| `guardrails_bind` (violation) | the gate alone | `GuardrailsBind` |

Two more configurations show findings about the game and are not among the runs of
`PROJECT.json`: `MCComponentsFlight.cfg` (the ships alone) violates `RidesStand`,
`MCComponentsTrade.cfg` (the markets alone) violates `EventsLast`.

The parts of `components` share no state and no step in the code, so there is
nothing to interleave between them: `part` names the one that a behaviour is of,
and the others stay as they begin. What is found is what eleven runs would
find, and each property speaks of its part alone.

What the properties say:

* `NoRowLeftBehind`: for each subscriber, the pending rows are at most its queued
  NOTIFYs, its fetch under way and its recorded losses. The code answers a NOTIFY
  with whatever row is oldest; this is why that is sound.
* `GoHandsOutOnce`: locking subscribers hand a message out once, all together.
* `ImplementsChannel`: the refinement of `BusChannel`.
* `LoyalSubscriberDrains`: a Go subscriber without a recorded loss leaves no row
  pending for ever.
* `RunsArePaidFor`: a task is claimed at most once for its submission and once
  per message published for it. Double runs happen (see findings), but are
  bounded.
* `PendingIsTracked`, `RunningIsTracked`: nobody polls for PENDING or RUNNING, so
  in each there is somebody who will act, or a recorded loss.
* `TasksSettle`: without a dropped message or a run given up, the task ends.
* `IndexAgrees`: routing by soul finds the agents of the soul.
* `NothingIsLeftBehind`: rows and sequence numbers of reaped agents are cleaned
  up, whatever the interleaving of handler and reaper.
* `BeatingAgentReadsLive`: a row wrongly marked DISCONNECTED heals.
* `LoadIsNewest`: whichever store answers, `load_checkpoint` returns the last
  checkpoint saved, and nothing once it is deleted; expiry of the key does not
  matter. It fails, and the invariant says so, after a save or deletion that was
  interrupted, met another one of the task, or lost its Redis half.
* `CheckpointsAreDeleted`: whoever runs a task deletes its checkpoint in the end, also
  if two agents run it at once; what is left behind is on record in `left`.
* `RowsAreWorked`: RUNNING and PAUSED are polled by nobody, so a row that reads so has
  somebody who will write its outcome, or a recorded crash, exception or late command.
* `ReportsItsWork`: the state and current task that two coroutines write agree with
  what the agent does, unless a command or an exception came.
* `ClaimsArePaidFor`: a task is started no more often than it was assigned, although
  a daemon, the sweep's one-shot and one-shots of late NOTIFYs all reach for it.
* `AssignedIsTracked`, `NoDependentForgotten`: an ASSIGNED task, and a PENDING one whose
  upstreams are done, has somebody on the way, or the loss is on record: a NOTIFY
  nobody listened to, a failed sweep or launch, daemons that died.
* `AssignedTasksEnd`: if the controller stays up, an ASSIGNED task ends or is lost on
  record; a run whose process died is failed after half an hour.
* `GridIsSound`: a line is as long as the distance by which jumps and fuel are
  counted, and goes from neighbour to neighbour; a disc has no hole; a route
  found is a cheapest one, and its jumps are within the range.
* `ShipsMoveByPaying`: a ship is where its last paid trip was to end, and nothing but a trip
  moves it; an NPC's wreck never comes back. That drift, wormholes and teleports do not
  count is what the code does, as the arrival overwrites them, and not what it means:
  `RidesStand` states the intention and fails (finding 7).
* `TradeIsSound`: units of goods are conserved over purchases, sales, loot and robbery; an
  event is felt no longer than announced. That it is felt *as long* as announced is
  `EventsLast`, which fails (finding 8).
* `RoundsAreWhole`: trimming leaves results without their calls only at the front
  of the list; everywhere else each result follows its calls.
* `AnswersComeForward`: answers may slip behind but come in order, and none is shown
  more than twice.
* `GateHolds`: a confirmed tool runs on an approval of that very call and once; an
  approval is acted on or given up; a rule out for longer than the cache's 30 s is
  obeyed by whoever could read the rules and has `auto_invoke` on. An agent that has it off
  looks at no rule and runs what it likes: that no agent may is `GuardrailsBind`, which
  fails (finding 6).
* `PromotedWasScanned`: a run writes nothing to the tree that was not in its directory when
  it scanned or that its own build and tests did not write after, unless it shared the directory
  with another process or with a command that an earlier run had given up on. That
  there is no such command is `TimeoutsKill`, which fails (finding 5).
* `OldSoulsAreStale`: a soul that is not the sheet on disk can be told by the time,
  unless the edit came between reading and taking the time.
* `AnswersFitTheirCalls`: a call with tools or a conversation never gets a cached answer,
  and a cached one was made under the same key.
* `RowsFollowSheets`: at rest, souls that could be loaded all along have a row that is
  not older than their sheet was, and souls that never could have none.
* `GraphIsWhole`: after an undisturbed run on an empty table every name of the tree has a
  row, and an edge leads to a node unless its package defines the name twice, in two
  files or in one; every embedding is of a node that exists, and a node has one unless
  two jobs ran at once.

**Bounds.** `MaxWakes`, `MaxFaults`, `MaxRetries`, `MaxInbox`, `NumTasks`,
`MaxAssignments`, `MaxEvents` and `Mortal` (the sandbox processes that may die) appear in guards (`NumTasks` as the set of tasks)
and only there. Two messages let a
NOTIFY fetch the other's row and two ids commit out of order; two Go subscribers
and a Python one give every pair of competitors. Tasks of one soul meet only in
the agents (which take any) and in `RecFind` (which takes the newest); one task
with three agents gives a dead, a running and a late-routed agent at once, and
safety also holds with two tasks (two agents, two faults, no retry; 4.9 million states). The
run of the bus has faults or a row-less NOTIFY in a behaviour, not both (`MCSpec`), since
liveness admits no symmetry; the proofs cover both at once.
In `agent_runtime` two assignments put two agents on one task, the only way in
which they meet; two rounds with a checkpoint after the second reach each step
once (three rounds pass as well, with 8.9 million states); `MaxEvents` is
shared by commands, crashes and failures, so that each pair of them occurs.
Two faults in a row are what a loss during a recovery needs. In `py_pool` two
upstreams make a dependant wait for the later one; two sessions may assign one
task twice, and one fault meets each loss. In `components` the parts have: three
requests and a history of three messages (a late answer has two waits to end, a
trim cuts a round of two calls); two agents, two tools, two reviews, one edit of
the rules; two sandbox processes for one task, three messages, one edit of the tree and one
crash or failed gate, so that they share its directory and one finds what a crash left or
a command that still runs; three edits of a sheet; four
tasks of which two share a key; two controllers over two sheets; two ingestions
and two embedding jobs over a package of two files, each of which may define one name up to
twice (`MaxCopies`); discs up to radius 4, where
every rounding case of a line occurs; maps of 19 hexes of which four have any
terrain; a map with one hex of each kind, a person and a pirate; two goods, one of them
illegal somewhere, and an event of two systems. The proofs drop all bounds for
the safety properties they cover.

**History variables.** `missed`, `claims`, `sent`, `dropped`, `orphaned`,
`excused`, `newest`, `dirty`, `mixed`, `left`, `lost`, `late`, `meddled`, and in the later
modules those whose declaration says *history*, record what happened; no guard
reads them.

**Fairness.** `PGBus`: the dispatch loop of a live Go subscriber runs; nothing is
assumed of the Python one, whose driver delivers NOTIFYs only when its
connection happens to be used, nor of publishers. `TaskLifecycle`: commands go
on, handlers handle, agents poll, finish (ten rounds at most, each with a
timeout) and beat, the reapers reap who is dead; a user need not do anything and
no fault has to happen. `AgentPool`: both goroutines run; no agent has to beat.
`PyPool`: handlers, sweeps and
one-shots run, daemons poll and end their runs, time passes; no session need ask.
`AgentRuntime` and the components check safety only. All of it is weak fairness: no step depends on being enabled only now and then.
Deadlock is not checked where the system may stop (all messages handled, every
process dead, the bounds used up); it is for `AgentPool`.

## 4. Proofs

All theorems are of the form `Spec => []P` (and `Spec => Channel!Spec`), for all
values of the constants, from the assumptions the modules name:

* `BusAssumption`: finitely many messages, a subscriber is Go or Python;
* `LifecycleAssumption`: finitely many agents, the reserved names are none of them;
* `PoolAssumption` of `AgentPool` (the states sent are states of an agent) and of
  `PyPool` (the tasks are numbered, dependencies are between tasks);
* `RuntimeAssumption`: at least one round, a positive checkpoint interval;
* `PartsAreSound` of `Components`: each part's constants are as its module says
  (`GateConstants`, `ChatConstants` and so on). Besides the kinds of the constants these
  say that reserved names are no members of the sets (`"empty prompt"` is no task, `"none"` no
  run, the lair no ship), that humans and NPCs are different ships, that the files of a
  scan are listed once each and the souls at least once, that there are goods and finitely
  many systems, and how a game is laid out.

A theorem about a part reads `Spec => []P` with the `Spec` and the `P` of
`Components`, as the run checks them; it holds for behaviours of that part, whatever the
others' constants are, and the first lemma (`PartsMove` of `ServicesProofs`, `GameMoves` of
`GameMapProofs`) is that a step of the whole is a step of the part that moves.
`PartTypes` puts the parts' types together: it is `TypeOK` as the run checks it.

* **Bus** (`BusInv`). `ReachInv` says which row a fetch has in hand, `LockInv` that the
  row a Go fetch has locked is pending and locked by nobody else, `FreshInv` that
  no handler was called with a row that is not consumed. `NoRowLeftBehind` is not
  inductive: a Go fetch that waits for a lock and then finds its rows consumed
  gives up its NOTIFY, and one has to know that the rows *outside* its snapshot
  are covered by the other NOTIFYs; `CoverInv` adds that. `GoHandsOutOnce` follows
  from `LockInv` and `FreshInv`: who delivers is the only one to hold the lock of
  a row nobody delivered. For the refinement each action of `PGBus` is shown to be
  one of `BusChannel` or a stutter.
* **Lifecycle.** `RunsArePaidFor` is not inductive: a claim makes `claims` grow and
  says nothing of `sent`. `PaidInv` adds the claims still to come without a new
  message (`Outstanding`: an ASSIGNED status, queued messages, the routed UPDATE,
  a submission not yet assigned) and is. `PendingIsTracked` and
  `RunningIsTracked` are inductive with the type invariant.
* **Pool.** `IndexAgrees` is inductive with types. `NothingIsLeftBehind` needs
  `HeldInv` (the agent in the handler is in the registry and fresh, or excused)
  and `MarkedInv` (an agent the reaper marked reads live again only if it was
  heard of again).
* **Runtime** (`RuntimeInv`). `Shape` says that a dead agent does nothing and who
  does not poll has a task. `ReportsItsWork` becomes inductive as `ReportInv`, which
  adds that no command is being obeyed and which states a busy agent can have.
  `LoadIsNewest` is a statement about moments when nobody
  writes; the two facts that carry it over a save are `CleanInv` (a save or deletion
  that is not dirty is the only one of its task, and each store it has passed agrees
  with `newest`) and
  `QuietInv` (when none is under way and the last was not dirty, the file is `newest` and so is
  the key, if there is one: hence expiry is harmless).
* **Python pool.** `AssignedIsTracked` and `NoDependentForgotten` are inductive with the
  type invariant. `ClaimsArePaidFor` needs `PaidInv`: an ASSIGNED task has an
  assignment that no claim has used, and nobody was sent to a task that is PENDING
  or not there yet; hence the one-shots, which would take a PENDING task too, never do.
* **Gate.** `GateHolds` needs three things: `TicketInv`, that the review an agent waits
  for belongs to the call it makes and has let nothing run; `PromiseInv`, that an
  approved or open review is waited for, used or given up; `FreshInv`, that who could
  read the rules a short while ago knows those that were out before.
* **Sandbox.** `AloneInv`: a process that is not recorded as crowded has its directory
  to itself, and no command given up earlier runs in it, as those only come to be when
  a run ends; `CleanInv`: from the scan on, such a directory holds nothing but what was
  scanned and what the run's own commands wrote.
* **LLM gateway** (`GatewayInv`). `CacheInv` says what can be under a key: no answer to a call
  with tools or a conversation, and an answer to a task only if the task has that key.
  `TalkInv` says that whoever waits for an answer has its conversation stand still, so that
  the answer that comes is for the conversation as it stands; `ResultInv` says the same of
  answers on their way.
* **Soul loader** (`LoaderInv`). What a load under way has read is the sheet as it is, or
  an edit is on record; no time on record lies ahead of the file's.
* **Registry.** `RowsFollowSheets` speaks of moments when nobody is at work, so it says
  nothing of the passes that lead there. `DebtInv` says that a row is as it should be or
  some pass has still to load or to delete it; `WatchInv` that a soul that could be loaded
  all the time is loaded or about to be by every pass under way, and deleted by none, and one
  that never could is not loaded; `AgeInv` that what a pass has loaded is no older than the
  sheet was when the passes began.
* **Graph.** `WipeInv`: what a run has deleted is every row there is, unless it met another
  run; `WholeInv`: the table holds what the run that filled it found; `EdgeInv`: an edge
  names a node that has a row. The lemmas say what the write of a run makes of each row
  (ids are kept, or that of the first match; edges go to each match the last run found), so that an
  edge into nowhere is one to a second match of its name (`Twice`). `JobInv`: what a job has still to do is not embedded, while it
  is the only one.
* **Ships** (`FlightInv`). That wrecks stay needs `LiveInv`: neither a turn nor a trip is of
  an NPC that was a wreck when a turn ended. `FlightShape` says which records and functions
  the game's variables are. That no tank goes below zero is part of the types, and needs
  that the fuel an arrival takes has been there since departure (`Payable`): a departure
  compares it in `can_travel`, no fight is under way with a trip (`FightTypes`), and no cell of
  the way takes fuel (`TripKeepsTypes`).
* **Markets** (`TradeInv`). `GoodsConserved` is inductive with the kinds of the variables
  (`BooksInv`), but a step of it is arithmetic on loops: a sale walks over stacks, takes from the
  first of the good and drops it when empty, a robbery walks over the goods. `HeldIs` says
  what a loop over a hold counts; `HeldAppended`, `HeldChanged` and `HeldTaken` what it counts
  after a stack was added, altered or removed; the lemmas after them follow each loop of the code round
  by round. `EventsInv` says that turns to go and turns gone are together no more than
  announced, with the case of an event in several systems that is counted down once and
  lapses in all of them.
* **Grid.** `DistanceIs` writes distances in coordinates. What rounding does is said once
  (`RoundIs`) and then without division; from it `LineSteps`, by cases on how the coordinates of the line
  are ordered, shows that the points of a line are neighbours, although each was rounded on its own
  and the third coordinate was corrected. `RingIs` says that a ring is the hexes at its
  distance and that none is met twice, `DiscIs` the same of discs.
* **Routes** (`RouteInv`). `BestInv` is about the reference: a best cost is one that some neighbour
  accounts for, and after the relaxation no neighbour offers less. `SearchInv` is what makes
  A* right: a hex with a cost is `Open` (in the heap, with that cost or a better one) or
  `Closed` (its neighbours cost no more than by way of it). It gives `GoalIsCheapest`: when
  the goal comes off the heap, no hex on a cheapest way to it can still be open, as the distance times
  ten is never more than what is left to pay. `PathInv` is about the way back and the jumps
  along it. `RoutesBeatAllWays` is more than the run checks: it says, without the
  relaxation, that no sequence of neighbours of any length from the start to the goal costs
  less than the path found.
* **Chat** (`ChatInv`). `QueueInv`: requests are in the queue in their order, later than
  all that were begun, and nothing is at work but the one served or one that overran.
  `RoundInv`: while tools run the last message is of their round, which makes
  `RoundsAreWhole` inductive; that trimming keeps it is a lemma about `SubSeq`
  (`TrimmedIsWhole`). `AnswersComeForward` is about what was shown. `OrderInv` adds what was
  read and what is written, and that none of it is of a later request than the one served
  and those still queued. `CountInv` adds up the answers to a request: shown, read, written,
  owed by the main thread, owed by the coroutine, or not begun, which counts for two. The
  sum never grows, and starts at two.

**Induction.** The provers cannot instantiate the library's induction theorems, whose premise
is an operator. `GameMapProofs` does induction with sets instead: a non-empty set of naturals has a least
one (`LeastNumber`), hence a set with 0 and with the successor of each of its members up to
a bound has all of them (`Induction`). `LoopEnds` derives from it that a recursive function
`f[i \in 0..n] == IF i = 0 THEN start ELSE step[i, f[i - 1]]` exists and is what its
definition says. With these, what a loop of the grid, of a route or of a market computes
is a theorem and not only a check over small inputs; the loops are written as such functions for this.

The strengthened invariants were checked with TLC on the instances of the runs before they
were proved (`RouteInv` and `EventsInv` over 92,037 states of these two parts).

Only model-checked:

* the liveness properties (`LoyalSubscriberDrains`, `TasksSettle`, `BeatingAgentReadsLive`,
  `AssignedTasksEnd`), since the prover has no support for fairness and ENABLED;
* the six violations, and the two of the game.

Every invariant and every action property of a passing run is a theorem.

## 5. Findings

1. **Reconnection replays nothing** (`bus_replay`). `message_bus.md:65` promises it;
   the dispatch loop skips the notification that announces a reconnection.
2. **COMPLETED is not final** (`completed_is_final`). The pool controller's UPDATE
   to ASSIGNED has no condition, and the CLI makes the task claimable before the
   pool hears of it. No fault is needed.
3. **The orphan of a dead agent is not found** (`orphan_requeued`). Recovery looks
   for `assigned_agent_id`, which a claim does not write.
4. **A restored checkpoint is not used** (`checkpoint_resumes`). The rounds are put
   into a field; the tool loop starts from a new list.
5. **A timeout kills nothing** (`sandbox_timeout_kills`). `sandbox_pipeline.md:49-50` has the
   process tree of a build or test killed that takes too long; `wait_for` only stops
   waiting. The child may write into the directory of a later run of its task after
   that was scanned, and what it writes is promoted.
6. **Guardrails do not bind** (`guardrails_bind`). `policy_engine.md:25` says that the
   organization's rules cannot be overridden by soul sheets and line 78 that with
   `auto_invoke: false` all calls need an approval; with it `evaluate` answers `review` before
   it reads a rule, and the runtime holds back only what is answered `deny`.
7. **Wormholes lead nowhere** (`RidesStand`, `MCComponentsFlight.cfg`). `core.py:110` calls them instant transit
   and the player is told of the jump; the arrival sets the position to the
   destination again. Drift in a nebula (`travel.py:173`) and the teleport of an anomaly (335)
   come to nothing in the same way.
8. **Events are over too early** (`EventsLast`, `MCComponentsTrade.cfg`). `game.py:274` announces an event's turns; a
   turn counts it down once for each of its systems.

Smaller ones, seen while reading and not shown by a run: `message_bus.md:67` says
"at-least-once" while both subscribers mark a row before they handle it (the
model has this as `LoseMark`); cancel and retry write a column the schema lacks
(`HasUpdatedAt`); `README.md:77` says 30 s where the recovery controller waits
15 s; the search for crashed tasks with a checkpoint (`runtime.py:197`) cannot be
reached, while the recovery controller leaves exactly these tasks to it; the
UPDATEs of pause and resume have no condition and may revive a task that ended
meanwhile (`late` in the model); `pause` saves, and the replay bundle ("complete",
`replay.py:26`) holds, the conversation of the interactive mode, not the one
the task runs on; after a failed write to Redis a load prefers the older key
(`mixed`).

Of the components: the orchestrator's daemon writes `done` twice, as nothing sets
`_sent_done`, and a second one that is read after the GUI sent its next request is taken for
the answer to that, as is an answer that comes after the GUI gave up
(`AnswersComeForward` says how far this goes);
the sandbox's reaper of orphans compares `time.monotonic()` with the
times of files and reaps nothing; a second ingestion without `--clear` leaves edges to
ids that no node has, since nodes keep the old ones; so does a first one, also with `--clear`,
where a package defines a name twice: the commands, all package `main`, define `main` each, and
two methods of one name in a Go file would do too (no file of the repository has them
now); the embedder's `ON CONFLICT` never
applies, as every row has a fresh id, so two jobs at once embed a node twice; its column is
`vector(1536)` while the default model makes 768 numbers; a request for human input without a
task fails, as an empty string is no UUID; the fallback of the gateway drops
`messages` and `tools` of a call; two tasks of one soul without tools may share a
cached answer, since their prompt is empty; `eval/runner.py:84` calls
`GatewayClient.complete` with arguments it does not take; `DISCOVERY`, a victory of the
game, cannot be reached, since a trip reveals the system before it asks whether it was
known; the bootstrap command writes tables no migration creates; the
policy client allows everything until it has read the rules once.

## 6. Not modelled

* *Nobody calls it.* The Go policy engine and `human_review.go` (nothing publishes
  `policy.validate`); the session store and `UpsertNode` of `internal/memory` (only
  tests write there); `detect_cycle` (no caller passes a `parent_id`);
  `HandleTaskCompleted` of the Go pool, by way of rows (no row is published on
  `task_completed`); `recordBackpressure`; the second half of `_poll_for_task`;
  `caravaneer/gui/app_ref.py`, which does not compile; `natsutil`.
* *Nobody reads what it writes.* The replay bundle, the recovery ledger and log, the
  projects (only listings), the evaluation's scores and window.
* *It cannot work as it is.* The evaluation's runner and the bootstrap command (above).
* *Its state is data only.* Vector search, the patterns of the scanners and of the policy rules,
  rendering of prompts, what each tool and each model answers, configuration of
  providers, encoding of envelopes.
* *It shows or launches.* GUI views, listings, `status` and `logs`, the scripts (with
  `ingest_lore.py`), the launchers, the dispatcher's command line.
* *Of the game*: technologies, rumors, factions' standing and victory, which are counters that
  one thread changes in one place; its views.
* *Redis channels* other than heartbeats: their listeners keep no state. Commands on
  `agents.control.*` are actions of `AgentRuntime`, sent by whoever might.
