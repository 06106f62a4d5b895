# A verification project for PromptTrail.ts

This directory holds TLA+ specifications of the parts of PromptTrail.ts whose
correctness depends on the order of things: interleaved calls, crashes between
two writes, writes that fail, timers, leases that expire. The modules are
translated from the TypeScript in `src/packages` and `src/claw`; TLC checks them on small
instances and TLAPS proves the central theorems for instances of any size.
`PROJECT.json` maps every definition to the lines it stands for.

All paths below are relative to `src/packages/core/src` unless they start with
`packages/`.

## 1. The system

PromptTrail is a library for LLM agents. An *agent* is a graph of nodes (system
and user messages, model turns, tools, transforms, loops, sleeps). `PromptTrailApp`
(`durable.ts`) runs agents *durably*: a run has an inbox, a session (the
conversation), a cursor into the inbox, the graph coordinate it is suspended at,
memos of keyed effects, timers and a delivery outbox, all kept by a *run store*.
A runtime server connects runs to chat platforms, a launcher replaces one
version of a bot by the next under a store-wide lease, and a supervisor lets a
bot install skills it wrote itself.

| component | state | operations | interacts with |
|---|---|---|---|
| per-key mutex (`utils/keyed_mutex.ts`) | map from key to the tail of a promise chain | `run(key, fn)` | run locks, conversation locks |
| store lease and fencing (`durable.ts`, the stores) | one lease row (holder, token, expiry); in the app: lease state, lost flag, heartbeat | acquire, renew, release, handoff, fenced writes | launcher, every write of the app |
| checkpoint execution (`durable.ts`, `checkpoint_continuation.ts`) | the stored run, its copy in memory, the baseline of the last session delta | send, resume, append, persistRun, fireTimer, armTimer, recovery scan, rollback | mutex, stores, graph executor |
| graph executor (`graph_executor.ts`) | position, consumed inputs, session, skip set, loop counters | one handler per node type | sources, once memos, timers, observers |
| run stores (`packages/store-*`) | rows of runs, inbox entries, deltas, memos, timers, outbox | get, create, patch, append..., upsert..., recordOnce, lease | app |
| runtime server and outbox (`runtime_server.ts`, `runtime_dispatch.ts`) | conversation locks, delivery outbox, bindings, presence | dispatch, deliver, retry | app, gateways |
| execution events (`execution.ts`) | the observers, a queue per observer, claims of deliveries, middleware chains | add, remove, emit, report a failure, claim a write | everything the executor does |
| recording and replay (`recording.ts`, `replay.ts`, `replay_pins.ts`) | the record stream of a run, the cassette of a replay and what it has used | record, append, match, miss, self-check | model and tool calls |
| Codex client (`codex_app_server.ts`) | the current socket, pending requests, pending turns | request, approve, notify, close, time out | external process |
| provider turns (`codex_turn.ts`, `claude_turn.ts`, `claude_agent.ts`) | the thread of a node and its restarts, open model events | start or resume a thread, record it, restart | run store, Codex client, Claude SDK |
| model sources (`source.ts`, `generate.ts`, the adapters, `conversation.ts`) | rounds of tools, attempts, handles for what a provider remembers, the state of a stream | ask, stream, run tools, retry | providers |
| launcher (`packages/launcher`) | the child of a deploy, the holder before it, the verdict | verify, launch, hand off, watch, roll back | lease, processes |
| claw skills (`claw/src/skills`) | a registry row and its versions, health, files, the map of bound skills | author, gate, activate, dispatch, scan, promote, quarantine, roll back, reload | agent runs, the file system |
| agent builder (`templates/`, `graph.ts`) | the tree of templates, the graph and its manifest | add a node, expand a tool loop, validate | graph executor |
| cron, Telegram, Discord (`packages/cron`, ...) | armed jobs, jobs in flight, polling offset, listeners, progress messages | start, stop, fire, poll, deliver | runtime server, platforms |

What is hard about it:

* **Interleaving.** Sends, resumptions, the recovery scan and the timer sweep of
  one run meet at one mutex built from promise chains; its map must drain
  without ever letting two calls in.
* **Two writes for one fact.** A checkpoint is a session delta and then a
  patch of the cursor; an input is an inbox entry and then a status; a fired timer
  is a mark and then a resumption. A crash or a failed write may come in between.
* **State in memory that outlives a failure.** The app keeps a delta baseline,
  SQLite keeps live run objects; both may disagree with the database after a write
  that failed.
* **Leases.** Heartbeats answer late, leases expire under a live process, writes
  arrive after a handoff.
* **Progress.** A run whose process died must be found again, and a timer must
  fire, without anybody calling.

What makes each component correct:

* mutex: one call at a time per key, in order of submission; no entry stays
  behind; every call gets its turn.
* lease: a token has one holder and only grows; while a lease is live only its
  holder writes.
* checkpoint execution: no input is skipped; without a fault none is repeated;
  what the store has is not taken back; a keyed effect is repeated only to make up for
  a fault; timers fire; orphans are resumed.
* delivery: an assistant message that was delivered is not delivered again, and
  those of one conversation keep their order.
* recording: replaying the recorded agent gives the run again; each record answers
  one call, and a changed agent hears the old answers until its first change.
* provider clients and turns: a caller gets the end of its own turn, every call ends,
  a thread of a run is stored before it is used, restarts are counted over crashes.
* model turns: a request amounts to the session whatever the provider remembers, every
  call in it is answered, a streamed message is the one the model wrote.
* observers: one write per event, in the order of the events, and nobody waits for ever.
* deployment: a candidate becomes the writer only by the cutover of its own deploy, and
  one that is not promoted leaves nothing behind.
* gateways: an update is confirmed to the platform only when it was handled, and is handled in
  the end; a server that was stopped, and not while it started, has no poll and no timer; one progress message per tool event.
* skills: what is bound is what is active and what passed the gate; a restart and a
  rollback agree on it; a skill that failed too often is live again only after the gate passed it.

## 2. Modules

| module | what it is | extends or instantiates |
|---|---|---|
| `SerialLanes` | abstract: one serial lane per key | |
| `KeyedMutex` | the promise-chain mutex, one action per step between awaits | |
| `Gateways` | Telegram, Discord and cron, the server that starts and stops them, and the dispatches that meet at the conversation mutex | `KeyedMutex`; refines `SerialLanes` |
| `GatewaysProofs` | exclusion, order and drainage of the mutex; gateways use it as it is meant, forget no update, stop, and post progress once | `Gateways`, `FiniteSetTheorems`, `TLAPS` |
| `StoreLease` | lease row, heartbeat, fencing, handoff, crashes | |
| `CheckpointRun` | one durable run, its store, its executions and its faults | |
| `CheckpointRunProofs` | what a run keeps over every fault, for any graph and any number of inputs | `CheckpointRun`, `SequenceTheorems`, `WellFoundedInduction`, `TLAPS` |
| `AtomicStore` | abstract: the tables of a run, every call at one moment | |
| `RunStore` | the five stores, statement by statement, and who calls them about one run | refines `AtomicStore` |
| `StoreProofs` | the stores implement `AtomicStore`, list what they have and survive torn reads; the lease for any number of apps; what a deploy leaves behind | `RunStore`, `Deployment`, `StoreLease`, `FiniteSetTheorems`, `SequenceTheorems`, `TLAPS` |
| `ReplyQueue` | abstract: the replies to each target, a queue served from its head | |
| `DeliveryOutbox` | the deliveries of one conversation: server, background turns, outbox, crashes | refines `ReplyQueue` |
| `DeliveryOutboxProofs` | a reply received again was not recorded, a start delivers what was due, the outbox implements `ReplyQueue` | `DeliveryOutbox`, `FiniteSetTheorems`, `WellFoundedInduction`, `TLAPS` |
| `CodexClient` | the callers of a Codex client, its sockets, its tables, the server and its timers | |
| `CodexClientProofs` | a call gets its own turn and misses no completion, for any callers, sockets and failures | `CodexClient`, `TLAPS` |
| `ProviderTurn` | a Codex or Claude node of a durable run over crashes and restarts | |
| `ProviderTurnProofs` | restarts, lost threads and model events of a node, for any number of turns and faults | `ProviderTurn`, `FiniteSetTheorems`, `TLAPS` |
| `ObserverBus` | the observers, their queues, reports of failures and claims | |
| `ObserverBusProofs` | every event is written once and in order, for any observers, events and failures | `ObserverBus`, `FiniteSetTheorems`, `TLAPS` |
| `AgentGraph` | the builder of agents: ids, tool loops, old templates, the graph, its validation and manifest | |
| `GraphWalk` | one execution of a graph as a function of the answers given so far: every node, middleware, hooks, wrappers | `AgentGraph` |
| `Replay` | a recorded run over attempts and redeployments, and its replay with any agent, keying and miss policy | `GraphWalk` |
| `ModelTurn` | a conversation with a model API: instructions, items, handles, schemas, streams, rounds of tools | |
| `SkillSupervisor` | the life of one self-authored skill | |
| `SkillSupervisorProofs` | what is bound, gated and restarted, for any versions and authors | `SkillSupervisor`, `TLAPS` |
| `Deployment` | deploys one after the other, the children and the lease | |
| `MC...` | the instances TLC checks | the module of the same name |

### KeyedMutex

`locks` is the map of the class, a promise is the call that settles it. `Submit`
is the synchronous part of `run` (read the previous chain, create the own promise,
store the new tail); `Start` is the continuation after `await previous`; `Finish`
is the `finally` block (resolve, and delete the entry if it is still the own
tail); `Settle` is the later micro-task in which the `then` of the chain
settles. A call therefore can be submitted, released and deleted while the
chain in front of it is only half settled, which is where a mistake in the `finally`
test would let two calls in.

### StoreLease

One row and any number of apps. A store operation is a read and a write: with
`Atomic = TRUE` (better-sqlite3, one process per tick; the memory store) nothing
comes in between, with `Atomic = FALSE` (Postgres at its default isolation,
libSQL and Redis clients) anything may. `life` is the phase of `start`/`stop`,
`beat` one renewal in flight, `write` a data write between its fence check and its
effect. `Handoff` is the launcher's one call. An app is its holder name. `Crash`
drops everything an app had in memory. The retry of `acquireLease` after
a refusal is a second `start`. A store call may throw, before or after it took effect
(`AcquireThrows`, `BeatThrows`, `ReleaseThrows`): a renewal that throws marks the lease lost although the
store may still have it. Of the renewals, whose interval does not wait for a slow one, only one at a time is followed.

### CheckpointRun

One run id. `db` is the run in the store, `run` the `StoredRun` object in
memory, `baseline` the entry of `persistedSessions`, `attempt` what
`beginCheckpointGraphExecution` and the executor keep on their stack. Everything the
code does under the run's lock is an *operation*; `pc` is its next step, `idle`
when the lock is free. Each step ends in at most one write of the store; the
write succeeds (`Saved`) or fails (`Unsaved`), and a failed write of a remote
store may have been applied. A crash may come between any two steps.

| code | action |
|---|---|
| `send`/`sendImpl`, `startRun`, `append` | `Send`, `Create`, `AppendInput`, `Reopen` |
| `resume`, `resumeImpl` | `Resume`, `ResumeRun` |
| `recoverOrphans`, `resumeOrphan`, `isOrphanRun` | `ResumeOrphan`, `Orphan` |
| `armTimer`, `runTimerSweep`, `rearmTimerSweep`, `fireTimer` | `ArmTimer`, `WakeUp`, `FireTimer`, `EndSweep` with `WakeFor` |
| `persistRun` | `PersistDelta`, `PersistPatch`, then `Persisted` or `NotPersisted` |
| `computeCheckpointContinuationSkipNodes` and its predicate | `SkipNodes`, `SkipNode` |
| node handlers of `graph_executor.ts` | `SystemNode`, `InboxNode`, `AwaitNode`, `AssistantNode`, `EffectNode`/`RecordMemo`, `SleepNode`/`ArmTimer`, `LoopHead` |
| `recordCheckpointGraphSuspension`, `...Completion`, `restoreCheckpointGraphEntryPoint` | `Suspend`, `Complete`, `Abandon`/`RolledBack` |

The app has one wake for all its timers. `wake` says whether it is armed, `sweeping` is
`timerSweepInFlight` and `due` what the sweep in flight has still to fire. A wake that goes off in the
middle of a sweep is skipped (`WakeUp`), because the end of the sweep arms the next (`EndSweep`). If the store cannot be
read at that end, or the arming of a timer was lost to a failed write, there is no wake any more, `wake = "lost"`,
until another timer is armed or the app starts again (`"boot"`). Reads fail here (`ReadFails`) and
nowhere else: elsewhere a read that fails is an operation that was not called.

Stores come in two kinds, told apart by `setup.cached`. `SqliteRunStore` hydrates
once and then returns the same live object from every `get`, so what an operation
changed in memory is seen by the next one although the write failed. The other
stores rebuild the run from its rows on every `get`.

What is abstracted: messages are the input they deliver or `Other`; variables of
sessions, rewriting of history and provider bindings are left out (a delta here
is the messages beyond the baseline); of the persists that observers trigger
only the first, on `run.started`, is an action, because the ones after it write
the same pair again; recovery is the variant with `intervalMs`, which repeats the
scan; the outbox entries written on completion belong to the delivery module.
The default limit of a loop, 10, is scaled to 2 and 3.

### RunStore

`rows` is what the database has of one run, the rows of Postgres and libSQL or the document of
Redis; `live` the object SQLite and the memory store keep. `calls` holds the call of each
writer: the worker under the lock of the run (`Create`, `AppendInput`, `Persist`, `Upsert`, `Delete`, and
what follows in `todo`), the recorder, the server that marks a delivery, and
`executeCheckpointRun`. A call takes as many steps as it has statements: `Statement` is one, a
patch has two (`SelectRun`, `UpdateRun`), a write of Redis loads and saves
(`LoadDoc`, `SaveDoc`) or sets and lists (`SetDoc`, `IndexDoc`), a write of SQLite (`SqliteWrite`) is one
synchronous step. `Fails` ends a call at any statement, which then changed nothing (`CheckpointRun` has the statement whose
answer is lost), `ProcessDies` all of them. `StartRead` and
`ReadTable` are the selects of `reconstructRun`. The tables with a value per key
are `Cells`, with one key each. `AtomicStore` is the interface
`DurableRunStore` as its callers use it: one effect per call, which an error leaves open. `Abstract` is
its instance: `View`, what a reader would find, are its tables, and a Redis or SQL write that has loaded
but not saved is still asked for.

### DeliveryOutbox

One conversation and the platform it is shown on. The assistant messages are
numbered as they are written (`written`), so that a message and its place in the
session (`index`, which with the target makes the key) can differ. `server` is the
thread that starts (`Materialize`, `ListPending`, deliveries) and then takes one
event at a time (`Dispatch`, `Turn`, `Prepare`, deliveries), because `dispatch` holds
the lock of the conversation; `back` is a turn that something else resumes, a timer,
the recovery scan or a caller of the app. They exclude each other only while one of
them holds the lock of the run (`HoldsRun`), and the delivery happens after that.
`Delivering`, `Deliver`, `Delivered` and `Failed` are the body of the loop of
`deliverAssistantMessages` and, with the same steps, `retryOutboxEntry`; a failure
ends the loop in both.

A turn here is what it leaves: new messages, perhaps a shorter history before them
(a middleware may replace it), completed or suspended. `setup.live` tells
stores whose reads return the kept objects from stores that copy; a copy is what a
preparation writes back. Ghosts: `receipts` is what the platform got, `unsure` counts
the receipts the outbox had no chance to record. The mark of an entry reads and
writes in one step: a write of a background turn in between has the same effect
before the read.

Left out: presence, the message about an error, events for observers (and what an
observer that fails under `strictObservers` does to the dispatch), missing drivers,
writes of the store that fail, and a graceful stop.

### CodexClient

`calls` says where each `startTurn` waits; `socket`, `pending`, `turns` and `initialized`
are the fields of the client, `sockets` what the network has in each direction.
Everything up to an await is one action: `Call`, `Opened`, `ConnectFails` are
`ensureInitialized`, `SendRequest` numbers a request, `HandleMessage` is `handleMessage`
with its answers, requests of the server and notifications, `AwaitTurn` is the continuation of the
answer to `turn/start`, `RequestTimesOut` and `TurnTimesOut` are the timers, `SocketCloses` and
`SocketFails` the listeners. Old sockets go on speaking. `setup` tells a line transport from a
WebSocket and whether frames that arrive together are handled before a promise continues.
The server (`ServerReads`, `ServerAsks`, `ServerCompletes`) is external, and asks on either transport under numbers of
its own. `HandleAnswer` takes such a request for the answer when its number is pending, as `handleMessage` and
`handleLine` do; on a line transport a call can so go on with no turn (`Continued`, `EndsWithout`). Left out: what a turn
consists of, the conversion of its items, an answer to `turn/start` whose turn has ended already, a
completion that says the turn failed, and a send on a socket that is connecting.

### ProviderTurn

`stored` is the binding in the run store, `bound` the one in `runtime.providerSessions`, `turn`
the stack of `executeTurn`. Codex records a thread when it was started (`StartThread`, `Record`,
`Send`), Claude when its first message names the session. `MayRestart`, `GiveUp` and `Restart` are the
policy `onUnresumable`; `Retry` is a middleware that calls `next` again; `open` counts the
`model.started` events without an end. `Crash` keeps what is stored. Observers that are strict, whose failure
an emission throws, are left out.

### ObserverBus

`queues` are the promise chains by key, `emissions` the calls of `emit` that have not returned,
`bindings` the store of claims. A delivery has two steps, the claim (`Handle`) and its
completion (`Write`) or failure (`HandlerFails`), which emits a report (`HandleReport`) to the others.
`Expire` and the capacity prune claims; the ghosts `written`, `forgotten` and `told` count what came of
each event. Named observers come and go; unnamed ones, whose key is their index, stay: what
removing one should do to the queue of its neighbour no document says.

### Gateways

A dispatch is a call of the conversation mutex, so the module extends `KeyedMutex`: its tasks are the
dispatches `<<event, n>>`, its keys the conversations the adapters derive, and a gateway reaches the
mutex in the step in which it takes the event. `telegram.pc` is where `TelegramPoller.run` is
(`PollAnswered`, `PollFails`, `HandleUpdate`, `DropUpdate`, `UpdateHandled`, `EndBatch`, `Wake`); the
platform (`UpdateArrives`, `Confirmed`) keeps what the offset has not passed. `MessageComes` calls the
listeners of the Discord client one by one (`CallListener`), `CronFires` and `CronSkips` are the timer of
a job, `CronEmitEnds` the end of its emit. `CallStart` and `CallStop` go through the gateways in order
(`ServerStep`); neither looks at the other, so a stop may come while a start waits (`crossed`), a start may fail half-way
(`StartFails`) and be repeated, and each start makes a new poller and a new scheduler. At most one start and one stop are under way, and
one that was replaced is not followed further: `stray` says that there is one. `Claim`, `ResolveChannel`, `PostProgress`, `EndProgress` are the awaits of
`discordProgressObserver`, over a cache that drops and expires entries. The scenarios of `MCGateways` keep the parts
apart that do not meet: messages of Discord, updates of Telegram over a stop and a second start, two jobs
with one slug, a poller and a scheduler in one server, a start that failed and is repeated, listeners added twice, and the progress observer.
The process does not die here (`DeliveryOutbox` has that), the error handlers the author supplies do not
throw, and timers have no length: any may go off at any time.

### AgentGraph, GraphWalk and Replay

`AgentGraph` translates the builder: `ExpandToolLoops` adds the loops, `FinalizeIds` the ids, `ToGraph` compiles,
`ValidNodes` refuses, `Manifest` is what a deployment is compared by. `GraphWalk!Walk` is the executor as a
function: from a session, an inbox, the place to resume from and the answers providers and tools have given
so far it computes how far the execution comes, which is until it needs the next answer (`ask`), suspends, fails or is
done. That makes each node one operator (`Attempt`, `ToolsNode`, `AwaitInputNode`, `LoopNode`, `GoalNode`, ...) and
each call one step of the machine around it. `RunPhase` is a phase of middleware and hooks, `Wrapped` and
`Tried` the wrappers around a call with their durable memo.

`Replay` is that machine: `Begin` starts an attempt of the run, `Answered` and `Throws` are the funnels that record,
`AppendRecord` and `AppendFails` the append chain, `Pause`, `Complete`, `RollBack` the end of an attempt,
`Fire` its timer, `Send` an input between two attempts, `Crash` the loss of an attempt, `Redeploy` another
version of the agent, which may continue the run only with the same manifest. `StartReplay` gives the whole inbox to one
execution; `Serve`, `Strict`, `Flag` and `GoLive` are what `KeyedReplaySource` and the funnels do with a call. A
digest is the value it is taken of. Pins and time are left out.

### ModelTurn

`BeginTurn`, `Ask`, `Respond` and `Finish` are one assistant or structured node. `Items` converts the session; a
handle (`previousResponseId`, cached content) stands for the items the provider holds (`remote`), and
`request` is what the provider sees, put together by `OpenAIRequest`, `AnthropicRequest`, `GeminiRequest` or
`SdkMessages`. `StreamEvent` and `StreamChunk` are the normalized events and their reduction; `Whole` a response
read at once; `RunTools` a round. With a schema the output is the text or the input of a tool, the *form*: `Forced` and
`Silenced` steer the rounds, `SchemaRejects` and `FormNotCalled` end them with an error. `RequestFails` and
`ValidatorRejects` may begin the loop again (`StartOver`), `ProviderRetries` sends the same request again. `Rewrite` is a
middleware or user code that edits or cuts the history. Arguments are the pieces they are streamed in; how many tokens a
prefix has is left open (`LongEnough`).

### SkillSupervisor

`row`, `versions`, `health`, `notices` are the registry, `live`, `artifacts`, `staging` the files, `bound`
the map of the process. Authors and turns run concurrently; a rollback waits for its
import (`StartRollback`, `FinishRollback`, `AbandonRollback`); a second rollback meanwhile is left out. A source and the
manifest hash its build is filed under are two things: sources that differ inside a closure only share the hash, and with it the
version row and the copy on disk (`manifest`, `Register`). A rollback imports what is filed there by then (`ReadBuild`). `Scan` may
come or not, because claw wires it only when `CLAW_SUPERVISOR_CRON` is set. `Boot` is `loadStagedSkills`: the fast path for a
row whose hash matches the live files, the gate again otherwise. `CrashCopying` dies between the copies of
`promoteAndRegister`. One skill; who may author and what the static checks say is left out.

### Deployment

Process `n` is the child of deploy `n`, process 0 serves before the first. `pc` is where `deploy` is;
`Verify` to `Kill` are its stages, `Throw` a store call that throws and changed nothing, after which comes `safeState`. A handoff,
a handback and the stop of the old process may also take effect and then throw (`HandOffUnanswered`, `RollBackUnanswered`,
`StopThrows`), and the handback of the safe state may fail (`SafeStateFails`). `stranded` notes the two cases in which the
launcher leaves the lease with the green it kills. A child sees that the lease is its own (`Take`) and acquires it in a later call
(`Acquire`). The children are external to the launcher: the scripted child of its tests stands by when it
loses the lease, claw (`ComesUp`, `Take`, `Lose`, `Lapsed`) exits.

## 3. Runs

| run | instance | holds |
|---|---|---|
| `gateways` | 8 scenarios: 4 messages in 2 channels; 3 updates out of order and a stop; 2 updates over a stop and 2 starts; 2 jobs with one id; poller and scheduler; a failed start that is repeated; 2 clients' listeners; 3 progress calls with a cache of 1. Each with 1 failing request | `MapDrains`, `ConfirmedAreHandled`, `StopQuiesces`, `ProgressOnce`, `UpdatesAreHandled`, and the mutex under the dispatches implements `SerialLanes` (`ImplementsLanes`) |
| `lease` | 2 apps, clock to 4, lease of 2 ticks, 3 tokens, atomic store | `SingleWriter` |
| `checkpoint` | 4 graphs on 2 kinds of store, one more graph and a narrow loop; 2 inputs, 1 crash, 1 failed write or read, 1 failed model call | `CursorNeverAhead`, `EachInputOnce`, `EffectsBounded`, `HistoryKept`, `TimersFire`, `OrphansResolved` |
| `stores` | 5 kinds of store, 2 inputs, 1 record, 4 jobs of the worker, 1 fault or crash (Redis: one each) | `TornReadSafe`, `ListedAsStored`, and `RunStore` implements `AtomicStore` (`ActsAtomically`) |
| `outbox` | 2 messages, 1 crash, 1 failed delivery; live objects with background turns and 2 targets or a replaced history, copies without background turns | `RecordedOnce`, `StartDelivers`, and `DeliveryOutbox` implements `ReplyQueue` (`ServesQueues`, live objects) |
| `codex` | 2 callers on one WebSocket client, 1 caller with frames that arrive together, 1 whose server numbers like the client, 2 on a line transport with a server that does and one that does not | `OwnAnswers`, `NoTurnMissed`, `EveryCallEnds` |
| `provider` | 3 turns; Codex with 1, 2 or no restarts, Claude with and without forks, one setup that records nothing | `RestartsBounded`, `ThreadsKept`, `EventsBalanced` |
| `observers` | 2 observers, 3 emissions of 2 events; named ones that come and go under strict reporting, unnamed ones over a store with room for one claim | `WrittenOnce`, `InOrder`, `EmissionsEnd` |
| `skills` | 1 skill, 2 sources with a manifest hash each or 3 of which 2 share one, 2 turns, 3 authorings by 2 authors, 2 commands or 1, 1 restart, thresholds of 2 | `BoundIsActive`, `GatedAsWritten`, `RestartIsFaithful`, `FailingStaysOut` |
| `deploy` | 3 deploys in a row; children that stand by or exit, two kinds of probe and none, with and without lapsing leases, 2 faults | `NothingLeftBehind`, `NoStealing`, `BlueServesAgain` |
| `replay` | 4 agents, each replayed by itself with 2 keyings and by a changed one; up to 2 inputs, 3 attempts and 1 fault; 3 keyings, 3 miss policies | `SelfCheck`, `ServedOnce` |
| `modelturn` | 12 conversations with 4 providers, streamed, in batch and with schemas; up to 3 turns, 2 rounds, 2 attempts, 2 edits of the history, 1 later instruction, 1 fault | `ProviderSeesSession`, `AnsweredCalls`, `StreamAsWritten` |

Four more configurations end in a counterexample. Each checks one sentence of the documentation that the code does not keep, and
is explained below under *Known divergences*; `tlc -config <cfg> <module>` shows it.

| configuration | instance | refutes |
|---|---|---|
| `MCCheckpointRunLost.cfg` | 1 input on a graph that answers it, 1 failed write, no crash; recovery rescans | `NoLostInput` |
| `MCGatewaysStop.cfg` | as `gateways` | `NothingOutlivesStop` |
| `MCSkillSupervisorCopies.cfg` | as `skills` | `CopiesAreImmutable` |
| `MCDeploymentSafeState.cfg` | 1 deploy of children that stand by, leases that do not lapse, 2 faults | `SafeStateReached` |

Why these bounds. Two channels are enough to see that keys do not disturb each other, and
three dispatches in one give it a call inside, one behind it, and one that is submitted while
the chain drains. Three updates, of which one is for somebody else and one comes before its
predecessor, can be one batch or several, on either side of a stop. A cache of one drops an entry with the
second event. Two apps and a clock that passes two expiries allow expiry under a
live process, take-over, hand-over and hand-back, and a write of an app that is
no longer the holder. Two inputs with one crash, one failed write and one failed
call give every pair of faults on one attempt and on its repetition; the five
graphs put an effect before a model call in a loop, a loop with an exit, a sleep behind
an input, a sleep in a graph without an input, and a sleep that is armed while the sweep that fired another is in flight. Two messages are a reply and
the one that has to wait behind it; one crash and one failed delivery can hit the same
message, before and after the restart, or one each. Two callers share a
socket or meet on the connecting one, and the limit on sockets lets a client reconnect
while the old socket still speaks. Three turns of a provider allow a thread
that is kept, one that is replaced and one that is resumed after the
replacement. A worker with four jobs can create a run, take an input, persist it and delete the
run, or create it again, with a call of another part between any two statements. Two overlapping events and one repeated are every way a claim can be
met. Two sources of a skill are a predecessor and a successor, a third that shares the hash of the first replaces its copy
while a rollback imports it; thresholds of two make a streak, a promotion and
a quarantine take several invocations. Three deploys let a promoted child and
one that took the lease back be replaced, and two faults can hit the handoff and the safe state after it. Each agent of `replay` has a few
nodes of which one waits, repeats or retries, and two answers per leaf, one that ends it and one that goes on; three attempts are
a first one, one after a suspension or a crash, and one after that. `Lag` is 0: a record waits
in the append chain until the next step, longer queues give the same records later. A batch of two
equal calls is the smallest one in which answers can be exchanged.
Bounds that limit a counter (`MaxTime`, `MaxToken`, `MaxInputs`, `MaxAttempts`, `MaxFailures`, the fault budgets)
make the models stop, so the runs say `CHECK_DEADLOCK FALSE`; the temporal
properties show that they do not stop too early.

### Known divergences

The following ones were met while modelling and are excluded, each by a named condition
or by the instance, from the properties above. The first five come with a configuration that shows them.

* **A completion taken back** (`NoLostInput`). `recordCheckpointGraphCompletion` sets the status to `done` and then persists. If that fails,
  `restoreCheckpointGraphEntryPoint` puts back the cursor, the coordinate and the session, but not the status, and stores the
  result: a run that is `done` with inputs its cursor has not reached, which `isOrphanRun` skips
  (`checkpoint_continuation.ts:187`, `:250` and `durable.ts:1672` against `src/README.md:222-225`, "no lost input"). The instance has
  a store that returns copies. `OrphansResolved` exempts it by name, `CompletionTakenBack`.
* **A stop that crosses a start** (`NothingOutlivesStop`). Telegram's `start` awaits `getMe` before it makes the poller and `stop` stops the poller there is, so after
  a stop in between the poller polls on (`packages/telegram/src/index.ts:146-163` against `:252`).
* **A second start** (`NothingOutlivesStop`). A start that is called again, say because the first failed half-way, replaces
  poller and scheduler, and a stop stops the last ones only (`packages/cron/src/index.ts:106-113`). The model names it `stray`.
* **A copy that is replaced** (`CopiesAreImmutable`). A build is filed under its manifest hash, over the copy of another source that has the same
  (`claw/src/skills/loader.ts:159-168`, `claw/src/skills/registry.ts:387-390` against `claw/README.md:301-302`, "immutable").
* **A stranded lease** (`SafeStateReached`). A handoff that takes effect and throws leaves `handedOff` false, and a handback that throws is
  swallowed; both leave the lease with the green that is killed next (`packages/launcher/src/deploy.ts:165-175`, `:253-262`
  against `:47-48`). A blue that stands by waits for a lease of its own and does not take it back at its expiry.

* `fireTimer` writes `firedAt` and then resumes the run. After a crash in between
  no timer is pending any more and the run, whose inbox has no tail, is no orphan
  either: it sleeps on (`durable.ts:1864` against `src/README.md:236-237`).
  `TimersFire` says that the timer fires, not that the sleeper wakes.
* The one wake of the timers is gone when the store cannot be read at the end of a sweep, or when the write that arms a timer was
  applied but failed: no timer fires until another one is armed or the app starts again (`durable.ts:1814-1843`).
  `TimersFire` exempts it by name, `wake = "lost"`.
* `patch` on Postgres and libSQL selects the row and writes all of it, and every write on
  Redis loads the whole document and saves it. `executeCheckpointRun`, the server and
  the recorder do not hold the lock of the run, so they can take back a cursor, an input or a
  mark that was written in between (`packages/store-postgres/src/index.ts:370`,
  `packages/store-redis/src/index.ts:308`, `durable.ts:1921`, `:2080`). With `marks` or
  `renames` set for these stores TLC refutes `ActsAtomically`.
  With `renames` and `deletes` on Postgres or libSQL and `MaxJobs` of 7 it refutes `TornReadSafe` too: a rename that read the
  run before it was deleted gives its cursor to the run of the same id that was created since.
* The Postgres tables declare no foreign keys, so a delivery that is marked after the run was
  deleted leaves its entry, and a later run of the same id starts with it
  (`packages/store-postgres/src/index.ts:529`, `:624`): with `marks` and `deletes` TLC
  refutes `ListedAsStored`.
* Redis sets the document and then adds the id to the set. A process that dies in between
  leaves a run that `get` finds and `entries` does not
  (`packages/store-redis/src/index.ts:353`); an error is answered as one and so is no surprise.
* A `patch` of SQLite changes the kept object before its statement runs. If that fails, the
  process goes on with the change and the next patch publishes it
  (`packages/store-sqlite/src/index.ts:445`), unless it dies first.
* An app that lost its lease goes on handing out the stale token so that the fence
  rejects it, but the fence accepts any token while no lease is live
  (`durable.ts:1587` against `durable.ts:1105-1106`).
* The Postgres lease reads the row with a plain `SELECT` and writes it in another
  statement, so two processes may write the same token
  (`packages/store-postgres/src/index.ts:139` against `:49-50`): with `Atomic = FALSE`
  TLC refutes `TokenMonotone`.
* `persistRun` is two writes, so after a crash the stored session may be one input
  ahead of the stored cursor (`durable.ts:2531` against
  `checkpoint_continuation.ts:69-72`). The safe direction holds (`CursorNeverAhead`).
* A crash between `appendInbox` and the patch that reopens a completed run leaves
  the input in a run with status `done`, which the recovery scan does not look at
  (`durable.ts:2524` against `src/README.md:225`).
* A conversation loop with as many inputs waiting as its limit of iterations throws before the node
  where it would suspend, on every attempt (`graph_executor.ts:613`).
* The outbox entry of a reply is written before the session that has the reply. After a
  crash in between, the repeated turn says something else at the same index, and the
  platform gets the lost reply (`durable.ts:2429` against `design-docs/hook-system.md:916`).
* On a store that returns copies a background turn writes back an entry it read before
  its delivery was recorded, and the next start delivers it again (`durable.ts:2069`
  against `runtime_server.test.ts:2128`).
* Two callers of a Codex client that is connecting: the second sees an open socket and
  sends before the handshake (`codex_app_server.ts:558`).
* On a line transport a request of the server whose number is that of a pending request resolves it with nothing, and
  `startTurn` ends well without a turn (`codex_app_server.ts:282-310`, `:243-245`). `OwnAnswers` exempts it by name, `EndsWithout`.
* A completion that is handled in one go with the answer to `turn/start`, before the promise of the caller continues, is lost, and the
  caller waits for its timeout (`codex_app_server.ts:495-530`). `NoTurnMissed` leaves it out (`batched`).
* Removing an unnamed observer gives its index, and so its queue and the record of its deliveries, to the next one
  (`execution.ts:328`). `WrittenOnce` and `InOrder` are about unnamed observers that stay.
* A restart of a Codex turn with thread `'auto'` resumes the thread that could not be
  resumed (`templates/primitives/codex_turn.ts:214`).
* After `!rollback` a restart runs the gate on the newer live source again
  (`claw/src/skills/registry.ts:366-368`).
* claw never touches the readiness file of the launcher (`packages/launcher/src/process.ts:11`), so a launch of it
  is always rejected; and it exits when it loses the lease, although the
  launcher describes a blue that stays warm.
* A tool whose wrapper catches everything swallows the `ReplayMissError` of a model call
  below it (`tool.ts`, `replay.ts:33-35`).
* The handle of a Gemini cached prefix has no fingerprint of the history, so
  editing a cached message leaves the old one in force (`conversation.ts:113-128`,
  `google_gemini.ts:313` against `docs/provider-runtime-capabilities.md:354-357`).
* A streamed message at the limit of rounds keeps calls nobody answers
  (`generate.ts:620`), and an OpenAI batch at the limit binds to a response with
  unanswered calls.
* Resuming a run executes again the goal in front of the input it waits for, although `README.md:258` says that completed
  nodes are skipped: a goal before an `awaitInput` is entered on every resumption, with its attempts counted anew, and with
  `maxAttempts` 1 each resumption may throw (`checkpoint_continuation.ts:125-166`,
  `graph_executor.ts:657-684`, `:744-770`). The set of nodes to skip keeps the paths that were not visited, so a leaf
  behind a conditional may be skipped in a later iteration of its loop; `resumeFromNode` is cleared in the copy of a scope
  only; and a scope without `init` that waits starts with a new session when it is resumed.
* `beforeAgent` patches are applied in every attempt, and the hooks around a template are run for nodes that are skipped
  (`graph_executor.ts:543-583`). A memoized wrapper that returned no result calls the inner call again
  (`interceptors.ts:700-790`).
* "Every stored run should self-check `identical: true`" (`replay.ts:553`) does not hold of a run that was suspended or
  reopened, or whose inbox node looked in vain before a later input came. Replays do not have the middleware and
  hooks of the app (`durable.ts:2386-2397` against `replay.ts:486`) and no durable memory, without which a wrapper
  with an `idempotencyKey` throws (`interceptors.ts:959-988`). A record holds a model's answer after wrappers and
  `afterModel`, and the replay applies them again, so only middleware that is idempotent checks.
* A cron event goes to the first `cron.schedule` binding whose filters pass, whichever schedule fired
  (`runtime_dispatch.ts:50-62`), and two jobs with one slug share the flag that skips a fire
  (`packages/cron/src/index.ts:171-178`). A scheduler that is started again forgets the emits in flight.
* `start` of the Discord gateway adds a listener to the client and `stop` removes none
  (`packages/discord/src/index.ts:196-222`), so a message is dispatched twice after a second start; `ProgressOnce` and the lanes do not
  mind. If finding the channel of a progress message throws, the claim stays and it is never posted
  (`packages/discord/src/index.ts:298-310`).
* A Telegram update whose handling throws is not tried again, and those handled in the last batch before a stop
  are delivered again after the next start, because the offset is confirmed by the next poll
  (`packages/telegram/src/index.ts:257-288`).
* A system message after a cached prefix is never sent to Gemini: the instructions are left out with a handle, and the
  contents have no system messages (`google_gemini.ts:390-427`, `:747-804`).
* The tool mode of a schema with the AI SDK keeps the calls of the model and drops their results, so the next request has
  calls without an answer (`generate.ts:418-450`).
* The fingerprint of an OpenAI structured output is taken before the output is written down anew, so its handle seldom
  matches again (`openai_responses.ts:126-159`); only the provider's memory is lost by that.

### Fairness

`KeyedMutex`, which `Gateways` extends: a call that may start, finish or settle does so (the JavaScript
micro-task queue). `Gateways` has the same for its dispatches, and adds that the
listeners of a message are called (`WF(CallListener)`) and that the poller goes on (`WF(PollerStep)`: its backoff passes and a
request to the platform is answered or fails); nothing makes the server start or stop, or an event come. `CheckpointRun`: an operation in progress goes on
(`WF(Proceed)`) and a process that died is started again (`WF(Restart)`), as the
recovery documentation presumes. An armed wake goes off (`WF(WakeUp)`). The scan, the firing of a due timer and the end of a sweep
(`SF(FireTimers)`, `SF(EndSweep)`) are *strongly* fair: each queues for the run's lock like any caller, and the lock is granted in order of
submission, which `ImplementsLanes` establishes for the mutex, so
other callers cannot overtake them for ever although each sees the lock free only
from time to time. Nothing is assumed about `Send`, `Resume`, crashes or failures.
`CodexClient`: a promise that was settled is continued (`WF(AwaitTurn)`) and an armed timer
goes off (`WF(Timers)`); the server and the network owe nothing. `ObserverBus`: the
head of a queue is delivered and its handler ends (`WF(Deliver)`).
`SkillSupervisor` has no fairness: the scan is optional, and its properties are about steps. `Deployment`: the steps of `deploy` and those of the children it
started, which are timers and promises with a timeout.

### Conditions on properties

* `StoreKeepsUp`. With the caching store a write that fails leaves memory and database
  apart for good: an input whose append failed is still processed and its offset is
  given again. No document promises more, so the properties about such runs end
  at the first failed write of a cached store.
* In `OrphansResolved`, `RoomInLoop` excludes exactly the loop with too many inputs
  waiting, `StillTakesInput` a run without a loop that is suspended beyond its last consumer, and `CompletionTakenBack` the
  completion taken back. `TimersFire` excludes the lost wake.
* `SingleWriter` and the theorems about the lease need `Atomic`, store operations that nothing comes in between. In-process that is so of the
  memory store and of better-sqlite3. It is not so of Postgres, libSQL, Redis, or two processes on one SQLite file, which read the row and
  write it in two steps.
* `NoStaleCopies` in `RecordedOnce` and `StartDelivers` excludes exactly the entry
  written back from a stale copy. `ServesQueues` is about stores with live objects: the
  others return the entries in no order.
* `EachInputOnce` is about runs without crash and failed write; with them delivery is
  at least once, by design.
* `NoTurnMissed` leaves out the setup in which frames are handled before a promise continues. `OwnAnswers` leaves out the call on
  a line transport that ended without a turn (`EndsWithout`); elsewhere a request of the server that is taken for an answer fails the call, it
  does not give it the turn of another.
* `WrittenOnce` and `InOrder` are about observers that have names or stay (`KeysStay` in the theorems).
* `ActsAtomically` and `ListedAsStored` are checked where nothing refutes them (see above): on Redis
  only the worker calls, on Postgres the server marks or the worker deletes,
  `executeCheckpointRun` renames on SQLite and in memory, and SQLite dies or fails, not
  both. `TornReadSafe` claims nothing of a read during which the run is created or deleted.
* `SelfCheck` needs a faithful recording (no crash, no record that failed, no tool that threw, no attempt that failed, no
  memory left of a keyed effect) and a candidate equal to the recorded agent. For a run that was suspended it compares the calls, not the
  records of nodes. `ServedOnce` needs none of it, but says nothing of what a changed agent is answered after its first change.
* `ProgressOnce` allows one more message for each time the cache dropped or expired the entry, or a send that arrived was
  reported as failed (`excused`).
* `StopQuiesces` is about a stop that crossed no start, of a server in which no running poller or armed scheduler was replaced (`crossed`,
  `stray`); without that it does not hold (`NothingOutlivesStop`). It is about polls, timers and the connection of Discord. The listeners of the Discord client
  stay, and an emit of cron that was in flight when the server stopped ends later.
* `RestartIsFaithful` is about rows whose hash is the one of the live files.
* `BlueServesAgain` needs children that stand by, leases that do not lapse, and a lease that was not stranded; the lease in
  `NothingLeftBehind` needs the last two.
* The equations of `BoundIsActive` with the source of the row and the copy on disk need sources with a manifest hash each (`Distinct`); that what is
  bound has the active hash does not. `GatedAsWritten`, `RestartIsFaithful` and `FailingStaysOut` have no such condition.
* `FailingStaysOut` is about the health record, which an authoring keeps: a skill whose failures were recorded may go live again when the gate
  passes a new build, or the changed file at a restart. A scan that quarantines is not needed for it. Promotion counts the clean invocations of the
  whole life of a skill, also those before a failure (`claw/README.md:284`).
* `ProviderSeesSession` is checked for cached prefixes of Gemini without edits and without later instructions;
  `AnsweredCalls` leaves out the message with a form, see above; and
  `StreamAsWritten` claims no order between texts and calls for Gemini.

## 4. Proofs

The proofs follow the components; `GatewaysProofs` begins with the mutex, `StoreProofs` has the stores, the launcher
and the lease one after the other.

**The mutex.** `GatewaysProofs` proves type correctness, `MutexExcludes`, `MutexKeepsOrder` and
`MutexMapDrains` for any sets of calls and keys. Exclusion and order are also part of
`ImplementsLanes`, so no run repeats them. Mutual exclusion is not inductive: that
a call runs says nothing about those behind it. The invariant `IInv` adds the order in
which calls were submitted (`Turns`), that the tail in the map is the last pending
call of its key (`LastIsTail`), that every call waits for the one submitted just before it
(`Links`), and that a settled promise means that everything before it is done
(`Drained`).

**The lease.** `StoreProofs` proves `LeaseTypeCorrect`, `OnlyHolderWrites`, `TokensAreUnique` and
`TokensGrow` for any number of apps and any lease time, from the assumption that store
operations are atomic (without it TLC refutes them); the second is checked by `lease`, the two about tokens are
proved only. The hypothesis is `Atomic = TRUE`, which *Conditions on properties* explains. The invariant
says that a token an app believes in was issued, that the live row with its token belongs
to that app, that a renewal in flight carries such a token, and that nobody is in
the middle of a store operation while another one acts.

**The launcher.** `StoreProofs` proves `LeavesNothingBehind` and `StealsNothing` for any number of
deploys and any setups, with store calls that throw before and after they took effect. The first says that the child of a
deploy that was not promoted is gone, and that it is not the holder unless a lease lapsed or was stranded. The invariant joins the types with `Children` (which processes can be
alive: the one before the deploy and the child), `Target` (to whom
`deploy` may hand the lease, which it learns before it hands it over), and, without lapsing leases, `Leased`
(the lease has a holder, and until the handoff that is not the candidate, unless it was stranded). The second turns on `GivenOnly`: who holds the lease was handed it before.

**The stores.** `StoreProofs` proves three things of the five stores for any tables, inputs, records, jobs, faults and crashes
(`StoreAssumption`). What the code does not promise is a hypothesis on the setups, by name, and *Known divergences* says what
goes wrong without it; the setups of `stores` meet all three.

* `RunsAreListed` needs `NoLateWriters`: where runs are deleted, no call without the lock of the run is left to write to one
  on Postgres (no foreign keys) or Redis (a write saves all it has loaded). The invariant `StoreIInv` says who can be calling what and how
  far it is (`Roles`), and what the last answer to a create or a delete still means (`Spans`): after a delete nobody who could
  bring the run back is calling, and a Redis call between its two commands has done the first (`HalfDone`).
* `TornReadsAreSafe` needs also `NoStaleRenames`: a rename on Postgres or libSQL writes back the cursor it read, so the
  run must not be deleted and created again meanwhile. `TornReadSafe` is about a reader and says nothing of the
  writers. `Cursors` follows the cursor on its way: every cursor that the row has, that a patch has read, or that the worker will write
  is covered by the inputs and the session, or by the delta the worker asks for before it. `Reads` says of a reader between
  its selects that what it has is covered by what it has still to read. It holds because the row is read first and inputs and deltas only grow;
  the worker writes them in the other order.
  `Version` is a recursive function; what appending a delta makes of it is found by induction
  on the place in the sequence, from the least number at which a claim would fail.
* `StoresActAtomically` is the refinement of `AtomicStore` by all five: the last statement of a call is its `Take`, or an answer
  for a run that is not there, and everything before it leaves the tables alone. It needs `Whole`: what a call has loaded
  is still what is stored when it saves, a run that is not there has no rows, and SQLite's object and tables agree unless a fault may
  separate them. For that `NoOverlap` excludes the writers that do take something back: renames on Postgres and libSQL,
  anybody but the worker on Redis, and a SQLite process that both fails and dies.

`CheckpointRunProofs` proves `EffectsBounded`, `HistoryKept`, `CursorNeverAhead` and
`EachInputOnce` for any graph of at least one node (`SetupsAssumption`) and any bounds
(`BoundsAssumption`). Three invariants build on each other.

* `IInv` holds over every fault: the types, where an operation can stand (`Phases`),
  that the run object and the stored run come into being together (`Born`), that the
  run object of an operation knows the timers and memos of the store (`TimersKnown`, `MemosKnown`), and
  `Executed`: an effect was executed no oftener than something failed, and once more
  only if its memo is stored or about to be. `EffectsBounded` follows from the last, which
  needs `MemosKnown`: an effect is executed only where the run object has no memo.
* `CInv` is about a store that keeps up with the run object: the attempt started
  from what is stored and only added to it, so a delta that starts at the baseline
  leaves no gap, and what the patch after it moves the cursor past is in the session.
  `CursorNeverAhead` by itself is not inductive, because between delta and patch it is the attempt
  that knows why the cursor may move.
* `EInv` says for the time before the first failure that the inputs a session delivers
  are exactly those before a cursor. `Delivered` is a recursive function; what
  it yields is found by induction on how far it has come, from the least number at
  which a claim would fail (`Least`, `SetInduction`).

`HistoryKept` follows from `IInv` step by step: no write shortens what is stored.

`ProviderTurnProofs` proves `RestartsBounded`, `ThreadsKept` and `EventsBalanced` for any number
of turns, threads, retries and faults (`ProviderAssumption`). `Counted` follows the counter of restarts: what was
run again is counted in the store and in memory, a turn starts from that number, and
none passes the limit. `Lost` bounds the threads that the store does not
know and that nobody is about to record by the number of faults; `CodexRecorded` and `ToNobody` say
which turns are sent to which thread.

`SkillSupervisorProofs` proves `BoundIsActive`, `GatedAsWritten` and the action properties
`RestartIsFaithful` and `FailingStaysOut` for any sources, manifest hashes, turns and authors (`SkillAssumption`). `OneAuthor` (whoever is authoring
holds the mutex, alone) gives `Staged`: nobody overwrites the staged files
while the gate reads them, so what it built is what was synthesized. `Registered` says
that the active hash of a row is that of its source and has a copy on disk, which a rollback
and a restart rely on; `Filed` that a copy has the hash it is filed under, so where no two sources share one it is the copy of its source; `DownIsEmpty` says what a dead process holds.

**The gateways.** `GatewaysRunTheMutex` says that
`Gateways` implements `KeyedMutex`: a step of a platform, a clock or the server is a step
of the mutex or leaves it alone, so its three theorems hold of the dispatches too. `GInv` has for
`StopQuiesces` the part `Lifecycle` (a stop that crosses no start has silenced the gateways it
went past, and they stay silent until a start), for `ConfirmedAreHandled` the part `InHand` (every update before the poller's offset is handled but
the one in hand, whose successor the offset already names), and for `ProgressOnce` the
part `Paid`: each message of a key, and each claim that may still become one or be given up, is
paid for by the binding of the key or by an excuse. It holds for any size of the
cache, also for one that has room for no entry.

`DeliveryOutboxProofs` proves `TypeOK` of the outbox, `RecordedOnce` and `StartDelivers` for any targets and
any number of messages, crashes and failed deliveries (`OutboxAssumption`). `Standing` holds for every store: the types, one
entry per key, and where the two threads of control can stand. `Safe` is about stores that write back no stale copy: a copy still in use has what the outbox has
(`CopyIsFresh`), so writing an entry back changes nothing; what is to be sent is
not recorded as delivered (`AttemptsOpen`); a receipt is recorded, about to be, or counted as unrecorded
(`Accounted`); and what the start found due is delivered or still before it (`StartKnows`). What `Those` picks from a
sequence is found by the same induction as for `CheckpointRun`.

`OutboxServesQueues` in the same module says that the outbox implements `ReplyQueue`: a new entry is an
`Offer`, a receipt a `Send`, the record of a delivery a `Serve`, and every other step leaves the queues alone.
A store with copies offers nothing there, so its part is about live objects. It needs `InLine`
besides `Safe`: no entry of a target is in the outbox, or delivered, before an earlier one is (`NoGap`); the outbox has
the entries of a target in order, also after a restart sorts them (`InOrder`); the tracker holds only what
is delivered; what a turn or a dispatch is still to write passes over no message (`SkipsNone`) and what the server is still
to send over no reply (`InTurn`); and when a delivery is about to be recorded, its receipt is the last one
(`JustReceived`). That a failure ends the dispatch is what `InTurn` turns on: with the server going on to the next entry
it is lost, and TLC shows the reply that overtakes.

`CodexClientProofs` proves `OwnAnswers` and `NoTurnMissed` for any callers, sockets, failures and timeouts, on either transport.
`OwnAnswers` is about calls that ended; `AnswersInv` is about what is under way. An answer in a socket, or a request the server
has yet to read, is good when whoever waits under its number is the caller it is for (`GoodIn`, `GoodOut`), and it stays good
however the client goes on, since numbers only grow and each is given once (`Numbers`). Therefore a late answer of an old
socket, or a number the server chose itself, can end or fail a call but never exchange two. On a line transport it can end a call with no turn, which is
the condition of `OwnAnswers`. `NoTurnMissed` needs the order of
messages as well: in every socket a completion comes behind the answer that names its turn (`Sequenced`), so the caller is in `turns`
before the completion is handled (`Listed`), and while it waits it listens to the socket of its turn (`Awaited`).
A line transport answers with the completed turn, so nobody waits there.

`ObserverBusProofs` proves `WrittenOnce` and `InOrder` for any observers, events, failures and capacity of the binding store.
The hypothesis `KeysStay` says that observers come and go only if they have names: the key of an unnamed one is its
index, and removing one would give its key, its queue and its claims to the next. `QueuesInv` says that a queue belongs to
one observer, has its events in the order of their emissions, and that nothing but its head runs, which is `InOrder`. `WrittenOnce` needs
an account per key and event (`Balanced`): what was written plus what is being written is at most what was forgotten plus one for the
entry that is there, and an entry nobody is writing for was written. Every way an entry goes, by a failed
write, by age or by capacity, even while its write runs, keeps the account. The step from deliveries to observers is that of keys to owners,
one to one (`OrderIsBijection`).

The proofs use no more than the named assumptions of the modules and the hypotheses above; the bounds of the counters are any natural
numbers. The strengthened invariants were checked by TLC on the instances of section 3 before they were
proved.

Only model-checked:

* Everything under fairness, which is beyond the prover: `ImplementsLanes` with its liveness,
  `TimersFire`, `OrphansResolved`, `EveryCallEnds`, `EmissionsEnd`,
  `BlueServesAgain`, `UpdatesAreHandled`.
* `GraphWalk` and `Replay`, whose operators are recursive: the prover has no arithmetic in a
  module that declares one.
* `ModelTurn`: its three properties compare a conversation with the items of a request, which the model
  flattens, filters and sorts with recursive operators over sequences. What they yield for every input is induction over data.
* The order of the lanes in `ImplementsLanes` beyond exclusion and submission order, which are proved: the mapping
  sorts the pending calls of a key into a sequence.

The `TypeOK` of a module that no run names documents the shape of its state.

## 5. Not modelled, and the plan

Next, in this order:

1. `Session` (variables, rewriting, deltas) with a reference definition.
2. Deletion and ephemeral runs of the app; several skills; content parts and cache control of the adapters.

Not modelled:

* The compiler in `templates/agent.ts` for agents in their former mode (`:1354-1581`): the constructor of `Agent` is private and
  `Agent.create` demands a name, with which an agent always authors a graph, so no agent reaches it.
* The schemas, SQL and serialisation of the stores beyond their statements; manifests of sources and tools beyond
  equality; prompts, validators, diffs, schemas, content parts; formats of providers and platforms beyond the items and keys above: pure
  functions or input and output, which ordinary tests reach.
* What another program decides: the calendar of a cron pattern, the queries and permissions of the Claude SDK, the
  turns of the Codex server.
* User interfaces, examples, scripts and the visualizer.
