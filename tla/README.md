# A verification project for the swarm orchestration service

TLA+ models of the service's core, the TLC runs that check them, and TLAPS
proofs of what matters most. Paths are relative to the repository's root. The
machine-readable index (components, runs, mutants, the map from definitions to
source lines, findings, hazards, theorems) is `PROJECT.json`.

    tlc -workers 2 -config MCPromptQueue.cfg MCPromptQueue     # one run
    tlapm PromptQueueProofs.tla                                # one proof module

## 1. The system

GitHub sends webhooks. The **listener** (`src/webhook_receiver/app.py`) checks
and filters them and puts an envelope into an in-process **prompt queue**. One
consumer task takes the envelopes one by one and runs a cold **agent session**
for each (the ACP host), in a workspace that is a scratch directory, a mapped
checkout, or a clone materialized from a container of the **SwarmSandbox
service**, which runs on its own with a database and a reaper. Everything
interesting is emitted as an event to an **event store**, whose ring and live
feed a web page shows, and to **run history** on disk. A session labels issues with
the account of the token it was given, which may be the owner's own; setting a
workflow label is how one session hands over to the next. The agents that run in
those sessions are instructed to use PowerShell **skills**: a swarm run-state
file, issue tracking and repository creation scripts.

| Component | State | Operations | What makes it correct |
|---|---|---|---|
| Prompt queue, listener (`prompt_queue.py`, `app.py`) | registry of accepted delivery ids (bounded deque + set), asyncio queue, the envelope in flight; all in memory | webhook handler → filter / enqueue / duplicate; consumer take / consume; lifespan start and stop | at-most-once within the registry's window although GitHub delivers at least once; first in, first out; a failed run neither stops nor skips anything; a restart never mistakes a lost envelope for a duplicate |
| Event store, SSE (`event_store.py`, `app.py`) | id counter, ring, subscribers, one bounded queue per subscriber | emit, subscribe with replay, next, close, recent | no event twice, none lost but to the reader's own full queue, order kept, the ring is the newest tail |
| ACP host (`acp_host.py`) with the sandbox bridge (`sandbox_bridge.py`) | per run: workspace, agent process, trace handle, sandbox, release task, outcome | run: prepare, spawn, handshake, prompt against watchdog, cleanup, report; cancellation at any await | no agent outlives its run; no sandbox is left behind silently; the events agree on one verdict; shutdown terminates |
| Idle watchdog (`acp_host.py`) | clock, last activity, start, next wake-up | heartbeat, re-arm at the prompt, poll | live sessions are never killed, silent ones always and soon |
| Sandbox service (`SwarmSandbox.Api`) | table of records, Docker's containers, calls in flight, the reaper's pass | POST, DELETE, reap pass, TTL expiry, client abort, crash | Removed means removed; no container is lost track of; rows retire |
| Run history (`event_log.py`, `trace_log.py`, `app.py`) | global log and its counted size, run directories, manifests | append, rotate, open, prune, finish, read the tail, list the runs | the newest events are kept in order; only directories that `keep_runs` others outlive are pruned; a manifest tells the truth |
| Dispatch gate, prompt builder, permission policy (`filters.py`, `prompt_builder.py`, `acp_policy.py`, `github.py`) | none of their own: the issue's labels and body, what a session was allowed always | labels set and removed, deliveries judged, prompts built, permission requests answered | no label triggers what its sender's account may not ask for; of what sessions do to an issue only the hand-off labels set off another; a denied tool does not run |
| Swarm run state (`swarm-state.ps1`) | a JSON file | init, start-round, record-task, end-round, finish | an ended run stays ended; the budget stops rounds; only overlapping commands lose anything, and nothing older than what they read |
| Sandbox entrypoint and the bridge's copy (`entrypoint.sh`, `sandbox_bridge.py`) | a clone in a container, a copy of it on the host | clone; copy until the markers are there | a session starts in a whole checkout |
| Issue tracking, repository creation (PowerShell) | GitHub's | find or create, link, import, set fields | idempotent re-runs after a partial failure |
| Web pages | a list of seen event ids | deduplicate by id | nothing shown twice |

**Interactions.** The handler calls `enqueue` synchronously on the event loop;
the consumer awaits `queue.get()` and `AcpHost.run()`. `run` calls the bridge,
which calls the sandbox service over HTTP with a timeout of 15 s and then
`docker cp`. The lifespan cancels the consumer and awaits it. Emitters call
`EventStore.emit`, readers drain their queues from worker threads. The sandbox
service's endpoints and its reaper share the table without a concurrency token.

**What is hard.** (1) Cancellation: a shutdown strikes at whichever await the
run has reached, and in a `finally` block it skips the rest of the cleanup.
(2) At-least-once delivery against an in-memory, bounded registry. (3) POST,
DELETE and the reaper rewriting whole rows from stale copies while clients hang
up and the service crashes. (4) An emit that copies its subscribers inside the
lock and offers outside it. (5) Failures inside failure handling (a trace that
cannot be closed). The complete list, each entry at its line, is `hazards` in
`PROJECT.json`.

## 2. The modules

| Module | Models | Depends on |
|---|---|---|
| `DispatchLog` | the abstract promise of listener and queue | |
| `PromptQueue` | the handler, `PromptQueue` and its process | instantiates `DispatchLog` |
| `EventFeed` | the abstract promise of the event store to its readers | |
| `EventStore` | ring, fan-out, subscribers | instantiates `EventFeed` |
| `AcpHost` | `AcpHost.run`, `SandboxBridge`, the consumer, the lifespan | |
| `IdleWatchdog` | `_idle_watchdog` | |
| `SandboxService` | `SandboxManager`, `SandboxReaper`, `EfSandboxStore`, `DockerSandboxProvisioner` | |
| `RunHistory` | `EventLog`, `RunTrace`, retention, and the endpoints that read them | |
| `DispatchGate` | the handler's answer: `filters.py`, `prompt_builder.py` | |
| `PermissionPolicy` | `acp_policy.py`, `request_permission`, `_write_deny_config` | |
| `Dispatch` | people, listener, agent sessions and the issue they all change | extends the two above |
| `Workspace` | the entrypoint's clone, `_materialize` | |
| `SwarmState` | the commands of `swarm-state.ps1` | |
| `MC*` | TLC instances; the constants are in the `.cfg` files | the module named |
| `PromptQueueProofs`, `EventStoreProofs`, `AcpHostProofs`, `SandboxServiceProofs`, `RunHistoryProofs`, `DispatchProofs`, `SwarmStateProofs` | theorems and proofs | the module named, TLAPS |
| `RunWaitsProofs` | theorems about the two waits of a run: for the agent and for the workspace | extends `IdleWatchdog` and `Workspace`, TLAPS |

In every module an action is what the code does between two points where
another task, thread, request or process can get in. Definitions marked
*faulty* are plausible bugs, each beside the definition it would replace; no
specification uses them. They show that the property named in `mutants` can
fail.

**PromptQueue.** `_seen_order`, `_seen` and `_queue` are the attributes of the
class; `info` is the envelope the consumer holds. After `await request.body()`
the handler is synchronous, so `Filter`, `Accept` and `Duplicate` are its three
outcomes, each one step: `Accept` contains `enqueue`, whose eviction and append
keep the deque and the set in step. `Take` and `Consume` are the two halves of
the consumer loop. `Stop` is a shutdown or a crash, which for the queue are the
same: all of it is in memory. An envelope is its position in acceptance order
plus the delivery id; what `should_dispatch` accepts is the constant
`Qualifying`. `accepted`, `consumed` and `outcome` are history.
Rejections before the gate (size, signature, ping, malformed JSON) touch no
state and are left out.

**DispatchLog.** Deliveries go into a log; an id is refused while it is among
the last `Window` accepted ones; the log is executed strictly in order. The
refinement mapping reads the log off `accepted`, the position off the queue's
length, and the entry in execution off `info`.

**EventStore.** `emit` is four kinds of step: `TakeId` (outside the lock),
`AppendEvent` (the locked section, which also copies the subscribers), `Offer`
once per copied subscriber (in any order, which covers the list's), `Return`.
`Subscribe` is one step, for it replays and registers under the lock. An event
is its id, and `by` remembers which thread emitted it. `status`, `since`, `received`, `dropped` and `appended` say what a
reader was owed and what became of it. The constructor's arguments are
constants.

**EventFeed.** Events are published into a log, one thread's in the order it
drew their ids. A reader that opens its feed is due the newest `window` of them
(the ring's length), of which it loses the newest if they exceed its capacity,
and from then on every event published. `Deliver` takes an event from what is due, never past an older one of
the same thread; `Lose` needs more than `capacity` events due. No event comes
back once it was delivered or lost. The refinement mapping reads what is due
(`Due`) off the reader's queue and off the emitters inside their fan-out; an
offer that finds room is then no step at all, for it moves the event from the
one to the other.

**AcpHost.** `pc[r]` names the await a run is in; an action is everything from
one await to the next, the except and finally blocks included. `verdict` is
what `run` is about to return or raise. `Interrupt` is `CancelledError` at each
of the awaits, `Teardown` is what `asyncio.run` does after the lifespan. The
sandbox is seen from this side only: is it there, and was it deleted. A
request that fails may still have had its effect. A trace may fail to open, to
close or to finish; `spoiled` records the runs for which the latter two raised.

**IdleWatchdog.** Time is counted in ticks; `Tick` may not pass a sleeping
watchdog by more than `Lag`. `poll` is the code's `min`. `heard` records the
last true sign of life since the prompt, against which the kill is judged. The
settings are chosen at the start from `IdleTimeouts` and `Ceilings`.

**SandboxService.** Every `await` of `CreateSandboxAsync`, `DeleteAsync` and
`ReapOnceAsync` is an action; each call carries the copy of the row it read.
`Save` writes the whole row. `named` stands for the two identity columns, which
are set together. The reaper shares one `DbContext` in a pass, so a row whose
save failed is written by the next save (`unsaved`). Docker's answers and saves
may fail if `Faults` says so, a cancelled call may or may not have had its
effect. `interrupted` records the ways a creation can be cut short.

**RunHistory.** The writers run on the event loop, each call in one piece; the
reads run in worker threads and are therefore two steps (`read_global_tail`) or
one per directory (`list_runs`). An action is a call of the code with what its
filesystem calls come to: `How` says how far a write got, `stat` and `rename`
whether these worked. A fragment left by a failed write swallows the line
written behind it. A line is one unit long, so `_global_size` counts lines.
`disk.after` stands for the modification times, by which `prune_runs` decides:
of every run, which others were modified later. Creating a file or replacing one
sets a directory's time, appending does not. (A sequence of the runs in the order
of their times would say the same, but picking out of it the runs that still
have a directory is induction over data, which no prover here can do.)
`stuck` are directories that cannot be removed. The life of an envelope
(`phase`) is as much of queue and host as writes history; `harness.log`, which
nothing reads back, is left out. `owner`, `failed`, `torn`, `blind` and `slips`
are history.

**DispatchGate, PermissionPolicy, Dispatch.** `Act` is GitHub: someone changes
the issue, and a delivery is under way. `Deliver` is the handler, later, with
the issue as it is by then; gate and builder read the same payload. Logins and
label names stand for their normalised form. Whether a delivery is too large,
unsigned or malformed is an input (`sound`). `PermissionPolicy` is one session
after another: the host's `decide` and `respond` answer a request, and the
agent, which is the environment, remembers what it was told to allow or reject
always. A tool is its kind and whether a deny pattern matches the call and the
deny list names it. `Dispatch` closes the loop: a tool call that was let run
may be an act on the issue, with any of the accounts in `Account`, which may be
bots' or people's: where the token is the owner's, the gate takes a session for
the owner, and so do the allow list and the verbatim body. `own` remembers which
acts were a session's; no action looks at it. Queue and serial execution are
left to `PromptQueue`.

**Workspace.** A file is absent, partial or whole. `Checkout` is git, which
writes `.git` first and completes it last; a fetch that fails takes back what
it wrote, a checkout that fails leaves it. `Copy` is one file of one `docker
cp`; it lays files over what earlier copies left and removes none. `CheckMarkers`
looks at the markers, then at the clock. The workspace is named by the
envelope's id, so it starts empty. What every specification has (`Init`, `Next`, `Spec`)
is here called `PrepareInit` and so on, for `RunWaitsProofs` takes this module in
beside `IdleWatchdog`. The rewriting of the remote's URL and the
entrypoint's error file change nothing that the bridge looks at.

**SwarmState.** A command reads the file, checks, and works on its copy
(`held`, with `base` for what it read). `Set-Content` empties the file (`Clear`)
before it fills it (`Piece`, `Put`), and two commands may do so at a time: from
then on both are `shared`, and whenever one of them writes, the text may come out
as its own state, as pieces of both that cannot be read (`torn`) or as pieces of
both that can (`mixed`, whose content and what commands then make of it are not
followed). `init` looks for the directory in one step and makes it in the next,
so two of one second may share a run. `Kill` may come between any two steps. Of a
task only the id is kept. `append-note` and `status` do not touch the state and
are left out. There is one run: a command without `-RunId` takes the latest
directory, so an `init` between two such commands redirects the second; the
model does not show that.

## 3. What is checked

Passing runs:

| Run | Shows | Bounds |
|---|---|---|
| `queue` | `RefusedExactlyInWindow`, `FirstInFirstOut`, `LostEnvelopeRecovers`, `EveryAcceptedConsumed`, `ImplementsDispatchLog` | 3 qualifying deliveries and a filtered one, each sent twice, a registry of 2, one restart: the registry fills, evicts, and an evicted id is accepted again |
| `store` | `RecentIsLatest`, `Accounted`, `InOrder`, `AppendedIsReceived`, `ImplementsFeed` | two threads inside `emit` at once, though the service itself emits from one, for the store takes its lock for several; two readers; 3 events through a ring of 2 and queues of 1: the ring wraps, replays are cut, queues overflow |
| `host` | `NoAgentLeft`, `StrandedHasCause`, `VerdictsAgree`, `ShutdownEndsConsumer`, `VerdictIsReported` | two runs, for one can only disturb the next; all failures, cancellation at every await |
| `watchdog` | `OnlySilenceKills`, `SilenceIsNoticed` | every schedule of 14 ticks, intervals of at most 3, idle limits of 2 and 4, no ceiling and ceilings of 1 and 7: the interval, the idle limit and the ceiling each get to be the smallest |
| `sandbox` | `RemovedIsGone`, `OrphanHasCause` | two records: they meet only in the reaper's shared `DbContext`, for which two suffice; they are interchangeable, hence symmetry |
| `sandbox_live` | `RowsRetire`, `ContainersReclaimed` | one record, all faults, no symmetry (it is unsound for liveness) |
| `history` | `GlobalLogOK`, `HistoryComplete`, `RunsRetained`, `OutcomesAreTrue`, `ReadsAreFaithful` | 3 runs of which 2 are kept, so one is pruned, be it in execution; a global log of 2 lines and 6 events: it rotates twice and loses a generation; one failing filesystem call, at any place; restarts |
| `dispatch` | `PromptIsRight`, `PermissionsHold`, `NoEcho` | an allowed person, another one and a bot; sessions with the allowed person's account or the bot's; a label of each class; two acts, for the hazard is one that leaves the label and one that triggers; every tool, every set of options |
| `workspace` | `WorkspaceOK`, `DeadlineWorks` | a repository with any of the two markers and one more file; any number of copies |
| `swarm` | `StateOK`, `OnlyOverlapsLose`, `BudgetStopsRounds` | two processes, for an overlap and a collision are of two; two tasks, a budget of one, two rounds: the second is the one the budget stops; symmetric in processes and tasks |

Most properties of the last four runs are conjunctions of named parts, each with a
comment of its own in the module.

`VerdictIsReported` and `EveryAcceptedConsumed` say that a failure does not stop
the consumer. Where a trace that cannot be closed or finished breaks a promise
of the host, the property says `spoiled`; nothing else excuses it.

Deadlock is checked where the system never stops, in the sandbox service, whose
reaper ticks on. The other models do stop: the process, the session or the run
has ended, a workspace is ready or has failed, or a bound on sends, events,
acts, runs or rounds is used up.

`MaxSends`, `MaxBoots`, `MaxEvents`, `MaxTime`, `Runs`, `MaxFaults`, `MaxActs`
and `MaxRounds` are the only bounds that the code does not have; each cuts off an
environment (GitHub, operators, emitters, the clock, the disk, people, the
orchestrator), never the program. The proofs hold for all their values.

**Disagreements.** Two runs check a sentence of the repository that the code
does not keep, and TLC shows a behaviour:

- `queue_redelivery`: "GitHub redelivery recovers" a failed run. A redelivery
  has the delivery id of the original and is dropped as a duplicate.
- `host_hang`: "Cancellation (lifespan shutdown) propagates". If closing the
  trace raises during a cancellation, the consumer takes it for a failed run,
  loops, and the lifespan awaits it for ever.

Elsewhere a property had to name an exception to hold, and the exception is
what a reader of the code should know:

- A replay holds only as much as a subscriber's queue, half of the default
  ring, and the newest events are the ones cut (`Accounted`).
- A trace whose close or finish raises turns an answered run into a failed
  dispatch (`VerdictIsReported`, `spoiled`).
- The shielded release of a sandbox outlives its run but not the event loop
  (`StrandedHasCause`).
- A POST aborted while Docker creates the container leaves one that no row
  names, and the reaper goes by rows; so does one that a DELETE, or its own TTL,
  overtakes: nothing in the code makes the TTL outlast the call (`OrphanHasCause`).
- A session that acts with an allowed person's account is that person to the
  gate: it can set off the next session, and have an issue's body run verbatim
  (`OnlyHandOffsChain`, `VerbatimIsAuthorized`). The chain of hand-offs is meant
  (the skills end by setting such a label); nothing in the service bounds it.
- The markers show that the clone has begun, not that it is done, and a
  workspace copied before it was done may be handed out
  (`WholeOrOverlapped`).
- The directory of the run in execution can be pruned, when `keep_runs` others
  are queued behind it; its next event starts it again, without what was in it
  (`NewestRunsKept`, `HistoryComplete`).
- A tool kind once allowed always runs without being asked for, whatever the
  deny patterns say (`DeniedRunsOnlyUnasked`).
- `finish` leaves a round open, and judging that round met turns the stopped
  run into an achieved one (`EndStands`).
- Two overlapping commands do lose one's changes. `RecordsKept` and `EndStands`
  except the write that does it; what is checked of that write is how far back it
  can reach, which is to the earliest read of the commands under way
  (`OldNewsStays`), and that the file stays consistent (`AchievedIsJudged`,
  `SpawnedIsCount`).
- A command killed while it writes, or two that write at a time, leave a file that
  no command can read (`UnreadableHasCause`). Two long texts may also leave one
  that can be read and is neither; of it nothing is claimed (`Intact`).

**Fairness.** `PromptQueue`: only that the loop schedules the consumer
(`WF(Take)`); that runs end is a premise of the property (`RunsEnd`), not an
assumption of the model, because an agent without a ceiling may talk for ever.
`EventStore`: a thread that has entered `emit` goes on, for nothing in it
blocks, and the thread of an open reader keeps reading; nobody must emit,
subscribe or close. `AcpHost`: weak fairness on the awaits that a timeout of the
code, of the SDK or of HTTP bounds; none on `docker cp`, on git and on the
prompt, which nothing bounds. `SandboxService`: requests and the reaper's loop
go on and time passes (weak); Docker and the database may fail the reaper any
number of times but not for ever (strong, on each record's successful step).
`Workspace`: docker answers and time passes (weak); nothing is assumed of git,
so that `PrepareEnds` rests on the deadline alone. The other modules have
safety properties only.

## 4. What is proved

TLAPS checks these for all values of the constants, under the assumptions named
in the modules (a capacity of at least one; limits and intervals positive).

- **PromptQueue.** `TypeCorrect`, `RefusalIsExact`, `ExecutedInOrder`,
  `LostIsNotDuplicate`, and `QueueRefinesLog`: every step of
  the queue is a step of the dispatch log or leaves it as it is. `DedupWindow`
  is not inductive by itself: it needs that the registry *is* the window of the
  accepted ids (`RegistryIsWindow`), so that a refusal by the registry is a
  refusal by the window. `LostEnvelopeRecovers` needs that an id in the registry
  has an outcome of this boot (`SeenIsCurrent`).
- **EventStore.** `StoreTypeCorrect`, `RecentShowsLatest`, `ReadersSeeOrder` and
  `NothingFallsBetween`, for any number of threads and readers and all sizes of
  ring and queues. `RingIsTail` compares the ring with the log place by place,
  and not only what `recent` answers. `InOrder` is about what a reader *got*; it
  needs that an emit under way has its thread's latest id, which is in the log
  from the locked section on (`InFlight`), and that a reader still to be served
  has only earlier events of that thread, taken or queued (`StreamBehind`).
  `Accounted` needs that only registered readers are served, or readers that
  left after the list was copied (`Registered`). `StoreRefinesFeed`: every step
  of the store is a step of the feed or leaves it as it is. It rests on all of
  these together (`StoreInv`), by way of `DueOnce`: what is queued for a reader
  has no repetition and nothing that is still to be offered. So an event taken or
  refused is due no more, and a full queue and the refused event are more than
  `queue_maxsize` different events (`MoreThanQueued`).
- **AcpHost.** `HostTypeCorrect`, and `NoAgentSurvives`: an agent is alive after
  its run only if closing that run's trace raised. The strengthening,
  `AgentGuarded`, says where a live agent can be (`handshake` to `close`), and
  that at `drain` or `close` it is alive only if the one cancellation has been
  spent, so that nothing is left to skip the kill. `StrandedSandboxHasCause` and
  `ReportsAgree` share one invariant, `HostInv`. The properties speak of runs that
  are over, but what a run may still report depends on where a cancellation
  struck; so the invariant ties a run's events, its verdict, its agent's answer
  and its sandbox's release to the await it is in.
- **SandboxService.** `ServiceTypeCorrect`, `RemovedTellsTruth` and
  `OrphansHaveCause`, for any number of records and all faults. A row says
  nothing reliable by itself, for any writer may put an old copy over it. The
  invariant `Sound` therefore speaks of the copies: `Cleared` and `CopyCleared`
  say that whoever is about to write Removed under an identity removed the
  container first; `CopyTracked` says how old the reaper's copies may be, no
  older than the end of the POST unless that one was overtaken; `Tracked` says that
  whoever holds no identity has no container left to address, or its creation was
  cut off.
- **RunHistory.** `GlobalLogCorrect`, `HistoriesAreComplete`, `RetentionIsExact`,
  `ManifestsTellTruth` and `ReadsTellTruth`, for all limits and any number of
  events, runs, restarts and failing calls. `LogSound` names the event at which
  the previous generation ends and the current one begins. That the events before
  may be forgotten needs that a generation is full with lines of as many events,
  hence that the counted size never exceeds the file's (`SizeSound`); the
  same invariant bounds the files, the count being short by a generation for
  each failed `stat` and by a line for each failed write. `ReadSound` covers a
  read that began before a rotation and ends after it. `Dated` says that the
  modification times order the runs totally and that only runs that enough
  others were modified after are without their directory; `CountsSound` charges
  every directory too many to a failed call.
- **IdleWatchdog** (in `RunWaitsProofs`). `WatchdogTypeCorrect`,
  `LiveIsNeverKilled` and `SilenceIsKilled`, for all limits, intervals and lags. The invariant
  `Timing` ties the next wake-up to the last heartbeat and the start, and says
  that a watchdog still asleep has seen neither limit passed.
- **Dispatch.** `DispatchTypeCorrect`, `PromptsAreRight`, `PolicyHolds` and
  `OnlyLabelsBeget`, for all people, bots, labels, allow lists, accounts of
  sessions and any number of acts. `GateAgreesWithBuilder` is the heart: what the
  gate lets through with a set of labels, the builder turns into a prompt its
  sender may run. `OnlyLabelsBeget` needs that dispatched acts are labels set
  with a person's account (`PassedGate`) and that there are no acts of sessions
  before there is a session (`SessionInv`).
- **Workspace** (in `RunWaitsProofs`).
  `WorkspaceIsWhole` and `FailureHasCause`. The invariant, `CopyingInv`, follows a
  copy file by file: of one that began when the clone was done, what it has come
  by is whole (`CopyIsWhole`).
- **SwarmState.** `StateStaysSound`, `NothingLostAlone` and `BudgetHolds`, for
  any number of overlapping and colliding commands. `StateOK` speaks of the file,
  but a process may hold any older state and write it back; so the invariant
  (`HeldSound`) says of every held copy that it is sound and that it follows from
  the state that the command read. A write that is not stale is then a step that a
  command may make, and one that is keeps what was in its `base`, which is what
  `OldNewsStays` asks. That a torn file has a cause needs that whoever is `shared`
  has a collision on record (`SharersNoted`).

Every invariant and every action property that a passing run checks is a theorem.
Only model-checked is what needs fairness or ENABLED, which are outside the
prover's reach: `EveryAcceptedConsumed`, `AppendedIsReceived`,
`ShutdownEndsConsumer`, `VerdictIsReported`, `RowsRetire`, `ContainersReclaimed`,
and of `DeadlineWorks` the part `PrepareEnds`.

## 5. Not modelled

- **Issue tracking and repository creation scripts.** All their state is
  GitHub's; what they do is a sequence of `gh` calls whose effects this
  repository does not define, and most of a model would be a guess at them.
- **The observability page and the sandbox's web UI.** They show what the
  endpoints answer. The one hazard, the set of seen ids that the page clears at
  5000, is listed without a property.
- **Configuration, authentication, maintenance scripts.** Values are read once
  and passed on; there is no state after the start.
- Of modelled components: rendering and the wording of prompts, read-only
  endpoints other than those of the run history, `harness.log`, the session
  updates of the host, which only emit events, and the choice of a run
  directory by `swarm-state.ps1`.

## 6. Plan

Every component with state of its own is modelled, and the safety properties of
all of them are proved. What is left:

1. A refinement of `DispatchLog` by the composition of queue and host, which
   would replace the premise `RunsEnd` by the host's own guarantees.
2. An abstract specification of a run's life as the page sees it, with
   `AcpHost` shown to implement it.
