# A verification project for casa

casa is a framework for multi-agent work: an intent is turned into a plan of stages, one agent per
stage, the plan is executed in waves, agents exchange artifacts through a store, an agent loop
executes and verifies until the result is good enough, and a session scheduler with tenant quotas
decides which runs may execute at the same time.

This directory holds TLA+ models of the parts of it where correctness depends on the order of
events, the configurations that check them with TLC, and theorems about them checked by TLAPS.

| file | what it is |
| --- | --- |
| `Scheduler.tla` | `casa/scheduler` over the in-memory backend, with the quotas of `casa/tenant.py` |
| `Admission.tla` | what the scheduler promises its clients, in five actions |
| `RemoteBackend.tla` | `submit` of several replicas over Redis or PostgreSQL (`scheduler/backends_remote.py`) |
| `PlanCompiler.tla`, `ArtifactGraph.tla` | the compiler, the normalizer and the recovery of a stuck plan, and the graph they work on |
| `PlanExecution.tla` | `PlanExecutor`, `StageRunner`, the default `RecoveryChain`, `InterruptController` |
| `DagRun.tla` | what executing a plan promises |
| `Orchestrator.tla` | the facade: plans under review, runs, replans, and the store they are bound to |
| `AgentLoop.tla` | `casa/loop.py` over the orchestrator |
| `ArtifactStore.tla` | `casa/artifact` and `casa/lifecycle.py`: files, writers, clean-up, backup and restore |
| `ArtifactMap.tla` | what an artifact store promises: an atomic map |
| `Authority.tla` | `casa/authority`: grants, the capability matrix and the caching resolver |
| `MC*.tla`, `MC*.cfg` | the values and bounds of each run |
| `SchedulerProofs.tla`, `RemoteBackendProofs.tla`, `PlanCompilerProofs.tla`, `PlanExecutionProofs.tla`, `AgentLoopProofs.tla`, `ArtifactStoreProofs.tla`, `AuthorityProofs.tla` | theorems about the module each is named after |
| `SchedulerLoneProofs.tla` | theorems about `Scheduler` in a single-threaded deployment |
| `PROJECT.json` | components, runs, mutants, the map to source lines, findings, hazards, theorems |

To check a run: `tlc -workers 2 -config MCScheduler_fifo.cfg MCScheduler.tla`. To check the proofs
of a module: `tlapm SchedulerProofs.tla`. Operators commented `faulty:` are bugs someone might write;
substituted for the operator that follows them (`mutants` in `PROJECT.json`) each makes a property
fail, which shows that the property can.

Paths below are relative to `src/casa/`.

## 1. Inventory

How the parts call each other:

```
 client ── submit / release / heartbeat ──> SessionScheduler ──> SchedulerBackend (memory, Redis, PG)
                                                  └──────────> TenantManager <── tokens ──┐
 AgentLoop ── wait_for ──> Orchestrator (facade) ── compile ──> PlanCompiler, ArtifactDAG  │
                               │  └─ pause / resume / abort ──> InterruptController       │
                               └─ execute ──> PlanExecutor ── tasks ──> StageRunner ──────┘
                                     └─ deadlock ──> plan_recovery        ├─> RecoveryChain ──> agent
                                                                          ├─> ArtifactStore <── clean-up,
                                                                          │      backup, restore
 operators ── grants ──> GrantStore, CapabilityMatrix <── AuthorityResolver <── checks of agents
```

Only the scheduler, the tenant manager, the authority resolver and the lifecycle thread are used from
several threads, and the remote backends and the store from several processes. Everything from
the loop down to the agents runs in one asyncio event loop.

### Session scheduler (`scheduler/session.py`, `scheduler/backend.py`)

*State*: run records (status, slots, tenant, key, time of creation), a counter of used slots per
session, heartbeats. *Operations*: `submit`, `release`, `mark_failed`, `heartbeat`,
`find_and_release_zombies`, and the internal `_try_dequeue`, `_rollback_accept`,
`_restore_dequeued_run`. *Interactions*: every call is a sequence of backend calls and tenant-manager
calls, each one lock section; nothing is locked across them. *Hard*: two threads between lock sections;
rollbacks that write absolute values; a counter, a status and a reservation that must move
together; the zombie sweep against a client that is merely late; the order of giving back
slots, dequeuing and giving back quota. *Correct when*: the counter is what the runs occupy; the load
fits; a rejected submission leaves nothing; a key has one live run; the queue is served in order and
eventually; ends are final. Several of these the code keeps only while one thread calls it (section 7). Module `Scheduler`.

### Tenant manager (`tenant.py`)

*State*: quotas and today's usage per tenant and resource; tokens and cost spent. *Operations*:
`try_reserve_quota`, `release_quota`, `check_quota_sync`, `record_token_usage`. *Hard*: a reservation
and its release on different sides of midnight; several resources reserved one by one. *Correct when*:
reservations stay within limits and are given back exactly once. Module `Scheduler`.

### Remote scheduler backends (`scheduler/backends_remote.py`)

The backend interface over Redis and PostgreSQL. *State*: a hash or table of runs, a counter or row of
used slots per session, heartbeats. *Hard*: a Lua script or a transaction where the in-memory backend has
one lock section, and several commands where it has one call; `SELECT FOR UPDATE` on a row that does not
exist; a replica that dies between calls. *Correct when*: no slot is lost with a replica. Module
`RemoteBackend`.

### Compiler, artifact DAG, plan recovery (`orchestration/compile.py`, `artifact/dag.py`, `orchestration/plan_recovery.py`)

*State*: the declarations and indexes; the plan under construction. *Operations*: `from_declarations`
with its cycle check, `compile`, `closure`, `partition_waves`, `normalize`, `recover_plan_from_deadlock`.
*Hard*: several producers of one kind, agents that consume what they produce, presets outside the
declarations, cycles through evaluators, stages removed and inserted after the plan was linked.
*Correct when*: the check finds exactly the cycles, the closure is the least one, dependencies agree with
inputs and outputs, the stages can run in some order, and a recovery takes for done only what is.
Modules `PlanCompiler`, `ArtifactGraph`.

### Plan executor (`orchestration/plan_executor.py`)

*State*: pending and completed stages, results, the tasks of the current wave. *Operations*: `execute`
and, inside it, deadlock recovery, auto-skip, the pause of a stage that asks its user, failure.
*Hard*: tasks that end, fail or ask in any order while others run; user signals at every await; a
plan that is replaced in the middle of the loop. *Correct when*: a stage runs once and after what it
depends on, successes are reported whatever else happens, nothing runs on after the end, the call
ends. Module `PlanExecution`.

### Stage runner and recovery chain (`orchestration/execute.py`, `recovery.py`)

*State*: pending interactions by stage; attempts and the fresh-session mark of a recovery. *Operations*:
`StageRunner.run` with its three kinds of skip, `RecoveryChain.execute`, `_write`. *Hard*: a retry after a
partial effect; a marker that says "done" about an artifact that is gone. *Correct when*: success means
the artifact is in the store. Module `PlanExecution`.

### Interrupt controller (`interrupt.py`)

*State*: one signal and one event. *Operations*: `pause`, `resume`, `abort`. *Hard*: the two are set
apart, and signals overwrite each other. *Correct when*: a plan that waits is woken by whatever should
end its wait. Modules `PlanExecution`, and its signal in `Orchestrator`.

### Orchestrator (`orchestration/facade.py`, `facade_ops.py`, `plan_recovery.py`)

*State*: the current plan, plans awaiting approval and approved, the agents completed, and one store
that is bound to one plan directory at a time. *Operations*: `run`, `replan`, `approve_plan`,
`run_approved_plan`, `reject_plan`, `pause`, `resume`, `abort`. *Hard*: tables filled and emptied in
different calls; a store bound in one call and read in another; a replan over the work of an earlier
plan. *Correct when*: a plan runs only if nobody holds it back; a plan's stages work in its directory;
a replan keeps what was done. Module `Orchestrator`.

### Agent loop (`loop.py`)

*State*: iteration, deadline, verification passes, the agents a replan asks for, the result kept.
*Operations*: compile, review, execute or replan, verify, verify again, iterate. *Hard*: the deadline
cancels a call in the middle; an abort that nobody sent; the double pass at the last iteration. *Correct
when*: it ends, its rounds build on each other, and it reports success only for a complete plan with good
results. Module `AgentLoop`.

### Artifact store, backends, lifecycle (`artifact/`, `lifecycle.py`)

*State*: files in a directory per tenant, job and plan, on disk or in an object store; temporary files;
hints in another directory; the mirrored files of a backup. *Operations*: `write` (temporary file, rename,
hint), `read`, `exists`, `delete`, `list_artifacts`, `cleanup_plan`, the clean-up thread's `start` and `stop`,
`backup_plan`, `restore_plan`. *Hard*: a crash between two file operations; a clean-up thread that lists and
deletes while plans write; a partial restore; the old layout of an object store that tenants still read.
*Correct when*: a reader sees a whole old or a whole new artifact, durable artifacts stay, a restore brings
back what was backed up, and what is ephemeral goes. Modules `ArtifactStore`, `ArtifactMap`.

### Authority (`authority/`)

*State*: rows of the capability matrix with an index of producers, tool and data grants, a cache of
resolved answers. *Operations*: `resolve_tools`, `resolve_data`, `check_access`, `invalidate`, `register`,
`deregister`, `save_*`, `delete_*`. *Hard*: an answer composed of reads under different locks; a load that
overlaps a change and its invalidation; a marker that says an operator took over; indexes that outlive
what they index. *Correct when*: after an invalidation no answer comes from before it, and a check allows
what the tables allow. Module `Authority`.

### Without a module

Contract and scope (version numbers and ownership comparisons of one call), the artifact cache (a memo table
of one event loop), the agent executor (the call of an agent, in `PlanExecution` as an agent that answers, asks or
fails), intent router, knowledge bases, memory, events, hooks, audit, observability, policy engine,
deliverables, configuration, API, CLI and the Cursor extra: formatting, I/O, pure functions of one
call, or state that no other part reads. Section 8 says more.

## 2. How the modules fit together, and what is left

`PlanCompiler` computes the plan that `PlanExecution` executes; `Orchestrator` has both as steps, a compilation
as one and an execution as one per wave, and `AgentLoop` EXTENDS it with the loop, so that its run is of the two
together. `Scheduler` and `RemoteBackend` are the two levels of one interface: the first has the whole
scheduler over a backend whose calls are atomic, the second has what `submit` makes of backends
whose calls are not. Three modules say what a component promises and are implemented by it: `Admission`, `DagRun`
and `ArtifactMap`.

Every safety property that a run checks, invariants and refinements alike, is also a theorem, under the hypotheses
that the section of its module names. What stays with TLC are the five liveness properties (`QueuedRunsLeave`,
`ZombiesLeave`, `PlanEnds`, `LoopEnds`, `EphemeralLeaves`): the prover has no rules for fairness and ENABLED here.

Left for later: overlapping calls under the FIFO policy as a refinement of a weaker `Admission` that admits
leaks; two calls of the orchestrator at once.

## 3. The scheduler

### How the model corresponds to the code

The scheduler's methods are plain functions without a lock of their own: mutual exclusion exists
only inside a backend or tenant-manager call. A step of `Scheduler` is therefore one such call together
with the local computation up to the next one, `pc[t]` names the call thread `t` makes next, and threads
interleave between them. A single-threaded deployment is the instance with one thread.

| state | code |
| --- | --- |
| `status`, `created` | `RunRecord.status`, `created_at` (as a position in creation order; "none" before `save_run`) |
| `active`, `beat` | `backend._active`, `_heartbeats` (absent, fresh, or older than the zombie limit) |
| `usage`, `soft` | hard reservations of the day; whether tokens and cost are below their limits |
| `run`, `cur`, `after`, `held`, `queue`, `zombies` | locals: the run of the call, the run being dequeued, `active_after`, `reserved_quotas`, the lists `list_queued_runs` and `find_zombies` returned |
| `reply`, `known`, `dispatches`, `ends` | what clients have seen and done |

`Submit` is the idempotency lookup; `Accept` is `atomic_accept_run` and the policy's decision;
`ReserveQuotas`, `CheckSoftQuotas` and `Rollback*` the quota path; `SaveQueued` and `Confirm` the FIFO
path; `ListQueued` to `Dispatch` are `_try_dequeue`, which `submit`, `release` and `mark_failed` call in
their last step; `Release*`, `Fail*` and `Sweep*` the ends. `Heartbeat`, `BeatLapses`, `SpendTokens`
and `Rollover` are the clients' and the clock's. Every run is one future call of `submit`, with constant session,
tenant, slots and key.

`Admission` forgets counters, locks, quotas and heartbeats: a run is admitted while it fits, or
refused, or waits in a line per session and tenant, and ends.

### Runs

| run | instance | states |
| --- | --- | --- |
| `sched_threads_reject` | 3 threads, 4 runs (one of 2 slots), 2 sessions of 2 slots, reject policy, no quotas | 398 160 |
| `sched_fifo` | 1 thread with everything: FIFO, 2 sessions, hard and soft quotas, a shared key, sweeps, a day change, each run ended twice | 478 961 |
| `sched_threads_fifo` | 2 threads, 3 runs, FIFO | 672 334 |
| `sched_queue` | 1 fair thread, 4 one-slot runs in 2 slots, FIFO, sweeps | 134 877 |

What they show:

* Several threads under the reject policy, without quotas and with one end per run: every step is one of
  `Admission` (`ImplementsAdmission`). The two actions of `Admission` that are about waiting do not occur here.
* One thread, with queue, quotas, keys, sweeps and ends that are repeated one after the other: no path through
  rollback, restore, end or sweep leaks or double-frees a slot (`Accounting`) or a reservation (`QuotaAccounting`), a
  rejected submission leaves nothing behind (`RejectedLeavesNothing`), a key has one live run (`OneLiveRunPerKey`).
  What one thread cannot show is a call that meets another half-way; with two, the last two fail, and the
  first two when two ends of one run, or a sweep and an end, overlap (section 7).
* Two threads and a queue, without quotas and with one end per run: the counter may only err upwards
  (`NeverUndercounted`): slots can be leaked by overlapping dequeues, but not given out twice (`LoadWithinCap`).
* One thread, runs of one slot, no tenants: whoever frees a slot looks at the queue (`SomeoneWillDequeue`), runs leave
  it in the order of their line as `Admission` demands (`ImplementsAdmission`), every queued run leaves it
  (`QueuedRunsLeave`), and a run without heartbeats does not keep its slots (`ZombiesLeave`). With tenants, wider runs
  or more threads the code does otherwise; section 7 says what.

The instances are small but not idle: two runs fill a session, a third and a fourth must wait or be
refused, and one of them is wider than what is left. Two threads suffice for every pair of overlapping calls, a
third lets an accept meet two ends. No run has two ends of one run that overlap: the code frees its slots
twice then, so `Accounting` would not hold.

*Bounds.* `MaxEnds` (calls of release and mark_failed a client makes for one run; 2 lets an end be
repeated), `MaxLapses` (how often a heartbeat goes stale), `MaxRollovers` (day changes).
`created` is bounded by the number of runs, since each is submitted once.

*Fairness* (`FairSpec`, used by `sched_queue` only). A thread continues the method it is in:
threads are scheduled and no call blocks for ever. A client eventually releases each of its
runs, from some thread, and the application calls the sweep again and again: both are what the documentation asks of
an application, and without them a queue need not move.

*Deadlock* is not checked: once every run has been submitted and ended as often as the bounds allow,
nothing is left to do.

### Proofs

For all sets of threads, runs, sessions and tenants and all caps and limits (assumptions
`RunsAssumption`, `CapAssumption`, `QuotaAssumption`):

* `TypeCorrect`: `TypeOK`, which includes that a thread inside a method always has the run it works on.
  It is inductive by itself; the lemmas before it state what each backend call does to the type of what it
  writes.
* `CounterWithinCap`: `ActiveWithinCap`. The counter alone is not inductive, because `_rollback_accept`
  writes back an old value: the proof carries along that every remembered `after[t]` is itself within the cap.
* `ReservedWithinLimit`: `QuotaWithinLimit`, with the ceiling 0 for a resource that has no limit.

For any number of threads, under either policy, when each run is ended once at most, no sweep ends it besides
and no run has a tenant (`Simple`, the setting of `sched_threads_fifo`):

* `NoSlotIsCountedFree`: `NeverUndercounted`, and `LoadStaysWithinCap`: `LoadWithinCap`. A run that has been
  accepted, and a call between `atomic_accept_run` or `adjust_active` and the write that answers for it, owns its
  slots; each owner is given a block of as many elements, and the invariant `SlotInv` says that the counter is at
  least the cardinality of all blocks. A step adds an owner only with its slots, and takes slots back only
  when an owner goes.

And if besides the policy is "reject" (`Rejecting`, the setting of `sched_threads_reject`):

* `CountersAreExact`: `Accounting`, of threads that interleave but end each run once. Nothing waits, so every slot belongs to one run for as long as its place in the
  code says (`RejectInv`), and the counter is the cardinality itself (`ExactInv`). The proof goes over eight
  kinds of steps rather than over the actions, since many actions do the same to slots.
* `RejectingAdmits`: `ImplementsAdmission`, from that count: a run is refused only if it does not fit.

With one thread (`OneThread`; `Alone` if there is one at all), for any policy, quotas and sweeps and any number of
ends of a run (`SchedulerLoneProofs`, the setting of `sched_fifo` without its bounds):

| theorem | property |
| --- | --- |
| `KeysAreKept` | `OneLiveRunPerKey` |
| `NoGhostRuns` | `RejectedLeavesNothing` |
| `SlotsAreExact` | `Accounting` |
| `QuotasAreExact` | `QuotaAccounting` |
| `EndedIsFinal` | `TerminalIsFinal`: done and failed stay so (no run checks it: with one thread no write is stale, with two `session.py:417` breaks it) |
| `LoadFits` | `LoadWithinCap` |
| `AloneAdmits` | `ImplementsAdmission`, with the queue, the quotas, the rollbacks and the sweeps |
| `QueueIsServed` | `SomeoneWillDequeue`, without tenants and if every run fits into an empty session |
| `NobodyOvertakes` | `NoOvertaking`: nobody is accepted past an older run that waits, without tenants and with runs of one slot (no run checks it either: with two threads `session.py:150` breaks it) |

The first two rest on `LoneInv`: what the only thread knows at each of its steps, for instance that the run it submits
has no live run of its key beside it. None of the others is inductive, since a slot is counted before its run is marked
and a reservation is held before or after its run is live. `PathInv` says at every label what the call under way is
about: the status of its run and of the run being dequeued (`StatusInv`), that the latter is the oldest of its line
(`LineInv`), that a count it may write back is still the counter (`AfterInv`), which reservations it holds
(`HeldInv`), and that records are numbered as they came (`OrderInv`). From that every action is shown to do
nothing, or to touch one run in one of the ways `Touches` lists: its slots appear with the counter, its reservation with
the usage, its outcome as `Admission` allows (`Effect`, one lemma for each group of actions). The counts follow once
for all actions: each run that occupies slots is given a block of as many elements, and `CountsMove` adds or removes
one. With two threads most of this is false, as section 7 says.

The last two exclude tenants because a waiting run may then be refused its quota and put back while nobody is left
to look again (section 7). `FullInv` says why somebody will: between calls a session whose queue is not empty is `n` slots
full, and `m` slots while a call that ended a run has not looked yet. `QueueIsServed` takes `n = 1, m = 0`,
`NobodyOvertakes` `n = Cap, m = Cap - 1`.

Model-checked only: the two liveness properties.

### Several replicas: `RemoteBackend`

On Redis and PostgreSQL a backend call is not one step: an accept is a Lua script or a transaction of
a SELECT FOR UPDATE and two writes, and the calls after it are commands of their own. `RemoteBackend`
has one session and what `submit` makes of these calls, in several replicas that may crash between any two
steps; what a transaction wrote is then gone.

| state | code |
| --- | --- |
| `kind` | which backend is configured |
| `row` | the session's counter: `<prefix>:active:<session>`, or its row in `scheduler_sessions` (`NoRow` before the first accept) |
| `status`, `old` | the saved runs, and those saved by an earlier process |
| `lock`, `seen` | the transaction that holds the row, and the count it read |
| `pc`, `mine`, `answer` | where each replica is in `submit`, for which run, and what it answered |

`backends_remote.py` does not import `RunRecord`. Whatever rebuilds a saved run raises a NameError:
`get_run`, the lookup of an idempotency key that finds one, the lists of a Redis session with a run. So
`release`, `mark_failed` and the sweep, which begin with `get_run`, change nothing there, and the model has
`submit` as the only operation with an effect; which of its calls raise is `DequeueRaises` and `Lookup`.

Run `remote` (315 020 states): 3 replicas, 4 runs (one of 2 slots, two with one key), 3 slots, a crash, a
policy that the configuration may change between calls. `SlotsHaveRuns`: the slots taken never exceed what saved
runs account for, wherever a replica dies. That is what `atomic_accept_run` was written for (`backend.py:29`),
and a Redis accept that took slots and saved the run in two commands violates it. *Bound*: `MaxCrashes`.
*Deadlock* is not checked: runs are submitted once. No fairness.

Proved (`RemoteBackendProofs`) for any replicas, runs, slots and crashes, on both backends: `NoSlotIsLeaked`, which is
`SlotsHaveRuns`, and `LockedAcceptsAreExact`: on Redis, and on PostgreSQL once the session has its row, the counter is
exactly what is accepted and within the cap (`LockedRowIsExact`; it says where the first-accept case of section 7
ends). `RemoteInv` adds to both that busy replicas work on different runs, without a record until they are accepted
(`MineInv`), that a transaction has seen no more than what is accepted (`SeenInv`), and that whoever writes the
row holds its lock and, once there is a row, still sees what it says (`LockInv`). The slots of a set of runs are
the cardinality of their blocks, so that adding a run adds its slots without an induction.

## 4. Executing a plan

### How the model corresponds to the code

Everything here runs in one event loop, so a step is the code between two awaits: of `execute`, of a
stage's task, or of the user code that pauses, resumes and aborts. One exception, without effect on what
can happen: the head of `execute`'s loop is a step of its own.

| state | code |
| --- | --- |
| `deps`, `pre`, `skip` | the current plan: `depends_on`, `pre_completed`, `allow_skip_core_if_artifacts_exist` |
| `pc`, `outcome` | the await `execute` is at, and how the call ended |
| `pending`, `completed`, `results`, `wave`, `limit` | locals of `execute`; at the end `results` is what the caller gets, returned or as `partial_results` |
| `task` | the asyncio task of each stage: waiting for the semaphore ("queued"), in the agent ("running"), after `_write` ("written"), and its ends: "ok", "asks" (a result with an interaction request), "failed", "cancelled" |
| `attempt`, `tried` | the recovery chain's attempt counter and `RecoveryContext.fresh_session` |
| `artifact`, `asked` | the artifact of each stage in the store; `_pending_interactions` |
| `signal`, `event` | `InterruptState.signal`, `_resume_event` |

`LoopHead` and `Woken` choose the next wave or deal with a deadlock; `StartWave` creates its tasks after
the `wave_start` hooks; `Collect`, `CollectFailure` and `CollectPause` are the three ways `asyncio.wait`'s
answer is handled, `Drain` the gather before a pause; `PauseEnd` and `WaveEnd` follow the `wave_end` hooks.
`Begin`, `AgentSucceeds`, `AgentFails` and `EndStage` are `StageRunner.run`. `Timeout` is the cancellation
of `execute` by a caller's `wait_for` (the agent loop's); `ExecuteAgain` the next call, by a replan.

Abstractions: an artifact is absent, valid or invalid; the adaptive limit of a wave doubles, up to the size of
the wave, when two or more of its agents have a record and the variance is small, and the records may be any; of the attempts only those the first strategy grants are counted, since only they
are compared; stages of equal priority queue for the semaphore in any order; stage ids are agent ids and
a recompiled plan has the same stages, as for plans the compiler makes. The deployment: an
interrupt controller is given, there is no cache backend, the recovery chain is the default one, agents
end when cancelled, and a second call of `execute` starts when the tasks of the first have ended.

`DagRun` forgets waves, retries, pauses and the store: a stage starts at most once per call and only when
all it needs is done, the plan may be replaced only when nothing can run, and at the end nothing runs.

### Runs

| run | instance | states |
| --- | --- | --- |
| `plan_waves` | a diamond of 4 stages, priorities, one agent at a time (or two, adaptively), a retry and a fresh session, 3 stages that may ask, 2 that may fail, 3 user signals of pause, graceful and immediate abort | 64 850 |
| `plan_again` | 5 stages with a cycle, all three answers to a deadlock, artifacts left over (one invalid), a mark without an artifact, 3 calls, timeouts, 2 user signals | 350 197 |
| `plan_v_cancelled` | 3 stages, the smallest in which the finding of section 7 shows | |

What they show: agents find the artifacts of all their dependencies (`InputsExist`); nothing is reported
as a success that is not in the store (`ResultsHaveArtifacts`); results, and the errors of a failed stage and of
an immediate abort, report every success of the call (`SuccessesReported`; the error of a deadlock has no
`partial_results`, and a `CancelledError` or the caller's timeout none to give, so nothing is claimed of these ends); no stage starts twice in a call (`OneTaskPerStage`) or survives it
(`NoPeerOutlives`, where callers do not time out); a call that returns without an abort is complete
(`ReturnedIsComplete`); and it ends, or sleeps under a graceful abort that replaced a pause (`PlanEnds`, which names
this one case `AbortUnheard`: section 7). Skips, deletions and recompiled plans are in `plan_again`, whose
`InputsExist`, `OneTaskPerStage` and `ImplementsDagRun` are shown by the theorems only.

Four stages make waves of one, two and one, so that failures and requests meet peers that are
queued, running and done; three signals allow a pause, a second pause after the resume and an abort.
The cycle with a stage beside it reaches a deadlock with completed stages; three calls allow a
replan after an aborted replan. *Bounds*: `MaxSignals`, `MaxCalls`.

*Fairness* (`FairSpec`): the event loop keeps running `execute` and every stage's task (agents answer or
their time limit strikes), and a plan that stays paused is eventually resumed by its user. No other signal
is assumed. *Deadlock* is not checked: a plan that is over is over.

### Proofs

For every set of stages, dependency maps, priorities, limits, retries and leftovers (`PlanAssumption`,
`ConfigAssumption`), and without bounds on calls or signals other than that `MaxSignals` and `MaxCalls` are numbers:

| theorem | property |
| --- | --- |
| `PlanTypeCorrect` | `TypeOK` |
| `InputsAlwaysExist` | `InputsExist` |
| `ResultsAreBacked` | `ResultsHaveArtifacts` |
| `SuccessesAreTold` | `SuccessesReported`, with the same three ends left out |
| `PeersEnd` | `NoPeerOutlives`, if no caller times out |
| `ReturnsAreComplete` | `ReturnedIsComplete` |
| `NoSecondTask` | `OneTaskPerStage` |
| `Refinement` | `ImplementsDagRun`, if no caller times out |

All follow from one inductive invariant, `PlanInv`. None of the properties is inductive: `InputsExist`, for
instance, needs that a task at work has its dependencies in `completed` (`InputsInv`), that what is
completed has succeeded or was skipped at a deadlock (`CompletedInv`), that after such a skip nothing
works any more (`SkippedInv`), and that success implies an artifact (`WrittenInv`); these in turn need to know
at which awaits tasks exist (`ActiveInv`), which stages have none (`FreshInv`), and that the stages
of a wave are not completed yet (`ReadyInv`). `RecordInv`, `ReportInv` and `CountedInv` tie the results to the
tasks. Each action has a lemma, with a step for every part of the invariant it can disturb; `TypeStep`
does the types. For the refinement, `RefineRunStage` and `RefineExecute` map each step to a step of `DagRun`
or to a stutter.

Model-checked only: `PlanEnds`, which is liveness.

## 5. Plans, the loop and the store

### The compiler: `PlanCompiler`, `ArtifactGraph`

`ArtifactGraph` has the graph that declared inputs and outputs span, as the code builds it (of several producers
of a kind the last declared one counts), and what its algorithms are to compute. `PlanCompiler` has the
algorithms, one iteration per step, and the other operations of a compilation as one step each.

| state | code |
| --- | --- |
| `io`, `setOrder` | `agent_io_map`; the order in which this process enumerates a set of agents |
| `path`, `black` | the calls of `dfs` under way in `_check_cycles`, and the nodes it is done with |
| `request`, `base`, `pool` | the compile request, the agents it names, the agents of the plan |
| `waves` | what `partition_waves` has put together so far |
| `plan` | `plan.stages`: id, agent, role, kind, `depends_on`, `input_refs`, `pre_completed` |
| `normalizer` | the configuration of the last `normalize`, with the agents it saw unhealthy |
| `stuck` | the deadlock the executor reported, with what had succeeded and what the store holds |

`VisitRoot`, `Descend`, `Refuse`, `Leave` are the cycle check; `Resolve` what `compile` makes of a request;
`Include` and `CloseDone` the closure; `PartitionWave` a round of `partition_waves`; `Build` the stages with
injected evaluators; `Normalize` all of `PlanNormalizer.normalize`; `Deadlock` and `Recover` are
`recover_plan_from_deadlock`, which compiles again in between. An id of an evaluator's stage is the pair of what it
is made of; a preset and seed stages are the agents they name.

Run `compiler` (669 392 states): 3 declared agents and one that a preset or the core pipeline may name, 3 kinds, 64 declaration maps
(chains, cycles, an agent that consumes its own kind, two producers of one kind, an agent without output), two
orders of sets, 6 requests, 6 normalizers, a recovery after any state of the execution.

* `CycleCheckIsExact`, `ClosureIsLeast`: the algorithms against their definitions. A depth-first search that
  marks nodes when it enters them, or a closure of one round, fails.
* `PlanIsLinked`: whatever the normalizer removes and inserts, no stage depends on one that is not there, and each
  producer stage waits for the stage that writes its input, if the normalizer has the declarations. The inputs of
  evaluator stages are not looked at. The run injects one evaluator per plan and has no required agents; the theorem
  has any number of both.
* `PlanCanRun`: some order executes the stages. It is claimed of declarations in which no agent consumes its own
  kind and no kind has two producers; section 7 says what happens in others.
* `RecoveryKeepsWork`: the recovered plan has every agent of the old one that the normalizer admits, and takes for
  done only what has its artifact and is not what the executor was stuck on.

*Bounds*: the values above, `MaxEval`, `MaxRecoveries`. No fairness. *Deadlock* is not checked: a compilation ends.

Proved (`PlanCompilerProofs`) for any agents, declarations, requests, normalizers and deadlocks:

| theorem | property |
| --- | --- |
| `CycleCheckCorrect` | `CycleCheckIsExact` |
| `ClosureCorrect` | `ClosureIsLeast` |
| `PartitionSucceeds` | `PartitionNeverStuck`: on declarations the check let pass, `partition_waves` never raises, whatever is selected |
| `WavesAreOrdered` | `WavesFollowDeps`: every agent of a wave has its producers in earlier waves |
| `PlansAreLinked` | `PlanIsLinked` |
| `PlansCanRun` | `PlanCanRun` |
| `RecoveryIsSound` | `RecoveryKeepsWork` |

`CheckInv` carries the search: what is black leads only to black and has no cycle among itself, the path is a
chain of distinct nodes that are not black. At the end all is black, so there is no cycle; an edge back into the path
is one. `CloseInv` says that the growing pool stays inside every closed set around its start, `WaveInv`
that the waves so far are ordered and inside the pool; that a next wave exists follows from `CheckInv` at its end.

The last three assume `NamesApart`: agents are no kinds, and the names the compiler composes, of an
evaluator's stage (`<stage>_eval_<agent>`) and of its verdict (`<kind>_eval`), are not those of agents or kinds
themselves. The code does not check this of its configuration, and keyed by name two such stages would be one.
They rest on `PlanInv`. A plan is `GoodPlan`: what its stages are called and write fits their roles (`ShapedPlan`),
and, with declarations as in `PlanCanRun`, stages wait along the graph or for producers (`OrderedPlan`) and the
kind follows from the name (`NamedPlan`); and it is `LinkedPlan`. `CompiledIs` and `NormalizedIs` prove that of what `Inject`
and `Normalized` return, from a lemma each about keeping, joining and relinking lists (`KeepGood`, `JoinGood`,
`RelinkGood`). Stages that all wait for one another would be a cycle of agents (`WaitingIsCyclic`), which `CheckInv`
rules out. A recovery compares two plans: `StuckInv` says of what succeeded in the first that its artifact is there under
the kind which a stage of that name has in every plan, also in the one compiled next.

The lists of `Inject` and `Normalized` are given by the positions they keep, in their order (`Keep`, `Ranked`), since
the prover knows nothing of what SelectSeq and FlattenSeq return.

### Orchestrator and loop: `Orchestrator`, `AgentLoop`

Everything is in one event loop; a step is the code between two awaits. Compiling is one step (`Compile`, with the
closure that `PlanCompiler` computes); `execute` is a step per wave (`Head`, `FinishWave`, `FailWave`),
whose results are what `PlanExecution` can give: all of the wave, a failure after some peers have written, a
partial result after an abort. A stage is the agent it runs and its artifact has the agent's name.

| state | code |
| --- | --- |
| `pendingPlans`, `approvedPlans`, `rejected` | `_pending_plans`, `_approved_plans`, plans marked as rejected |
| `currentPlan`, `completedAgents` | `_current_plan`, `_completed_agent_ids` |
| `bound`, `dirs` | the plan whose directory the store is bound to; the artifacts in each directory |
| `signal` | `InterruptState.signal` |
| `call`, `place`, `left`, `pre`, `results`, `result` | the call under way, where it is, its stages to do, marked ones, results; what the last call gave |
| `mode` | verifier and `require_double_pass` of this loop |
| `phase`, `iteration`, `request` | where `AgentLoop.run` is, the round, what the router chose |
| `prior`, `wish`, `stop`, `kept` | whether a round had a success, `pending_replan_agents`, `stop_reason`, the result it returns |
| `aborted` | history: the user sent an abort while the loop ran |

`Run`, `RunForReview`, `RunDenied`, `RunApproved`, `Replan`, `ReplanConflict` are the calls up to
`execute`; `ApprovePlan`, `RejectPlan`, `Signal`, `Resume` the user's. `TopEnd`, `Plan`, `Review`,
`ExecuteLate`, `ExecuteRound`, `WaitTimeout`, `Answer`, `Verify`, `Reverify` are the parts of a round.

Choices. An `InterruptController` is given and no normalizer; one call of the orchestrator at a time, the user's
before the loop, reviews and signals at any time. Requests for the user's input, and what pauses a single
stage, are in `PlanExecution`; here a pause stops the plan at the next wave. The deadline may pass at any of the
points where the code looks at it. A custom verifier may answer anything. Dry runs, rendering and clean-up
after a run are off.

Run `loop` (1 247 514 states): three agents, one needing another, the core one may be of low quality, one may fail;
two routes, the policies `start` and `patch`; three rounds, double pass or not, both kinds of verifier, a review
gate; one plan of the user's own before, one signal of pause, abort or immediate abort, and resumes.

* `RejectedNeverRuns`: a plan that was rejected or awaits its review is not executed, in whichever order reviews,
  runs and rounds come.
* `StoreFollowsPlan`: stages execute in the directory of the first plan of their revision history;
  `RoundsBuildOnEachOther`: after a success, later rounds stay in that directory.
* `ReplanKeepsWork`: a replanned round contains all that was made and calls none of those agents again.
* `SuccessIsEarned`: with the default verifier and no abort, "verified" means that every stage of the kept plan
  has a good result.
* `LoopEnds`: the loop ends, also when its user pauses it for good.

*Bounds*: `MaxSignals`, `MaxPlans` (enough for a plan of the user and three rounds), `MaxIterations`,
`MaxUserPlans`. *Fairness*: the event loop runs whatever is ready (`LoopStep`), and `wait_for` fires at its
deadline (`WaitTimeout`); nothing is assumed of agents or of the user. *Deadlock* is not checked: a
loop that is over is over.

Proved (`AgentLoopProofs`) for any agents, needs, routes, verifiers and bounds: the five safety properties, as
`ReviewIsRespected`, `StoreIsRight`, `WorkIsKept`, `SuccessEarned` and `RoundsStayTogether`. They follow from one
inductive invariant, `LoopInv`: the tables of plans are disjoint, by id, from each other, from the rejected
ones and, for those to review, from what is executed (`PlansInv`); a call is under way only where the loop
waits (`PlaceInv`); what `prior` stands for is in the bound directory and `currentPlan` has its root
(`BindingInv`); what is left of a replan has no artifact but a marked one (`WorkInv`); an abort nobody sent
comes from a conflict and carries a warning (`ConflictInv`); and without an abort a result without warning has
all stages (`ResultInv`), which is what `SuccessIsEarned` rests on. Model-checked only: `LoopEnds`.

### The artifact store: `ArtifactStore`, `ArtifactMap`

The store is shared by processes, a clean-up thread and the backup tool; nothing is locked. A step is one file
operation or one request to the object store. A name in a directory is a kind or, for a temporary file, the call of
`write` that made it; a content is the call whose data it is, "torn" for a file not yet filled, or absent.

| state | code |
| --- | --- |
| `backend` | what `_resolve_backend` chose: "local" or "s3" |
| `files`, `hint`, `dirs` | the names in each plan's directory (one with a tenant, one without), on disk or in the object store; the hints in the reports directory; the plans with a directory on the local disk, which `init_plan` makes in either deployment |
| `write`, `stored` | where each call of `write` is; the calls whose artifact was put in place |
| `cleaner`, `stop`, `client` | the clean-up thread, its event, and what its owner called last |
| `backup`, `mirrored`, `copying`, `restoring`, `report` | the mirror and the calls of `backup_plan` and `restore_plan` under way |

`InitPlan` is `init_plan`; `OpenTemp`, `FillTemp`, `Replace` are a local write (`FillFails` its error), `PutObject` and
`PutFails` an S3 one, `WriteHint` the second file (`HintFails`: the write raises although its artifact is stored).
`LoopHead`, `ListPlan`, `DeleteArtifact`, `DeleteLegacy`, `RoundEnds` are the thread, whose round covers what
`scan_plan_dirs` finds: the local directories (`dirs`) of its tenant, or of all if it has none (`Scanned`). `Start`,
`Stop`, `Joined` are its owner's calls; `Joined` may come before the thread has ended, as a join that times
out, and a `Start` that then finds it alive does nothing (`client` = "unheeded"). `BackupStart`, `CopyOpen`, `CopyFill`,
`BackupEnd`, `RestoreStart`, `RestoreOpen`, `RestoreFill`, `RestoreEnd` are the copies, each file truncated and then
filled. `Crash` kills every call and the thread; the volume survives or is lost with all that lies under
`base_dir`, hints and directories included, while an object store keeps its objects.

`ArtifactMap` forgets files: a write takes effect at once and at most once or fails, only ephemeral kinds are removed,
a restore takes values back that were stored, and a crash fails what is open.

Run `store` (826 736 states): 3 writes (one finished earlier, one with a hint), two directories, of a tenant and
without one, a durable and an ephemeral kind, both backends, one crash, loss of the volume or I/O error anywhere
(the silent failure of an S3 delete is one), a backup, a restore, and a thread of the tenant that is started and stopped at
will, with or without waiting for it. No two writes share a place and kind, and no data is above the size a local
read accepts: overwriting and oversized data are in the theorems only.

* `ContentsAreStored`: data and hint come from a write that stored its artifact; no hint precedes its artifact.
* `NoWriteIsSwept`: the thread, which lists temporary files too, never takes one that is being written. It depends on
  the default tier, as section 7 says.
* `RestoreIsComplete`: when `restore_plan` returns, every durable artifact of the backup can be read.
* `ImplementsMap`: every step is a step of `ArtifactMap` or a stutter.
* `EphemeralLeaves`: while the thread that a start has started runs, what is ephemeral goes, in both layouts, from
  every plan the scan sees. Plans of other tenants, plans whose directory is not on this disk, and the time
  after an unheeded start are not claimed: section 7.

*Bounds*: `MaxFaults`, `MaxBackups`, `MaxRestores`, one each. No write of a plan starts while it is restored, and no restore
while one is under way (`MayWrite`, `RestoreStart`), and a client runs one backup or restore at a time: the code sees to
neither, both are assumed of the operator, and `RestoreIsComplete` rests on them. In an object store a backup has
no files to mirror, so the property is about the disk. *Fairness*: the thread is scheduled, its waits end, and `stop`
returns, at the latest when its join times out. *Deadlock* is not checked: writes end.

Proved (`ArtifactStoreProofs`) for any number of plans, kinds, writes, faults, backups and restores, and both backends:

| theorem | property |
| --- | --- |
| `ContentsCorrect` | `ContentsAreStored` |
| `WritesAreKept` | `NoWriteIsSwept`, if the default tier is not "ephemeral" |
| `RestoresComplete` | `RestoreIsComplete` |
| `StoreRefines` | `ImplementsMap` |

They rest on `StoreInv`. `ContentInv` extends `ContentsAreStored` to temporary files, which hold their own write's data or
nothing, and to the writes, of which those still to put their artifact in place have stored nothing: without that, moving
a temporary file to its kind could bring data from anywhere. `CleanInv` says that the thread holds only names
`cleanup_plan` selects. `RestoreInv` says that nobody is half-way through a write of the plan being restored, and
`ProgressInv` that each durable kind of the backup is still to be restored, half restored, or readable: at the end only
the last is left, and no step of the thread or of a writer elsewhere takes it away. `WritesAreKept` adds `TempInv`: the
temporary file of a write under way is there, because its name is not one the thread selects. In the refinement
each file operation is a step of `ArtifactMap` or unseen, one lemma for writes, clean-up, copies and crashes each.
Model-checked only: `EphemeralLeaves`, which is liveness.

## 6. Authority

Threads of the program ask what an agent may use; operators change grants and rows and then invalidate
(`docs/EXTENDING.md:52`). A step is what happens under one lock of the matrix, the grant store or the
resolver, or one statement of a transaction of the PostgreSQL store, whose writes are seen when it commits.

| state | code |
| --- | --- |
| `rows`, `producer` | `CapabilityMatrix._rows`, `_data_producer_index` |
| `grants`, `marked`, `data` | tool grants with their flag; the rows of `grant_tool_agents`; data grants |
| `cache` | `AuthorityResolver._cache` |
| `at`, `asked`, `code`, `db`, `tools`, `verdict` | a thread in `check_access`, its question, what it has read, what it answers |
| `job` | the operator's transaction, and the invalidation it still owes |
| `suspect`, `overlap`, `seen` | history: agents changed and not yet invalidated, or cached from before; threads whose agent changed while they resolved; what was true all through a thread's question |

Run `authority` (840 640 states up to the symmetry of threads and operators): 2 agents that may produce one kind,
one of which may be registered again with less, a tool, a data grant, 2 threads, 2 operators, 2 changes, both grant
stores.

* `CacheIsFresh`: a cached answer is what the tables say, unless they were changed and the cache not yet
  invalidated, or who put the answer had read them before the change.
* `AccessIsExact`: a check during which nothing about its agent changes allows exactly what the tables
  allow, although it is composed of several reads, some from the cache.
* `ProducerIsRegistered`: `producer_of` names a registered agent that writes the kind, if no agent is registered
  again with another kind.

*Bound*: `MaxChanges`. Symmetry is sound: no property or constant tells threads or operators apart, and there is
no liveness. No fairness. *Deadlock* is not checked: operators run out of changes.

Proved (`AuthorityProofs`) for any number of agents, tools, threads, operators and changes: all three, as `CacheIsRight`,
`AccessIsRight`, `IndexIsRight`. The first two share `FreshInv`: what a thread outside `overlap` has read so far is what the
tables say (`ReadInv`), so that its put is fresh; what held all through a question still holds, and the tools
returned agree with it (`SeenInv`). `IndexInv` says of a producer that its row writes the kind.

## 7. Where code and documentation disagree

One disagreement has a run in which TLC finds the documented property violated by what the code does:

* `plan_v_cancelled` (`orchestration/plan_executor.py:210`): a cancelled peer is asked for its exception, so a failing
  stage makes `execute` raise `CancelledError` instead of the `StageExecutionError` it documents.

Behaviour met while modelling, in the models as it is in the code, that no run is spent on. *Scheduler*:

* A quota rollback writes back the count its own accept returned (`scheduler/session.py:283`); an accept of another thread
  in between is lost and the session then admits more than its cap, though `tests/test_lifecycle_deadlock.py:122`
  says concurrent submits do not. `LoadWithinCap` is checked without quotas.
* Two overlapping dequeues take one queued run, count it twice and dispatch it twice (`session.py:406`; the docstring
  at 396 calls the dequeue atomic).
* `release` dequeues before it gives back the tenant's quota (`session.py:349`); the waiting run is refused and
  nobody looks again. `SomeoneWillDequeue` is checked without tenants.
* Two submits with one idempotency key both run when their lookups precede both saves
  (`session.py:129`); `OneLiveRunPerKey` is checked with one thread.
* `_try_dequeue` writes "queued" into a record that may have ended since it was read (`session.py:417`);
  `TerminalIsFinal` is checked with one thread.
* Two ends of one run that overlap, of two clients or of a sweep and a late release, both pass the status check and both
  free the run's slots and its quota; the clamp at zero hides it (`session.py:321`, `backend.py:133`), hence
  `Accounting`, `NeverUndercounted`, `LoadWithinCap` and `QuotaAccounting` are claimed of one thread, or of several that end
  each run once and do not sweep.
* A replayed submit may be handed a run whose quota check then fails (`session.py:149`); `RejectedLeavesNothing` is
  checked with one thread.
* A submit does not look at the queue: between the release of a slot and the dequeue that follows it, another thread's
  submit takes the slot past the runs that wait (`session.py:150`). `NoOvertaking` is a theorem of one thread.
* The daily counters of a tenant (runs, tokens, cost) are keyed by the UTC day: a reservation made before midnight and
  rolled back after it is taken from the new day's counter (`tenant.py:24`). They stay within their limits
  (`ReservedWithinLimit`); nothing else is claimed of them, and `QuotaAccounting` is about running runs only.
* A release looks only at the queue of its own tenant (`session.py:349`), one dequeue per end wakes one run however many
  slots were freed (`session.py:440`), and a run wider than the cap waits for ever (`session.py:235`), hence the instance of
  `sched_queue`.
* A late heartbeat re-creates the entry of an ended run (`session.py:358`); it costs memory only.

*Remote backends* (`scheduler/backends_remote.py`):

* `RunRecord` is not imported; what rebuilds a run raises a NameError (section 3), and on Redis
  that includes the dequeue of the first submit, where `tests/test_scheduler_atomic_backup.py:96` expects "accepted".
* `SELECT ... FOR UPDATE` locks nothing while the session has no row (250): two first accepts both read zero, both commit,
  and the count is that of the last, where `backend.py:37` promises an atomic operation. `SlotsHaveRuns` bounds
  the count from above only.
* Redis `try_acquire_slot` reads and writes in two commands; PostgreSQL `set_active` deletes the row at zero, which
  brings back the first-accept case; PostgreSQL `mark_status` sets the heartbeat to 0. None of them is reached by
  `submit` without quotas.

*Execution*:

* A graceful abort of a paused plan replaces the pause but does not set the event `execute` waits for
  (`interrupt.py:59`), so the plan stays there until it is resumed, though `docs/CASA-MultiAgent-Methodology.md:407` lists
  graceful termination. `plan_waves` reaches it; `PlanEnds` names it as the one case in which `execute` does not
  end, and would fail without that name.
* `StageRunner` pauses with `pause(after="stage")` whatever signal is in force, so a request overwrites an
  abort (`execute.py:292`).
* After a pause only the immediate abort is looked at (`plan_executor.py:84`); a new pause takes effect a
  wave later.
* `FreshSessionStrategy` grants one retry whatever `max_attempts` says (`recovery.py:73`), and after
  invalid data the retry does not get the fresh session (`recovery.py:140`).
* The error of a deadlock carries no partial results (`plan_executor.py:134`); a recompiled plan that is stuck again
  is recompiled for ever (`plan_executor.py:104-119`).
* The comment at `plan_executor.py:159` says a pause cancels the peers of the wave; the code awaits them.
* When the loop's `wait_for` cancels `execute`, the tasks of the wave go on (`loop.py:198`,
  `plan_executor.py:170`); the orphans are in `plan_again`.
* A signal outlives the call: an abort also stops the next `execute` until someone resumes.

*Compiler*:

* The normalizer gives an agent that consumes its own kind a dependency on itself, and with two producers of a kind
  an inserted core stage may close a cycle; the executor is then stuck, and the recovery normalizes into the same
  plan. `PlanCanRun` is claimed without either.
* Without `agent_io_map`, or for a core agent it does not list, the normalizer inserts core stages whose kind is the
  agent's name; without it they depend on nothing.
* Core agents that are forbidden or unhealthy are removed although `normalize` promises a complete core pipeline, and an
  empty plan is returned without them.
* Two evaluators of one stage write the same kind; presets are not checked against the declarations, and an evaluator that is
  not declared makes the recovery raise a ValueError.

*Orchestrator and loop*:

* A revision always carries a warning, which the default verifier takes for an issue (`loop.py:390`): a replanned
  round is never accepted by it. A stage of low quality is not done again by a replan, since its artifact is there.
* The second pass of the last allowed round reports that the limit is reached (`loop.py:424`), so a loop of one round with
  a double pass and the default verifier cannot succeed, where `tests/test_loop.py:71` says that the double pass should
  still succeed in the last round (its verifier is a custom one).
* A replan in conflict aborts by signal (`plan_recovery.py`), and the loop's next round then ends as "aborted".
* After a graceful abort the partial result satisfies the default verifier; the loop keeps a result for any success, not
  "only if all stages succeeded" (`loop.py:334`). Hence "no abort" in `SuccessIsEarned`.
* A replan is not checked by POST_COMPILE rules; `respond_to` and `resume` clear an abort; after a run that raised,
  `_completed_agent_ids` is that of an earlier run.
* `run_approved_plan` reads the approved plan before its awaits and pops it at the end: two calls at once execute it
  twice, and two runs at once bind the one store in turn. The model has one call at a time.
* `approve` and `reject` of a stage pop a table that nothing fills (`facade.py:462`).

*Store*:

* A local write accepts more data than a read (`artifact/backend.py:84`, 100): what is stored is then read as nothing, which
  `ArtifactMap` allows by name.
* `list_keys` lists temporary files, also those a crash left behind, as if they were artifacts; with a default tier "ephemeral" the thread would take one between its fill and its
  rename. The default is "job", and so is `DefaultTier`.
* `stop` may return while the thread lives, when its join times out (`lifecycle.py:185`); the next `start` finds it alive
  and does nothing (175), and the thread then ends: the program has called `start` last and has no clean-up.
* The clean-up scans the local directories of its tenant (`lifecycle.py:89-121`): artifacts in an object store whose
  plan has no directory on this disk, after its loss or made by another host, are never cleaned.
* A write whose hint fails raises although its artifact is stored (`artifact/store.py:177`). Hints live in the reports
  directory: they are not in a backup and outlive an artifact that is deleted. An interrupted restore
  leaves torn files, which a new backup copies over the good ones; backups of one plan merge; the list that
  `backup_plan` returns is made after the copy.
* A tenant's store falls back to the old layout of an object store, and its deletes reach it too; an S3 delete that fails is
  not reported.

*Cache* (`cache.py`, `orchestration/execute.py:227-259`, `491-503`): the fingerprint of a put is computed after the
agent ran, that of the get before; the key contains the plan's id although the module speaks of runs.

*Authority*:

* Who loads grants before a change and puts them after the invalidation leaves the old answer in the cache until the
  next one (`authority/resolver.py:65`), where `docs/CASA-MultiAgent-Methodology.md:198` says a change is in effect from the
  next run; `CacheIsFresh` names this case.
* The reads of one resolution are separate: a thread that reads defaults before and grants after a change may deny what
  was allowed both before and after.
* The marker that an operator took an agent over can outlive its last grant when two deletions overlap
  (`authority/store.py:207`), where `tests/test_authority.py:54` expects the code's defaults back.
* `deregister` drops the index entry of a kind whoever took it over (`capability.py:165`), so that no producer is named
  although one is registered, which `ProducerIsRegistered` allows; and registering with another kind
  leaves the old one; duplicate tool ids make it raise after the row is gone.

## 8. What is not modelled

In the scheduler: runs with two overlapping ends, or with quotas and several threads (the modules have them,
and section 7 says what the code does then; no property is claimed of them), the status "running" (nothing in the scheduler sets it, and what tests it
tests for "accepted" too), the `slots_used` override of `release` and `mark_failed`, answers to unknown runs and
wrong sessions (they change nothing), disabled tenants (they behave like a quota of 0), backends without
`atomic_accept_run` (all three have it), `dispatch_callback`s that raise or call back, equal creation times.

In the remote backends: tenants with quotas, health snapshots, and what `release`, `mark_failed` and the sweep would
do if they could read a run.

In the compiler: `gates.py` and `composer.py`, which annotate a plan and build prompts, and the wording of warnings.

In the execution of plans: the cache backend, recovery strategies outside the default chain, what agents
are given and what streams back, hooks that raise, a stage result without success (`StageRunner` returns
none; it raises), a second call of `execute` while orphans of the first are at work.

In orchestrator and loop: two calls at once, dry runs, rendering, automatic clean-up, stage approvals, a normalizer (it is
in `PlanCompiler`), what `replan.py` asks a model (any set of agents here).

In the store: deliverables and reports (the same write), schema validation, `register_backend`. In authority: the registry of
tool definitions, which no check reads, and the fallback to an old PostgreSQL schema.

Without a module: the components listed at the end of section 1; `PROJECT.json` gives the reason for each. Contract,
scope, policy and router are functions of one call, whose unit tests enumerate what a model would; events, hooks, audit
and observability are written and never read by another part; events published from a running loop become tasks without
an order (`events.py:65`), which no component depends on.
