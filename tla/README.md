# TLA+ models of Vibestudio

Vibestudio is a workspace server: a host process runs user code as *Durable
Objects* (DOs, small SQLite-backed actors in a separate runtime), builds that code
into artifacts, wakes it on schedule, asks people for approval, and survives
planned restarts and crashes.  This directory holds TLA+ models of the parts of
the host where order, failure and restart decide whether it is right, the TLC
configurations that check them, and proofs of their most important properties.

Source paths below are relative to the repository; the repository's top
directory appears as `src/`, so its own `src/server` is `src/src/server`.

## 1. Inventory

| Component | State it keeps | Operations | Where it is hard | Properties that make it right |
|---|---|---|---|---|
| **Durable alarm store** `packages/builtin/src/workspace-state/WorkspaceDO.ts`, `packages/durable/src/wake-publication.ts` | alarm rows with their claim, test policies, adopted driver activation, per-key schedule revision, wake request and claim counter (all SQLite) | set, clear, publish, request, adopt, claim, complete; entity activation, rotation, retirement | late calls of superseded drivers and incarnations; five tables that must stay consistent on every path | a claim is exclusive and fenced; a host event is never lost; retirement leaves nothing behind |
| **Alarm driver** `src/server/services/alarmDriver.ts` | one timer, two request flags, a failure retry, the driving operation, lanes | drive loop, peek, claim, dispatch, re-arm, complete, quiesce | every store call is awaited while timers, notifications, lanes and stop() go on | no lost wake-up; bounded lanes; every due alarm claimed; quiesce ends |
| **Execution retention** `executionPublicationJournal.ts`, `gcEpochCoordinator.ts`, `buildV2/buildStore.ts`, `workspaceEntityStore.ts`, `retirementSystem.ts`, `runtimeImageStore.ts` | build directories, trash, GC state file, epoch and reservations (SQLite), owner records, entity mirror | put, hydrate, reserve/finalize, snapshot, preflight, quarantine, rename, repair | publication against collection; stale mirror; saved copy of the state file; crash between rename and record | a rooted build is never deleted; a deletion is repairable; sources of live builds stay |
| **Durable work driver** `services/durableWorkDriver.ts`, `packages/shared/src/keyedSerializer.ts`, `packages/durable/src/durable-work-readiness.ts` | ready hints, claiming set, active lanes, prerequisites, runners, per-queue mutation chains | notify, pump, claim, execute, settle, fail, recover, quiesce | limits computed before an awaited claim; hints consumed before it; quiesce during a claim | bounded concurrency; one claim per lane; no wake-up and no lease forgotten; quiesce leaves nothing running |
| **Lifecycle restart** `workerdManager.ts` (the generation-transition owner), `services/lifecycleDriver.ts`, `packages/shared/src/lifecyclePreparation.ts`, lifecycle part of `WorkspaceDO` and of `packages/durable/src/index.ts` | the process and its generation, the running transition, queued requests and their epochs; leases and resume rows (SQLite); admission of each DO | restart, stop, recover, ensure running; open epoch, prepare in phases, cancel, journal, resume | a crash arrives in a preparation that the hung process will never answer; requests absorbed by a run already under way; refusals in the middle of a phase; the process dies under its hooks | each released or lost DO is resumed; a crash recovery gets a new generation; a failed preparation reopens its targets; nobody waits for ever |
| **Eval kernel lease** `services/evalKernelLease.ts`, kernel lease of `packages/builtin/src/eval-engine/EvalDO.ts` | lease table, operation chain and held requests per DO; the activation's lease | touch, hold, expire, close | every call is awaited while leases expire and activations are replaced; close overtakes a touch | an attached holder is an open request; a replaced lease ends its request; close returns |
| **Shared build coordinator** `buildV2/sharedBuildCoordinator.ts`, `buildV2/builderLifetime.ts` | flights, requests, slots (SQLite shared by processes) | join a flight, take a slot, adopt demand, settle, retire, reap | several processes without a common clock of events, dead owners, priorities, lost settlements | one compiler per key; slots within every process's capacity; no waiter stranded |
| **Approval queue** `services/approvalQueue.ts` | pending approvals with their waiters | request, coalesce, resolve, cancel | decision against cancellation and coalescing | each waiter answered once |
| **Acquisition coordinator** `services/acquisitionCoordinator.ts` | acquisitions by id and request key, cooldowns, presentations, owner deliveries; durable receipts | request, join, present, settle, deliver, resume, close | receipts redelivered after restarts; joiners of a closing presentation | a settled acquisition reaches its owner |
| **RPC sessions** `packages/rpc/src/client-core.ts`, `transports/wsClient.ts` | pending requests and streams, active handlers, connection state | call, stream, cancel, reconnect, recover | reconnection against in-flight calls, late frames | every call settles once |
| **Panel runtime leases** `src/server/panelRuntimeCoordinator.ts` | holder of each panel runtime | acquire, renew, take over, release | two hosts taking one panel | one holder |
| Hub server, build pipeline, workspace VCS, credentials and egress, hosts and CLI, built-in panels | - | - | process supervision, file I/O, external protocols, user interface | outside the scope (section 8) |

How they interact.  A DO publishes its schedule to the alarm store through
`workspaceStateService`, which then calls `alarmDriver.notifyChanged()`; the
acquisition coordinator's durable receipts ask for a wake through
`alarmSourceRequest`.  The driver claims rows with awaited calls to `WorkspaceDO`,
dispatches `__alarm` to the DO and completes or re-arms the row.  Entity activation
and retirement in `WorkspaceDO` rewrite the alarm tables without telling the driver.
Entities name the build they run; activation reserves the build in the publication
journal, commits in `WorkspaceDO` across an await, publishes the entity mirror and
finalizes the reservation.  The collector reads owners through root providers - for
entities, that mirror - and its final rename is serialized with reservations by the
journal's SQLite lock.  DOs also keep queues of work: a DO's response carries a hint
naming its ready queues, the durable work driver claims rows from it, executes them
and settles them, and a periodic scan adopts every registered owner and asks which
queues are ready. A host restart loses all in-process state: the alarm driver adopts
under a new activation, the durable work driver claims under a new worker identity,
the collector starts from its state file, and the mirror is hydrated again.

The generation-transition owner replaces the process in which `WorkspaceDO` and all
other DOs live.  Its begin hook is `LifecycleDriver.handleRestartBegin`, which opens an
epoch in `WorkspaceDO`, lists the leases and walks every lease holder through the
preparation phases; its ready hook resumes them in the new process.  An eval DO holds a
lifecycle lease for as long as it has a kernel; the kernel's residency is the held
request of the eval kernel coordinator.  Host processes that share a result cache share
the coordinator's three tables and nothing else.

## 2. Modules

| Module | Models | Built on |
|---|---|---|
| `WakeLease` | the abstract contract of the alarm store: a fenced lease and a debt of asks per key | - |
| `AlarmStore` | `WorkspaceDO`'s alarm operations and `WakePublicationStore`, under arbitrary callers | refines `WakeLease` |
| `AlarmScheduler` | `AlarmDriver` composed with the store: calls split into send, execution and answer | extends `AlarmStore` |
| `MCAlarms` | `AlarmScheduler` with its symmetry | extends `AlarmScheduler` |
| `ExecutionRetention` | publication, collection and restart over builds, owners and the journal | - |
| `DurableWork` | `DurableWorkDriver`, its promise chains and recovery scan, against abstract queue owners | - |
| `MCDurableWork` | instances of `DurableWork`: two items in one lane, of one queue or two | extends `DurableWork` |
| `DurableWorkProofs` | theorems about the lanes and the pump of `DurableWork` | extends `DurableWork`, `TLAPS` |
| `DurableClaimsProofs` | theorems about its claims, slots, leases and quiesce | extends `DurableWorkProofs` |
| `GenerationTransition` | the owner in `WorkerdManager` that stops and starts the workerd process | - |
| `LifecycleRestart` | that owner composed with `LifecycleDriver`, the lifecycle tables and the Durable Objects | extends `GenerationTransition` |
| `EvalKernelLease` | the host's kernel-lease coordinator and the lease of one `EvalDO` | - |
| `SharedBuilds` | `SharedBuildCoordinator` in several processes over its tables | - |
| `MCSharedBuilds` | processes of different capacities; slot admission as the loop of the source | extends `SharedBuilds` |
| `LifecycleRestartProofs`, `EvalKernelLeaseProofs`, `SharedBuildsProofs` | theorems about these | extend them and `TLAPS` |
| `AlarmStoreProofs` | theorems about `AlarmStore` | extends `AlarmStore`, `TLAPS` |
| `AlarmSchedulerProofs` | theorems about `AlarmScheduler` | extends `AlarmScheduler`, `AlarmStoreProofs` |
| `ExecutionRetentionProofs` | theorems about `ExecutionRetention` | extends `ExecutionRetention`, `TLAPS` |

Definitions whose comment begins with "Fault" are plausible mistakes in the line
they stand beside.  No specification uses them; replacing the definition below
them with one shows that a property notices.

### Alarms

*State.*  `alarms[k]` is the row of `do_alarms` (`wake_at`, `dispatch_owner`,
`dispatch_generation`); `sources`, `requests` and `claimCounter` are the state rows
`alarm-source:`, `alarm-wake-request:` and `alarm-claim:`; `activeWorker` is
`alarm-active-worker`; `policies` is the set of keys with a test-policy row.  In
the driver, `timer`, `refreshRequested`, `fireRequested`, `failureRetry`, `drive`
(the operation in flight with what it was sent) and `lanes` are its fields;
`unnotified` stands for client calls that committed and whose `onAlarmChanged` has
not run.  Between the return of `drive()` and its `.finally` handler `drive` is
`Returned`: the driver still counts as driving, so a kick only leaves its flag.

*Actions.*  Each store operation is one SQLite transaction and one action.  Each
awaited driver call is three steps - sent with its arguments, executed by the
store, answered - with every client, lane and timer step in between; `CallFails`
loses the call before or after execution.  `LaneStep` follows a dispatch through
handler, re-arm or completion, and the `finally` block.  `DriveSettles` is the `.finally`
handler of `kick` (`alarmDriver.ts:157-162`), which drives again if a request came meanwhile.

*Abstractions.*  A storage incarnation is its generation number.  Publications
answered stale or conflict are stutters.  The 2^31 clamp on timers and the length of
backoffs are left out: a timer fires at or after its time.  A test policy is its
presence.

### Execution retention

*State.*  `stored` and `trash` are directories, `gcState` the build GC state
file, `epoch` and `reservations` the journal's tables, `roots` the owner records,
`rows` each entity's row, retired or not, `mirror` what a root provider shows,
`cached` each entity's cached record, retired or not, `promoting` the puts between
rename and read-back, `hydrating` the copies from a shared cache, `publishing` the
asynchronous publications in flight, and `gc` the collector's locals: roots read,
protected keys, its *copy* of the state file, candidates, the trash directory it is
removing.  Two variables are history: `fresh` says how an owner's root was written
(with or without a reservation) until a collection reads it, `unrooted` since when
completed collections have found each build without a root.

*Actions.*  One action is one stretch of host code between two awaits, so
`Sweep` (rename and tombstone) is atomic for the process, while `DieSweeping` and
`DiePublishing` cut such a stretch.  `Entities` are the owners written across an
await and mirrored in `EntityCache`; other owners publish in one stretch
(`Publish`).  An entity's activation reserves only where its cached record names
another build (`Reserve`); otherwise it writes the owner without a reservation
(`Republish`, `workspaceEntityStore.ts:495-511`), also where that record is a retired one.
`ProcessLost` hydrates the mirror from the live rows, so that a retired record is
forgotten by the cache but may stay in its row.  Puts and hydrations overlap
collections freely.

*Abstractions.*  A build key stands for the build and its sources.  The
grace period of a day is the flag `aged`, set by `DayPasses`, which may not run while
a collection, put or publication is in flight: these are assumed to take less than
a day.  Root providers are read in any order.  Publishing the mirror and
finalizing are one step, and so are the quarantine decisions of one commit.
One publication carries one build and an owner has one in flight.  Keys of the unit
graph are chosen freely in each epoch and need not be stored.

### Durable work

*State.*  `driver` is the record of `DurableWorkDriver`'s fields: `pending`,
`runnable`, the lanes with the job that holds each (`activeLanes` and its tokens),
the pump with what it awaits, the promise chains of `serializeByKey`, and for every
job - a claim, that is an item at one lease generation - the phase of its
prerequisite or runner.  `aborted` is the set of jobs whose `AbortController` fired.
`reply` is what became of the call at the head of each chain, `scan` the recovery scan
and `stop` how far `quiesce` has come.  The owners' side is `row` (state and lease
generation) and `adopted` (the owner has adopted this worker in this activation).

*Actions.*  The driver's methods are operators from driver to driver (`Notify`,
`Kick`, `Loop`, `Grant`, `Enqueue`, `Release`, ...), and an action is one turn of the
event loop that applies them: an answer (`ClaimAnswered`, `DuplicateAnswered`,
`SettleAnswered`, `FailAnswered`), a handler that settled (`PrepareEnds`,
`ExecuteEnds`), the microtask after the pump (`FinishPump`), a stage of the scan or of
quiesce, a hint.  A call is sent, executed by the owner and answered; `CallFails`
loses it before or after execution.  Claim, settle and fail are the contract that the
driver's comments and `durableWork.ts` give the owners, whose implementations are
outside the repository: a claim adopts its worker, grants at most one row of each lane
of its own and no row of a lane that has a lease, settlement and failure are fenced by
the lease generation.

*Abstractions.*  A promise's continuation runs in the turn that settled it, except
`finishPump`, whose distance from the pump's end is what a lost wake-up needs.
Triggers, counters, traces, retry delays and idempotency keys are left out, and so are
the handlers' own calls: a handler settles, well or badly, at any time.  The scanner
reads the owners in any order, each in one step that adopts and asks; an owner has one
queue.  The hints of one scan are notified together, in any order: the first kicks the
pump, which then runs while the others are added.  Calls of a dead host do not reach
owners after `Restart`.  An item may be leased `MaxGeneration` times and is then
parked, as an owner does with an item out of attempts.

### Lifecycle restart

*State.*  `process`, `bootGeneration`, `restartRequests`, `activeTransition`,
`appliedEpoch`, `unresponsiveRecovery` and `resumeLifecycleAfterStop` are the manager's
fields; `calls` is every `restartWorkerd` call with its kind, the generation at the time
and its outcome, and a call's epoch is its position.  `alive` and `hung` are the operating
system's side.  `leases`, `epochOps` and `staleOps` are the rows of `WorkspaceDO`; `begin`
and `ready` the locals of the two hooks; `admission` and `holders` the state of each DO.
Three variables are history: `suspended` (released or lost, and not resumed), `undermined`
(a run failed since the last crash-style ready) and `late` (objects whose lease was taken
during a run and that no epoch has listed since).

*Actions.*  A request is one action up to its first await, the same whether it starts a
run, joins one or preempts a preparation.  The run is one action per stage.  The hooks
make one call per action, in any order within a phase or a resume pool; a call may be
refused, and is impossible while the process hangs.  An exit, a hang, the exit of a process
that survived SIGKILL and the report of an unresponsive sandbox come at any time.

*Abstractions.*  A process is named by the generation it was started for; the three
attempts of a start are one outcome.  Executing and answering one lifecycle call are one
step.  Of earlier epochs' rows only the set of unresolved targets matters, since nothing
resolves them.  Leases are taken at any time, also between the opening of an epoch, the
listing of leases and the end of the run.  `LateHangs` lets the process hang under its ready
hook; it is off in the runs (section 7 says what happens otherwise).

### Eval kernel lease

*State.*  `mapped`, `holding`, `holds` and `op` are the host's lease table, the holding
flags, the long requests and the touch that runs; `kernel` is `EvalDO.kernelLease`.

*Actions.*  Each call of a touch - acquire, reacquire after an orphaned hold, attach - is
sent, executed and answered or lost; the held request likewise.  `EndKernel` is the expiry
or the release of the lease, `LoseActivation` the replacement of the process; any of these, and
any lost call, may hit a touch wherever it stands.  `close` and its rounds are two actions.

*Abstractions.*  One DO.  Lease ids are numbered in the order they are made.  The idle
deadline is left open: expiry may happen whenever there is a lease.  The history variable
`stranded` is the set of leases whose attaching call failed at the host.

### Shared builds

*State.*  `requests`, `flights` and `slots` are the tables; `pc` is where each process
stands with each key, `adopted` the priority its producer works at, `published` the
keys with a cached result, `alive` the processes.

*Actions.*  One action is one statement or transaction on the tables with the code up to
the next await: join, look, elect, look up the cache, queue, admit, publish, settle,
retire.  `Exit` kills a process at any point and leaves its rows to be reaped.

*Abstractions.*  A process has one request per key (`builderLifetime.ts` joins the
others), so a request is named by process and key; a flight is named by its key, which
`WaiterHasReceipt` shows to be enough.  Notifications and the one-second poll are the same
action.  A refused refresh or cleanup is left out.  A slot's sequence number is its position
in the table.  `AdmitRank` states the loop of `admitSlots` for one priority without a loop: a
slot is admitted if there is capacity beside the running slots and all those ahead of it,
because within a priority a refusal refuses everybody behind.  `AdmissionIsTheLoop` compares
the two on every queue of up to three slots.

## 3. Properties

Section 4 says which run checks what.  The properties follow the hazards listed in
`PROJECT.json`:

* *Fencing and debts* (`ClaimGenerationsNeverReused`, `NothingToRepair`,
  `ImplementsWakeLease`; proved only: `ClaimsBelongToActiveWorker`, `CounterDominates`,
  `PendingRequestKeepsAlarm`, `RequestsBelongToIncarnation`): rows are deleted and
  re-inserted, incarnations rotate and drivers die, yet a late completion must never act
  on a claim that is not its own, and a host event must never be settled by a pass
  that could not have seen it.
* *The driver* (`RequestsAreDriven`, `TimerCoversSoonestWake`, `LaneLimit`,
  `OwnedClaimCanComplete`; liveness
  `DueAlarmIsClaimed`, `RequestIsSettled`, `QuiesceCompletes`): decisions are made
  from an answer that is stale by the time it is used, and a request to read the schedule
  that comes while the driver is busy, or has returned and not yet settled, must end in a
  read that was sent after it.
* *Retention* (`SynchronousRootIsStored`, `ReservedBuildIsStored`, `CrashIsRepairable`,
  `DeletedAfterGrace`, `ReadRootIsNotSwept`; violated: `RootedBuildIsStored`): what is in use is not deleted, what
  is deleted had its grace although puts and publications write the same state, and a crash
  leaves something a later collection can repair.
* *Durable work* (`LaneExclusive`, `WorkIsPumped`, `LeasesAreBacked`,
  `QuiescedIsIdle`, `RunnersWithinConcurrency`; liveness `WorkIsFinished`,
  `QuiesceFinishes`): hints are disposable, so forgetting one is harmless and
  forgetting a lease is not; a lane may be held by a newer claim than the one that
  releases it; and the jobs quiesce waits for are not all started when it is called.
* *Restart* (`ReleaseIsJoined`, `FailedPreparationReopens`, `SuspendedIsOwed`,
  `ResumedOnceRunning`, `CrashGetsNewGeneration`; liveness `CrashIsSettled`): one run
  serves requests of several kinds that came before and during it, its two hooks talk to
  a process that may hang or die under them, and what was released in the first must be
  resumed in the second, in that run or a later one.
* *Kernel leases* (`AttachedIsHeld`, `ReplacedIsSettled`; liveness
  `CloseReturnsUnlessStranded`; violated: `CloseReturns`): host
  and activation each keep half of a lease and learn of the other's end by calls that
  can be lost.
* *Shared builds* (`CompiledOnce`, `WaiterHasReceipt`, `BudgetOfEachProcess`; liveness
  `BuildIsAnswered`, `DemandReachesSlot`): every process retires, reaps and admits on
  behalf of all others, from rows whose owner may be dead.

## 4. Runs

| Run | Question | Instance | Result |
|---|---|---|---|
| `alarm_store` | Do the tables keep their cross-table invariants and implement `WakeLease`, whoever calls what? | one key, two drivers, two incarnations, two revisions, two requests, three claims | holds |
| `alarm_scheduler` | Do driver, lanes, timer and store agree with every call split, a stop and a restart? | one key, two activations, two lanes, retirement and re-registration, a request, faulty handlers | holds |
| `alarm_lanes` | Do two DOs competing for one lane, with a failing call, respect the limit, leave the timer armed and lose no request to read the schedule? | two keys, one lane, one failure | holds |
| `alarm_liveness` | Is every due alarm claimed, every request settled, every quiesce finished? | one key, one lane, one incarnation, one request, fair | holds |
| `retention` | Can any order of puts, publications, collections and a fault delete a synchronous owner's build, a reserved one, one without its grace or a root that was read, or lose a quarantined one? | one build, a synchronous owner and an entity, three epochs, two reservations, one fault: a failed entity call, a crash or a failed removal | holds |
| `durable_work` | Are lanes exclusive, wake-ups kept, leases accounted for, and is the quiesced driver idle? | two queues with a prepare step, two items of one lane, two slots, two attempts, one failed call, new activation or restart | holds |
| `durable_work_liveness` | Is every ready item finished and every quiesce completed, within the slots? | one queue, two items of one lane, one slot, two attempts, one fault, every hint optional, fair | holds |
| `restart` | Do restarts, stops, exits and hangs that overtake each other prepare in order, lose no DO, replace the generation a crash was reported for, and end? | an ordinary DO and an eval DO, three requests, two faults, leases taken at any time, fair | holds |
| `eval_kernel` | Does the attached holder exist, does every replaced lease end its request, does close return unless an attach failed? | one DO, five touches, three faults anywhere, fair | holds |
| `shared_builds` | Is a key compiled once, the budget kept, and every waiter answered? | two processes of capacity one and two, two keys (one wanted by both), interactive and speculative, one failure, one lost settlement, exits, fair | holds |
| `find_stuck_close` | "that late hold is still owned by this coordinator and must be aborted and awaited before close returns" | two touches, one fault, fair | violated |
| `find_unprotected_root` | "Vibestudio retains executable artifacts from authoritative owner records" | one build, one entity, two epochs, one reservation | violated |

*Why the bounds are enough.*  A key's alarm operations touch only that key's rows
except for adoption and claiming; one key with two drivers gives every order of a
late call and its successor, three claims a reuse after a re-insertion.  Two keys
are needed only where they compete for lanes.  Rotation, revision and request
counters are compared for equality and order, and two values of each give equal,
older and newer; the driver never compares the first two, so its runs keep one value.
In retention, three epochs are quarantine, deletion and one
more to repair or rescue; one build meets two owners, so that one publishes while the other's
root is read, and one fault is what `CrashIsRepairable` and `ReadRootIsNotSwept` allow for.  An
entity that advances from one build to another was checked apart (two builds, one entity, two
epochs, two reservations): it keeps `ReadRootIsNotSwept` as well.
`MaxClaim` bounds the run and appears in liveness as `Exhausted`: the
obligation ends where the counter's bound would refuse a claim the code would make.

In durable work, two items of one lane are what a lane can be contested by; with two
queues the lane is contested across owners that cannot see each other's leases (both
have the same handler, for the queue's name is part of the lane's), with one the owner
itself keeps the leases apart and a re-lease after a fault contests it.  Two attempts
give an item a predecessor whose late answer must be refused.  Two slots let a
prepared claim start while another claim is under way; one slot makes every limit
tight.

In a restart, three requests give a run, one that it absorbs and one that comes after its
preparation; two faults a hang and the exit that follows, or a refusal and a crash.  With two
requests and three faults the same holds.  An eval DO's
lease is removed by its release and an ordinary DO's is not: one target of each.  Five
touches let a lease be renewed, orphaned and replaced twice with three faults between.  Two
processes and a key wanted by both give a producer, a waiter and the successor of a dead
producer; the second key of one process makes both compete for slots, and the different
capacities make the careful one decide.  With all four pairs wanted the safety properties
hold as well; that run is longer and shows nothing else.  `alarm_lanes` uses symmetry of
keys and of activations; it checks no liveness.

*Deadlock* is checked in the alarm runs.  It is not in the retention runs, which stop when
epochs, reservations and faults are used up, in the durable work runs, which stop when
the driver has quiesced, in `restart` and `shared_builds`, which stop when requests and
faults are used up, and in the two kernel runs, which stop when the host is closed.

*The violated runs* are disagreements between code and text, described in `PROJECT.json`
under `findings`.

* `find_stuck_close`: when a lease is expired or released between its acquire and its
  attach, the attach is refused and `touchLocked` throws without removing the lease
  from the table.  It has no held request whose end would remove it, and `close()` loops
  over an empty set of requests.  `CloseReturnsUnlessStranded` shows that nothing else keeps
  `close()`.
* `find_unprotected_root`: an entity's publication reserves before an epoch begins; its write
  commits, the mirror is read before the answer, and the answer finalizes the reservation before
  the sweep.  Neither its epoch, nor its status, nor the snapshot then protects the build.

## 5. Fairness

`AlarmScheduler!FairSpec` assumes weak fairness of the driver's steps (the `.finally` handler
among them), of timers that
are due, of notifications already announced, of `start()`, of time, and - per key -
of a handler's answer and a lane's next step.  This is JavaScript's event loop: a
resolved promise's continuation and an expired timer run.  That a dispatched handler
answers is an assumption about user code; the dispatcher's own timeouts are
not modelled.  No client is obliged to call, no call to fail, nothing to stop
or die.  Clients may postpone an alarm forever; the properties allow it by saying a
due alarm is claimed *or withdrawn or postponed*.  `DurableWork!FairDurableWork`
assumes that calls to owners and handlers end, microtasks run and the timer of
the recovery scan fires, and nothing of hints, work or faults.  `LifecycleRestart!Fairness`
assumes that the owner and the hooks go on with whatever they can do - an answered
call is used, a covered request starts its run - and that no process is obliged to hang
or exit.  A call to a hung process is not assumed to end; that is what
`CrashIsSettled` is about.  `EvalKernelLease!Fairness` assumes that calls are executed and
answered and that a settled held request returns; the idle timer is not relied on.
`SharedBuilds!Fairness` assumes that a live process looks at the tables again, as its
one-second poll does, and continues what it began.  A compilation may take for ever:
`BuildIsAnswered` has `CompilationsEnd` as its premise, `DemandReachesSlot` does without.
Retention has no liveness
property: nothing in the code obliges a collection to be started.

## 6. Proofs

All theorems hold for every value of the constants that satisfies the named
assumptions: keys, builds, owners, queues and items are finite sets, the null values are not
members, bounds are naturals.

`AlarmStoreProofs`: `StoreInv` is `StoreTypeOK` and, key by key, `KeyInv`.
`NothingToRepair` is not inductive alone - that a retired key has no row must be
known together with "a claimed row belongs to the adopted worker" and "a pending
request has a row" - so `KeyInv` states all of them at once.  An operation on one
key disturbs only that key (`OneKey`); adoption and claiming are done for all keys
together.  From it follow `ClaimsBelongToTheActiveWorker`,
`PendingRequestsKeepTheirAlarm`, `NothingEverToRepair`, `CounterAlwaysDominates` and
`RequestsStayWithTheirIncarnation`.  `ClaimGenerationsIssuedOnce` is the action property:
only `AlarmClaimDue` leaves a row with a claim it did not have, and `NextClaim` is
above counter and row.  `StoreImplementsWakeLease` maps every store step to a step
or a stutter of the contract, under the same invariant.

`AlarmSchedulerProofs` is about the composed system of driver, lanes, clients and crashes, in
two halves.  `SchedulerImplementsStore` says that it only ever takes steps `AlarmStore` offers its
callers, so that the theorems above hold of it too; in particular
`SchedulerImplementsWakeLease`.  The other half is about the driver, with the inductive invariant
`SchedulerInv`:

* `DriverInv` holds the shapes and the arithmetic of limits.  `LaneLimit` is not inductive: the
  limit of a claim is computed before the awaited call, so the claim in flight must ask for
  no more rows than were free when it was sent, exclude every lane that was busy then, and
  meet only lanes that end meanwhile.
* `RestsUnasked` with `RetryInv`: a driver that is neither driving nor waiting for its retry has
  no request flag set.  `RequestsAreDriven` follows step by step: a step that asks for a read, or
  is taken while one is owed - from the flag to the moment the next read is *sent* - leaves it
  owed to a driver that drives or waits for its retry, or sends the read, or leaves no lane
  free.  The step to worry about is `DriveSettles`: a driver that came to rest there with a flag
  set would sleep on it.
* `ClaimsAcceptable`: as long as a lane's claim owns its row, the row's claim still captures
  the request the dispatch will acknowledge.  It is what `OwnedClaimCanComplete` needs of all
  steps that come between a claim and its completion.
* `Covered`: a running driver was told to look again, or is about to read, or has read a
  wake that still covers every open row, or rests behind a timer that does.  The case of the
  answer on its way is the lost wake-up: a row that is set or released after the read must
  announce itself.

It gives `SchedulerTypeCorrect`, `LanesStayWithinConcurrency`, `RequestsStayDriven`,
`OwnedClaimsCanComplete` and `TimerAlwaysCoversSoonestWake`.  TLC checked `SchedulerInv` on the
instances of `alarm_scheduler` (1,199,276 states) and `alarm_lanes` (1,036,069).

`ExecutionRetentionProofs`:

* `RetentionInv` is inductive.  `QuarantineIsBacked` speaks of the state
  file, which is overwritten by the collector's copy, so the copy must be backed too
  (`RecordsBacked`); the copy gains records for builds the commit saw, so nothing may
  be deleted between scan and quarantine (`RecoveryInv`); and a removed trash
  directory must belong to a recorded deletion (`RemovalInv`).  Even the type of
  `trash` (a count that never becomes negative) needs these.  Theorems:
  `RetentionTypeCorrect`, `ReservationsKeepBuilds`, `QuarantineBacked`.
* `SynchronousRootsAreKept` proves `SynchronousRootIsStored` with any number of builds, owners,
  epochs and faults, overlapping puts, and any entities beside.  The argument is
  `CoverageInv`: during a collection, the build of such an owner is still to be read, was
  read, or has a reservation stamped with the epoch in force; candidates exclude what was
  read, and the check under the journal's lock excludes the rest.  For entities it is false
  (section 4, `find_unprotected_root`).
* `CrashesAreRepairable` proves `CrashIsRepairable` with `TrashInv`: as long as no removal
  failed, a build's trash directories are the one being removed and those that crashes left.
* `DeletionsAfterGrace` proves `DeletedAfterGrace`.  The collector decides by its copy of the state
  file while puts write that file, so neither tells the history.  `GraceInv` relates both to
  `unrooted`, which only completed collections and deletions reset: a record, in file or copy,
  is no older and no more aged than the time for which no completed collection found a root.
  A rescue that were not recorded would break it: the old record would outlive the root.
* `ReadRootsAreNotSwept` proves `ReadRootIsNotSwept` for every value of the constants, entities
  included.  What an owner roots is still to be read, was read, was written without a
  reservation and not read since, or was reserved and is then in the journal or *young*: no
  candidate, and without a day in quarantine (`SettledInv`).  This needs that a publication in
  flight which reserved has a reservation of its own unless an epoch dropped it for a build it
  kept (`PublicationInv`), that what was kept has been rescued (`RescueInv`), and that
  without a failed call only an owner just written is ahead of its mirror, in a way that
  `fresh` remembers (`MirrorInv`).

  TLC checked these invariants on one build with an entity and a synchronous owner, once with a
  crash and a failed removal (1,952,527 states) and once with a failed call (1,951,245).

`DurableWorkProofs`: an operator from driver to driver is proved to keep `Sound`, one
lemma for each, and an action is then one application of these lemmas.
`LaneExclusive` is not inductive: it needs that a job in its lane is the one the lane
names (`LanesHeld`), hence that a settled job which releases its lane late finds
another job's token and leaves it, and that a prepared claim waits once, in the phase
that says so (`RunnableOnce`), hence that starting it does not leave a second copy
behind.  The type of a claim needs that a ready row has an attempt left (`RowsSound`).
`WorkIsPumped` is proved on top: whatever adds work or frees a slot ends in `Kick` or
leaves the pump awaiting something.  Theorems: `DurableWorkTypeCorrect`,
`LanesAreExclusive`, `NoWakeUpIsLost`.

`DurableClaimsProofs` follows claims through calls, jobs and quiesce with the invariant
`ClaimsInv`, on top of the one above.

* Slots: a claim's limit is computed before the awaited call, so `SlotsCover` counts the
  slots promised to a claim in flight, or to the claims it was answered with, beside the
  runners.  `RunnersStayWithinConcurrency` follows.
* Chains: `ChainsFit` says that a mutation is in the chains once, while its job or the pump
  waits for it, and `RepliesFit` that an answer belongs to the call at the head.  Otherwise a
  late answer could settle a newer claim.
* Freshness: `ClaimsFresh` says that no job is ahead of its row and that a claim on its way is
  new to the driver.  `LeasesAreBacked` is inductive with it: every lease is on its way to the
  driver, held by a job, or one of `Stray`.  Theorem `LeasesStayBacked`.
* Quiesce: `StopFits` says what each of its stages has already seen end.  A claim that was
  answered after the controllers were aborted still starts jobs, and the set that quiesce
  waits for is taken after the pump has ended: `QuiescedDriverIsIdle`.

TLC checked `ClaimsInv` on the instances of `durable_work` (1,076,275 states) and
`durable_work_liveness` (58,434), and with two lanes in one queue (173,412).

`LifecycleRestartProofs`, for any number of targets, calls and faults: the invariant is
built in layers, each inductive on top of those below.  `ManagerInv` is the owner's own:
applied and covered epochs are positions of calls, and a waiting crash is covered by a crash
run or queued as one.  That last part is what `CrashRecoveriesReplaceTheGeneration` needs,
because a run begun for something else may absorb the crash.  `HookInv` adds the
stage in which each hook runs.  `AdmissionOK` says what every target's admission is
at each point of the begin hook and gives `ReleasesAreJoined` and
`FailedPreparationsReopen`.  `OwedInv` says that the rows of the epoch cover the leases from
the moment it is opened, and that no row is settled for a target that is still
suspended: `SuspendedStayOwed`.  `ResumeInv` follows the debt through every stage of a run -
at rest it is in `resumeLifecycleAfterStop` or in a queued crash, after a completed
preparation it is in the epoch's rows, under the ready hook it is in the listed targets -
and gives `AllResumedOnceRunning`.  A lease taken during a run may miss its listing; until an epoch lists it the object is in `late`,
and every statement excepts exactly these objects.

`EvalKernelLeaseProofs`: `KernelInv` says which calls can be under way for which lease and
that ids suffice for the touches; `ReplacedLeasesAreSettled` is a part of it.  `HolderInv`
adds that a lease the activation makes is new to host and activation, and that a touch works on
the lease in the host's table unless its request ended meanwhile.  So an attached holder is a
request the host has open, or the lease is gone from the table, or it is one whose attaching call
failed at the host: `AttachedHoldersAreHeld`, wherever faults hit.

`SharedBuildsProofs`: `FlightInv` says that the request and the flight of every process
that is not idle exist, that a producer's flight runs and is its own, that a live idle
process has no request, and that a key which is queued or compiled has no published
result.  Retiring and reaping are the steps to worry about, since any process performs
them on everybody's rows; two lemmas show that they leave alone what a live process waits
for.  Theorems: `WaitersKeepTheirFlight`, `KeysAreCompiledOnce`.  `SlotsInv` adds the
queue.  `BudgetsAreKept` rests on `RankAdmitted`: if a priority admits anybody, all that run
then fit the smallest capacity among the slots, by looking at the last one admitted; if it
admits nobody, nothing changed.  Deletions are handled by `KeptRows`, which gives each row that
stays its place.  The type of a slot (`SharedBuildsTypeCorrect`) needs that a producer works at
a priority somebody asked for, which needs the one producer per key of `FlightInv`.

For the theorems whose property no run lists, TLC checked the invariant of the proof
on a small instance first.

Every invariant and action property of the runs has a theorem, and so has the refinement
`ImplementsWakeLease`.  *Only model-checked* are the liveness properties (`DueAlarmIsClaimed`,
`RequestIsSettled`, `QuiesceCompletes`, `WorkIsFinished`, `QuiesceFinishes`, `CrashIsSettled`,
`CloseReturnsUnlessStranded`, `BuildIsAnswered`, `DemandReachesSlot`), because temporal reasoning under fairness
is outside the prover's reach, and `AdmissionIsTheLoop`, which compares a recursive fold with a
formula, an induction over the queue.

## 7. Observations that have no run of their own

Seen in counterexamples while modelling, and left to a reader of the code.

*Alarms, retention, durable work*

* A notification during a failing scheduler call makes the drive loop refresh the timer
  that the failure retry had just armed; `failureRetryOperation` stays set and blocks
  `kick()` (`alarmDriver.ts:351`, against the comment at `:73`).  Liveness is therefore
  checked without failing calls.
* While a host request is pending, `publish` leaves the running claim in place, so its
  completion deletes the row of the newer schedule (`wake-publication.ts:103`, against
  `docs/durable-pi-design-decisions.md:257`).
* An entity activated under the build its cached record already names - a retired record
  included - is written without a reservation (`workspaceEntityStore.ts:496`, against "reserve() is
  durable before the owner write starts", `retention.ts:29`).  If that build has been in quarantine
  for an epoch and a day and a collection has just read the roots, it is swept with no call
  having failed.  `ReadRootIsNotSwept` names this case: until a collection has read it, such a
  root is `unreserved` in `fresh`.
* The collector saves its copy of the state file over a tombstone that a put had just
  cleared.  Preflight then misses the sources of a live build (`buildStore.ts:2097`,
  against `:1979`), and the stored build counts as retired.
* `stop()` during an awaited `alarmClaimDue` starts dispatches whose abort signal has
  already been sent (`alarmDriver.ts:239`); `QuiesceCompletes` shows that quiesce
  still ends once the handlers answer.
* A claim that committed and whose answer was lost leaves rows owned, and no retry
  takes them until the next adoption (`alarmDriver.ts:230`).
* `completeEpoch` drops a reservation that is still unfinalized once any owner or the unit
  graph roots the same build (`executionPublicationJournal.ts:259`, against "Ambiguous
  reservations survive restart indefinitely until their exact owner root reappears",
  `docs/runtime-foundations/execution-retention.md:25`).
* A build rebuilt after a crash, or put while a collection holds its record, is swept on its
  older quarantine record, without a grace of its own (`buildStore.ts:2048`).
  `DeletedAfterGrace` therefore counts from when its root was last found.
* A rescue is lost when the host dies before the collector has saved its copy; the next
  collection rescues the build again if it is still rooted.
* A trash directory that could not be removed, followed by a crash between
  rename and tombstone of the same build, leaves two, and every later commit refuses
  the ambiguity (`buildStore.ts:1954`): this is why `CrashIsRepairable` is
  stated for runs without failed removals and with at most one crash.
* A failed call about an entity empties the mirror the root provider reads
  (`workspaceEntityStore.ts:122`, `index.ts:2754`) while the durable record keeps its build,
  which is then quarantined and, a day later, deleted.  Panels are also rooted from the
  durable list.  `ReadRootIsNotSwept` is stated for runs without such a
  failure.
* When the answer of a durable-work claim is lost, or both the settlement and the failure of one,
  the lease stays.  The adoption of the same worker and activation releases nothing
  (`durable-work-readiness.ts:75`), so the lane waits for the host's or the owner's restart.
  `Stray` names these leases in `LeasesAreBacked` and `WorkIsFinished`.
* A terminal failure and a stale settlement ask for no continuation
  (`durableWorkDriver.ts:812`, `:859`): other ready rows of the queue wait for a hint or for
  the recovery scan.
* Jobs that a claim answered after `quiesce` had aborted the controllers starts are not
  aborted (`durableWorkDriver.ts:553`); quiesce waits for them in full, as
  `QuiescedIsIdle` and `QuiesceFinishes` show.

*Lifecycle restart*

* After three failed starts, or a failed ready hook, nothing remembers that a crash-style
  ready is owed: the next successful run has its own reason.  `undermined` marks these
  runs in `ResumedOnceRunning`.
* A second death of the process during a crash recovery joins the recovery in flight
  (`unresponsiveRecovery`), whose run may already have started its process.
* Unresolved resume rows of abandoned epochs are never resolved: their targets are resumed
  in every crash recovery, and a retired DO stays among them (against
  `WorkspaceDO.ts:1183`).
* A planned request absorbed during the preparation of a stop reports success without a
  generation (against "A planned restart queued alongside a stop wins",
  `workerdManager.ts:2930`).
* When an old process survives SIGKILL the run fails; a later lazy start then overlaps it
  (against "never overlap runtime generations", `workerdManager.ts:3698`).
* A lease taken between the opening of the epoch and the listing of leases, or later in the
  run, is not resumed by a planned ready; a late resume clears the declaration of a holder
  attached meanwhile (`EvalDO.ts:1143`).  Such objects are in `late`, which `SuspendedIsOwed` and
  `ResumedOnceRunning` except.
* A crash requested while the process hangs under its ready hook waits for that hook.
  Hence `LateHangs = FALSE`.  Likewise shutdown awaits the running transition and refuses
  crash requests (`workerdManager.ts:2874`, `:5238`), so a process that hangs in a
  preparation keeps it waiting.

*Kernel leases and shared builds*

* An acquire of a held lease that fails removes the lease from the table: `close()` no
  longer knows its open request.  A lost answer of attach leaves a holder that nobody holds: its
  lease is in `stranded`.
  A failed clear in `expireKernelLease` keeps the timer, and the lease never expires.
* A flight whose settlements were all refused keeps running for a live, idle owner; its
  waiters, and those who join later, wait until that process is alone on the key or exits
  (`sharedBuildCoordinator.ts:230`).  A refused cleanup leaks request and slot rows until
  the process exits.
* A request that joins a failed flight which others have not left yet gets the old
  failure; a cancellation in one process fails the waiters of the others; a built
  flight whose first settlement is refused is settled as failed.
* A process with a smaller capacity can find more speculative builds running than it would
  have admitted.

## 8. Not modelled

* In the alarm store, the tables of other components in `WorkspaceDO` (contexts, panels,
  heartbeats, lifecycle leases).  In the scheduler, calls of a dead host process that
  arrive after its successor adopted; `alarm_store` covers them with arbitrary
  callers.
* In retention, the content store's sweep, the shared artifact pool, batches of
  several builds per publication, a put that meets a failed read-back, and a failure of
  the mirror's hydration at startup.
* In durable work, the queues' owners themselves, the release barriers of
  `durableWorkRelease.ts` and the readiness counters of `DurableWorkReadiness`.
* In a restart, `stop-if-idle`, shutdown with its own preparation, the durable-work
  release of a single target, and the refusal of single table operations other than the
  lifecycle calls.
* In the kernel lease, the runs and cells of `EvalDO`, the idle deadline and the lifecycle
  declaration (which `LifecycleRestart` has).
* In shared builds, cache leases, notifications, the refused refresh and cleanup, and builds
  without a shared cache.
* The components marked `not_modelled` in `PROJECT.json`.  Those named in the plan are
  left for later; the hub, the build pipeline, the VCS, credentials and egress, the
  hosts and the built-in panels are I/O, data algorithms or user interface, where a
  model would repeat the code.

## 9. Plan

Done, in this order: `WakeLease`, `AlarmStore` and their proofs; `AlarmScheduler`;
`ExecutionRetention` and its proofs; `DurableWork` and the proofs about its lanes;
`GenerationTransition`, `LifecycleRestart`, `EvalKernelLease` and `SharedBuilds`, each with
its proofs; then the proofs about `AlarmScheduler`, the claims of `DurableWork`, the grace and
the settled roots of retention, and the slots of `SharedBuilds`.

Next modules, most important first:

1. `ApprovalQueue`, then `AcquisitionCoordinator` on top of it and of the store's wake
   requests: coalescing, cancellation against decision, redelivered receipts.
2. `PanelRuntimeCoordinator`: two hosts taking one panel.
3. `RpcSession`: one call and one stream across a reconnection.

Next theorems: what the liveness properties need step by step, as safety - that a due alarm's
key is always in one of a few named places, that each attempt at a lease ends in a settlement
or a stray - and the refinement of a lease per lane by `DurableWork`.
