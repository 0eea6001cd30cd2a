# Verification of Bray

TLA+ models of the parts of the Bray compiler and runtime whose correctness
depends on the order of events, with TLC runs on small instances and TLAPS
proofs for all instances.

1. [The system](#the-system)
2. [Modules](#modules)
3. [Execution slots](#execution-slots)
4. [Fact queries](#fact-queries)
5. [Publication](#publication)
6. [Scheduler](#scheduler)
7. [Tasks](#tasks)
8. [Test invocations](#test-invocations)
9. [Runs](#runs)
10. [Disagreements](#disagreements-between-code-and-text)
11. [Proofs](#proofs)
12. [What is not modelled](#what-is-not-modelled)

## The system

Bray is a compiled language: a compiler in Rust (`crates/`), a runtime for the
programs it compiles (`crates/bray-runtime*` and, in Bray itself, `runtime/`), a
standard library written in Bray (`standard-library/`) and tools around them.

**Query engine** (`crates/bray-compilation/src/fact`). Everything the compiler
knows is a *fact*, computed on demand and cached in a cell. Requests run on many
threads. They meet in the cells (one evaluates, the others poll), in the wait
graph (cycles of facts across threads), in the shared cancellation tokens (work
is cancelled when nobody needs it) and in the execution slots.

**Publication of generations** (`crates/bray-emitter/src/publication/generation`,
`storage.rs`). The files of a product are staged as an immutable generation,
projected to public paths under a journal, and committed by replacing a reference
file. Processes exclude each other by file locks; readers recover a publication
that was cut off; old generations are deleted unless leased.

**Product runtime** (`crates/bray-runtime/src`, `runtime/bootstrap/src`). A
scheduler of asynchronous tasks (registrations, coalesced wakes, timers, lanes,
parking of threads), task control cells with intrusive wait lists, cancellation
words, events, run timeouts.

**Test execution** (`crates/bray/src/tack/testing`,
`crates/bray-runtime-adapter/src/test_host`). A runner starts a host process per
invocation, may ask it to cancel, may kill it, and reads its result file.

**Standard-library synchronisation** (`standard-library/std/src/sync`, `channel`):
locks, condition variables, semaphores, barriers, events, bounded channels.

**Language server** (`crates/bray-lsp`): a user of the engine's tokens.

**Sequential transformations.** Parser, syntax, formatter, declarations, binder,
checker, lowering, IR, code generation, linker, package interfaces, manifests,
driver and command-line tools: functions of their input. To the query engine they
are computations that request facts.

Correctness, part by part:

- a fact is evaluated by one task at a time; a published value is final; a record
  names what the evaluation used; cancelled work publishes nothing; a request ends
  with a value, with a cycle that is real, or with its own cancellation;
- capacity is never exceeded or lost; interactive work is preferred without
  starving other work;
- public files are those of the committed generation after any crash, and nothing
  referenced, leased or in use is deleted;
- a wake is never lost and never reaches another registration; a thread never
  sleeps while there is work for it;
- a task's cell lives as long as someone refers to it and no longer; whoever waits
  for a task is told;
- a test is reported as what happened to it.

`PROJECT.json` lists the components with their status, and the hazards with the
lines where they bite.

## Modules

| module | models | proofs |
|---|---|---|
| `ExecutionSlots` | `fact/scheduler/execution.rs` | `ExecutionSlotsProofs` |
| `FactStore` | what the fact cells promise (abstract) | |
| `FactQuery` | cells, runtime, tasks, cancellation, lanes, slots | `FactQueryInvariants` (definitions), `FactQuerySafety`, `FactQueryStacks`, `FactQueryCancellation`, `FactQueryTheorems` |
| `CommittedProduct` | what the managed store promises (abstract) | |
| `Publication` | publication, recovery, readers, pruning, cleaning, retirement | `PublicationProofs` |
| `SchedulerDomain` | what the scheduler domain promises (abstract) | `RunSchedulerProofs` |
| `SchedulerArena` | the linked arena that implements it | |
| `RunScheduler` | native threads, bindings, timers, parking around the domain | `RunSchedulerProofs` |
| `TaskControl` | control cells, wait lists, cancellation word, dispatch of a task | |
| `TestRun` | `TaskControl` with a test session and its runner | `TestRunProofs` |

`RunScheduler` extends `SchedulerDomain`, `TestRun` extends `TaskControl`: an action
of the composition contains the operation it calls. The `MC*` modules give
constants their values, choose reachable states to start from, and hold nothing
that models code.

## Execution slots

`ExecutionSlots` models `scheduler/execution.rs`. The four counters are the fields
of `SlotState`. `worker[w]` says where a thread is: `Idle`, `Waiting` on the
condition variable, `Notified` (about to own the mutex again), `Held`, or
`Suspended` (a coordinator that lent its slot to its lanes). `registered[w]` is
the local variable `interactive`, the class the worker is counted under, and
`priority[w]` the shared demand that others may promote. Each action is one
critical section of the mutex. `Acquire`, `Resume` and `Wake` share
`GrantOrWait`, the body of the loop in `acquire_capacity`; `Notify` is
`notify_all`. Promotion is two steps, the atomic minimum and the notification
under the mutex, because a queued worker may run between them.

The streak counter is compared only with `MAX_INTERACTIVE_STREAK`; the model's
counter stops there. The code's constant is 8; the run uses 1, which has the same
transitions with fewer grants between them, and the theorems hold for any value.

Fairness (`FairSpec`): a notified thread gets the mutex (weak), a started promotion
is finished (weak), a suspended lease is resumed or dropped (weak), a held slot is
given back (strong, as a holder may suspend and resume in between: an evaluation
ends after finitely many joins). Nothing is assumed of new requests or of who gets
the mutex first.

`NoLostWakeup` is stated for a scheduler with no slot in use. With some slot in
use a queued worker may sleep though its predicate holds: a grant that ends the
interactive streak, or takes the last waiter of a class, notifies nobody. The next
release does, so work is delayed, not lost.

## Fact queries

`FactQuery` models a request from `get_or_compute` to its return. A thread has a
stack of pending calls (`stack[th]`, innermost first), each with the fact, the
token and a program counter; the task it runs or waits for is in the frame.

| step of the code | action |
|---|---|
| fast path, local cycle check | `Request` |
| loop head: `cancellation.check()` | `Check` |
| match under the cell mutex | `Look` |
| `run_demand`, second check | `Admit` |
| recheck, fresh task, own interest, `Computing` | `Claim` |
| `FactRuntime::begin` | `Begin` |
| the computation's next request | `Call` |
| a nested lane starts, takes items, ends | `SpawnLane`, `Call`, `LaneEnds` |
| the coordinator joins its lanes | `Suspend`, `Resume` |
| the computation returns | `Compute`, `Fail` |
| shared check before publication | `CheckShared` |
| `prepare`, `publish`: runtime commit, then cell | `Commit`, `Publish` |
| requester check, dependency recorded, return | `Deliver` |
| guards dropped after an error | `Abandon`, `Vacate` |
| `wait_for`, interest, timed wait, guards dropped | `WaitFor`, `RegisterInterest`, `Unwait`, `DropInterest` |
| `CancellationToken::cancel` | `Cancel` |

What facts compute is data: `Requests[f]` is the sequence of facts f's
computation asks for, `Par` the facts that ask for them in `map_indexed`,
`Absorbs` the ones that turn a `Cycle` error into a value (as constant
evaluation does), `Requested` the ones computed under the shared token.

Abstractions, and why they lose nothing the properties tell apart:

- `Commit` sets the cell to `Publishing`, which blocks everyone who needs its
  mutex: `publish` holds the cell mutex and the runtime mutex over both steps.
- `is_cancelled` walks the interests in one step. The code takes one lock after
  the other; a walk that misses a change is a walk that ran a little earlier.
- Slots are a set of threads with a capacity; classes are in `ExecutionSlots`. A
  lane need not be spawned when a slot is free, as `try_acquire` may refuse it
  for its class.
- A fact's cycle key is its key, so the cell's same-task arm is never reached:
  the stack of the thread has caught the cycle.
- The drop of an interest and of a slot is part of the step that ends the frame.
- Values, fingerprints, profiles and inputs are left out: a dependency record is
  the set of facts it names.
- A computation fails only with an error of a request; panics unwind along the
  same guards.

Bounds: `MaxTasks` bounds task identities. Each configuration's value is above
what its program can use up or is the point where new claims stop; the runs with
retries (cancelled shared work claimed again) are the reason it is needed.
`PollOutlastsPass` states, where a liveness run needs it, that the poll interval
of 10 ms is longer than another request's pass through the loop; without it two
waiters whose polls always miss each other's cancellation checks may take turns
for ever. One passing run, `query_cycles`, assumes it, for `AllReturn`; its three
invariants (`NoRecursiveInterest`, `NoThreadDeadlock`, `WaitGraphAcyclic`) are
therefore checked under it too. `WaitGraphAcyclic` is also proved, without it. `query`
does not assume it; of the violation runs only `query_crowd` does.

Fairness: every thread that can take a step takes one (weak fairness per thread,
which the operating system gives). Callers need not cancel, lanes need not start.

`FactStore` is the abstract specification: a fact is `Vacant`, `Computing` or
`Ready`; `Claim`, `Abandon` and `Publish` are its steps, and a publication records
dependencies that are `Ready`. In the mapping a cell counts as `Ready` from its
commit on.

## Publication

`Publication` models the managed store of one product. Its disk is `reference`
(`published-generation.json`: current and previous generation), `journal`
(`pending-publication.json`), `store` (generation directories, `absent`, `whole` or
`torn`), `public` (what each public path holds) and `entry` (the product's record
in the index). `durable` and `durablePublic` are what was last synced. `root`,
`exclusive`, `shared`, `pinned` and `lease` are the holders of the lock files. Each
process runs one operation at a time; `pc` is its place in it.

| code | actions |
|---|---|
| opening the store, registration, pin | `Open`, `RegisterProduct`, `PinProduct` |
| `recover_publication` | `RecoverNothing`, `RecoverBegin`, `RecoverRestore`, `RecoverRemove`, `RecoverComplete` |
| `publish_managed_generation` | `AcquirePublicationLock` ... `CommitReference`, `CompletePublication` |
| rollback | `BeginRollback`, `RollbackProjection`, `RollbackDone` |
| pruning after a publication, in maintenance, by a cleaning | `PruneStep`, `PruneDone`, `PruneFailed`, `CleanHistory` |
| maintenance and retirement of a product | `MaintainProduct`, `SkipMaintenance`, `Retire*`, `Unpublish` |
| readers and retained readers | `LockShared`, `FindPending`, `LockExclusive`, `Downgrade`, `Guard`, `RetainGeneration`, `Drop` |
| death of a process, error or cancelled return | `Stop`, `Refuse` |
| loss of power | `PowerLoss` |

Abstractions. A generation is named by its content; the probing of colliding
64-bit locators is left out. The directories of two public paths reach the disk
independently, the metadata directory in order. Promotion of a file in recovery
and the sync of its directory are one step. Deletion of a retired tree is one
durable step. `Stop` stands for the death of a process and for a return with an
error at any point where the code can fail. Hard links between equal files of
generations, the content index, the cache budget and the claims of several
products on one path are left out.

Bounds: three generations (current, previous and one that is being staged or
pruned) over three public paths with overlapping manifests, two processes, three
or four operations. Two processes show every pair of operations; the third
generation is what pruning removes. Deadlock is not checked: when the operations
are used up the processes rest.

Fairness (`OperationsEnd`): each process that can take a step takes one.

`CommittedProduct` is the abstract specification: one committed generation,
replaced as a whole while nobody reads it, each reader seeing exactly its files.
The mapping shows a reader the public files that belong to some generation while
it holds the guard.

## Scheduler

Three modules. `SchedulerDomain` says what the scheduler domain of the bootstrap
runtime (`runtime/bootstrap/src/scheduler`) promises: entries are admitted with an
index and a generation, wakes make them ready once, ready entries stand FIFO in
their lane, lanes take turns, at most `limit` entries hold a slot, a dispatched
entry suspends, lends its slot or is withdrawn. Each operation runs under the spin
lock of the domain and is one step.

`SchedulerArena` is the arena behind it: rows and lane headers in two arrays,
linked by index, with free lists, a ring of active headers and the header a row
used last, which may since serve another lane. It is checked to implement
`SchedulerDomain` (`ImplementsDomain`); `FoundHeader`, `Enqueue` and `Unlink` follow
`queue.bray` step by step.

`RunScheduler` puts the native side around the domain
(`crates/bray-runtime/src/scheduler`): bindings and timers under their mutex,
threads that promote timers, look for ready work or for a slot to reclaim, and
park on one of two signal words. A thread registers in a group before it looks;
what makes work available sets the words of the groups with waiters and notifies
after the lock; the last waiter to leave resets the word. `calls` holds calls of
other threads that are under way between two locks: a registration that is to be
bound or withdrawn, a cancellation that is to be observed, a wake, a signal.
`due` is a history: registrations woken since their last dispatch.

`Observe` is the insertion of a cancellation's wake and the check whether the request
has already come (`cancellation/host.rs`), in one step: a request between the two finds the
inserted wake and delivers it, the check delivers it otherwise, and a second delivery
coalesces.

Left out: the rollback when the allocation of a binding fails, failure of an
admission's allocation, `take_ready` (a test helper), deadlines of the caller
(`wait_until`; threads wait as the root driver does), snapshots, wake counts and
causes, queue times.

Bounds. The arena has three rows and two lanes: with two rows of one lane a third
is the neighbour an unlink has to mend. `MCSchedulerArena` starts empty in one of
two profiles: `turns` fills the rows once and keeps them ready, `reuse` takes two
rows through all their generations, lends slots and changes lanes. `patience`
counts, for every ready row, how many dispatches may still pass it by.
`MCRunScheduler` starts from a reachable state in one of four profiles (`work`,
`crowd`, `timer`, `register`); a third worker appears only in `crowd`, the
profile in which both words are set while another thread comes to register.
`MaxStimuli` bounds wakes and timers from outside. Deadlock is not checked: when
the stimuli are used up every thread sleeps, and `Settles` says in which state.

Fairness: each thread that can go on does, notifications and calls under way are
delivered, the clock ticks. Nothing is assumed of registrations, wakes, timers or
spurious wake-ups.

## Tasks

`TaskControl` models the life of native tasks: the counted control cell of each
task, the intrusive lists of tasks that wait for another to end or to retire, the
atomic cancellation word with its shields, the runtime event, and the thread that
drives a dispatch from `begin` to give-back. The scheduler appears as four states
of a task and a retained wake; that wakes are kept is what `RunScheduler` checks.
`Owner` says who holds the claim of each task, `Joins` who else joins it.

A step is one critical section (a cell lock, the resident lease over the
directory, one exchange of the word, one call of the scheduler). Sections of one
thread are merged where no other thread can tell: the reads of `drive_ready`,
which only become true; the begin of a dispatch and its first snapshot (the claim
keeps every other dispatch out, and what others may change in between, a request or a
retirement asked for, is a change that came a little earlier); suspend and end
of a dispatch; close and completion; the continue steps with the reading of the
cancellation at their start; the observation of the event and the registration
with it, because natively events are only ever closed; the request of retirement
and the wake of the main thread.

Left out: start and admission of a task (a task begins as `start` leaves it, the
`Admitted` phase is never seen by another thread), signals that advance an
event's generation (they have no native caller), a suspension on an event that is
gone or refuses the registration (the driver reports a failure, `execution.rs:272`),
the recheck of a dispatch, which native tasks do not ask for, and the retirement of a
whole runtime beyond the assertion that no task is left (`Shutdown` in `TestRun`).

The main thread resolves a root by observing it, asking for its retirement and
destroying it, and sleeps in `wait_main_thread` in between. That wait can fail.
`TaskControl` says what each call does to the cell, also for a root that is not
resolved (`MainRetire`); what becomes of the root when a wait fails is decided by its
caller, the test host, and is modelled there.

## Test invocations

`TestRun` extends `TaskControl` with one test invocation seen from both ends: in
the host the session on the main thread, the listener that reads `Cancel`, the
worker of the timeout service, and the root task; in the runner
`run_host_process`, which polls, sends `Cancel`, kills and reads the result file.
Requests for cancellation go through `request_with_source` in three steps (source,
word, wake). The process may crash at any point, also while it writes the result.
The other tasks of the family go on meanwhile (`FamilyStep`, `FamilyChoice`), and take
part in the shutdown.

Failures of the runtime below the session:

- a frame may end as `RUNTIME_FAILURE` (`Ending`), and `resolve_task` returns one when
  `wait_main_thread` fails while the root is still pending (`ObserveRoot`, `host.lost`).
  `RecordOutcome` records either as a failure of the host;
- `resolve_root_completion` returns early when a wait fails before the root is retired.
  The generated host ignores the status, so the root stays registered (third disjunct
  of `RetireRoot`);
- `execution_shutdown` joins the workers and asserts that no task is registered. With
  such a root it fails, `finish` is not reached, no result file is written and the
  process exits with a failure (`Shutdown`), which the runner reports as a failure of
  the host. This is why `OutcomeTruthful` can say that a reported outcome belongs to a
  root that was retired and destroyed;
- a root that was lost is never resolved, so `request_retirement` keeps answering that
  it is pending and the main thread stays in `resolve_task_retirement` until another
  wait fails or the runner kills the process. `RunSettles` excepts a live host in that
  state and says so.
`asked` and `seen` are histories: who asked for cancellation, which failures the
session was told of.

A pass of the runner over a live host changes nothing unless a deadline has
passed, so it is no step. Nothing orders the runner's deadline with the host's:
the clocks start at different times. The listener keeps its clone of the root's
handle until the process exits, so the root's slot is not freed before. Start of
the timeout service and registration with it are one step. The exit status matters
only without a complete result file. Left out: native outcomes of roots that run
synchronously, the cancellation tree of the host context, output capture beyond
its failure, the schedule that admits invocations.

`MCTestRun` has six profiles: `family` (a root that owns a child, every call of
`TaskControl`), `crowd` (three tasks in one wait list, one of them woken early:
the middle of a list is where unlinking has two neighbours), and four kinds of
test run: `race` (a deadline, `Cancel` and a request of the test's own), `failures`
(the timeout service, the frame, capture, cleanup and the waits of the main thread may
fail; `Cancel` comes only to a session that has recorded a failure of the host, the
case in which `record_outcome` replaces it), `deaths` (crashes and kills) and `group`
(no limit, the root owns a child, `Cancel` while the root is observed or one thing its
child's frame or callers may do). `MaxStimuli` and `MaxDefers` bound requests
from outside, yields and deferred retirements. Deadlock is not checked:
everything ends.

Fairness is one weak fairness of everything that makes progress, weaker than
fairness of each thread. Deadlines, crashes, `Cancel` and the end of a test are not
forced.

## Runs

| run | instance | shows |
|---|---|---|
| `slots` | 3 workers, 1 slot, streak 1, a promoter | `CountersExact`: slots and waiters are counted exactly through waits, promotions, suspensions and drops. `NoLostWakeup`: with no slot in use a queued worker has been notified. `BoundedBypass`: a bounded number of interactive grants passes queued ordinary work. `OrdinaryNotStarved`, `PromotionReachesQueue` |
| `query` | 2 cancellable requests, 3 facts, 2 lanes at one fact | `SingleFlight`, `RecordsComplete`, `OwnCancellation`, `ContextRecording`, `EdgesExact`, `CyclesAreReal`, `PublicationFinal`, `ImplementsFactStore` |
| `query_cycles` | 2 cancellable requests into a 2-cycle, one side absorbs | `NoRecursiveInterest`, `NoThreadDeadlock`, `WaitGraphAcyclic`, `AllReturn` |
| `publication` | 2 processes, 3 generations, 3 operations that die anywhere | `NeededKept`, `CurrentVisible`, `NothingUncommitted`, `ImplementsCommittedProduct`, `OperationsEnd` |
| `publication_power` | 4 operations, 2 power losses | `CurrentSurvives` |
| `scheduler_arena` | 3 rows, 2 lanes, 1 slot, 2 generations | `NeverAborts`, `ListsPartition`, `TurnsBounded`, `ImplementsDomain` |
| `run_scheduler` | up to 3 workers, 2 lanes, 2 tasks, 1 slot, 1 timer | `NoLostWakeup`, `CountsExact`, `DispatchBound`, `WakesKept`, `Settles` |
| `test_run` | 2 to 4 tasks, 1 invocation | `NeverAborts`, `LinksExact`, `NoLostWait`, `OutcomeTruthful`, `NothingMasked`, `FamilyEnds`, `RunSettles` |
| `query_ring_deadlock`, `query_crowd`, `query_recursive`, `publication_foreign` | see below | violations |

Two requests show every race at a cell. Two items are enough for lanes to
overlap, and the second request meets the first one's evaluation both as waiter
and as late reader. Each definition that models code has mutants in the modules:
for every property of a passing run one plausible mistake in the code that the run
would find.

## Disagreements between code and text

Each of these is a run in which TLC finds the property violated.

- `query_ring_deadlock`: the test `cross_thread_cycles_do_not_deadlock`
  (`cache.rs:1847`) has cycles in which every task is the innermost of its thread.
  If one thread evaluates two facts of a three-cycle nested and another the third,
  the outer task has no wait edge, the search finds no cycle and both threads wait
  for each other. `WaitGraphAcyclic` holds all the while (and is proved): the graph
  has no cycle because it lacks the nesting.
- `query_crowd`: "A fact owner must already hold execution capacity" (`cache.rs:334`).
  A coordinator that joined its lanes does not; if waiting requests took the
  slots, nobody goes on.
- `query_recursive`: "Establish the wait edge first so fact cycles remain distinct
  from the cancellation interest graph" (`cache.rs:460`). The edge is also dropped
  first; with lanes, a cycle and every request cancelled, a check follows interests
  around a cycle into the panic at `cancellation.rs:77`.
- `publication_foreign`: "Rollback preserves the previous public artifacts until
  commit succeeds" (`docs/design/emitter.md:40`). A failed publication leaves its
  journal; the next recovery removes every path it lists that the committed
  manifest lacks, also a file of the user that was never replaced.

Met while modelling, not among the runs:

- "abandoning one waiter does not cancel shared work still needed by another"
  (`docs/design/compiler-architecture.md:87`). A waiter's interest lasts one poll
  (`cache.rs:500`); between two polls a cancelled owner abandons the work. The
  waiter computes it again, so no answer is wrong.
- After a power loss a public path may hold a file of a generation that was never
  committed: what recovery removes (`recovery.rs:127`) is not synced, and the
  journal that listed it is gone. `NothingUncommitted` is stated, and proved, for
  behaviours without power loss; `CurrentSurvives` for all.
- "a yielded task retains its admitted registration" (`native/state/execution.rs:261`).
  Between the give-back of a yielded task and its wake, another wake can have it
  dispatched, retired, destroyed and unregistered. `YieldKeepsRegistration` in
  `TaskControl` states it.
- `ready.suspend` (`scheduler/dispatch.rs:204`) returns `UnknownTask` when the owner
  destroyed the task between the notification of its waiters and the give-back,
  and the driver reports a runtime failure (`execution.rs:255`).
- `reuse_resolved_queries` (`compilation/snapshot.rs:77`) forks the value store
  before it updates the fact runtime. A fact of the old snapshot that interns a
  value and commits in between is reused with an identity the fork does not have;
  "Looking up an unknown ID panics" (`bray-symbols/src/value/store/core.rs:32`). Read
  from the source only, snapshots are not modelled.

## Proofs

Every theorem holds for any value of the constants that satisfies the named
assumptions, which say that constants have their types and that names of different
kinds differ (`FactQueryAssumption`, `SlotsAssumption`, `DomainAssumption`,
`RunAssumption`, `RootAssumption`, `FilesAssumption`, `NamesAssumption`,
`RequestsAssumption`). Sets of threads and of workers are finite where cardinalities
are counted. Reachability is written with closed sets, not by recursion, and least
elements are found through well-foundedness, so that no proof needs induction.

| module | theorem | property |
|---|---|---|
| `ExecutionSlotsProofs` | `CountersAlwaysExact`, `WakeupsNeverLost`, `BypassAlwaysBounded` | `CountersExact`, `NoLostWakeup`, `BoundedBypass` |
| `FactQuerySafety` | `TypeCorrect`, `SingleFlightHolds`, `WaitGraphStaysAcyclic`, `PublicationsFinal`, `Refinement` | `TypeOK`, `SingleFlight`, `WaitGraphAcyclic`, `PublicationFinal`, `ImplementsFactStore` |
| `FactQueryTheorems` | `RecordsStayComplete`, `ContextsRecord`, `ReportedCyclesReal`, `CancellationIsOwn`, `EdgesStayExact` | `RecordsComplete`, `ContextRecording`, `CyclesAreReal`, `OwnCancellation`, `EdgesExact` |
| `PublicationProofs` | `NeededAlwaysKept`, `CurrentAlwaysVisible`, `NothingEverUncommitted`, `CurrentAlwaysSurvives`, `StoreImplementsProduct` | `NeededKept`, `CurrentVisible`, `NothingUncommitted`, `CurrentSurvives`, `ImplementsCommittedProduct` |
| `RunSchedulerProofs` | `CountsStayExact`, `DispatchesStayBound`, `WakesStayKept`, `WakeupsNeverLost` | `CountsExact`, `DispatchBound`, `WakesKept`, `NoLostWakeup` |
| `TestRunProofs` | `ReportsTruthful`, `NeverMasked` | `OutcomeTruthful`, `NothingMasked` |

**Execution slots.** `SlotsInv` is `CountersExact` with `WaitsInVain`: a worker that
sleeps was counted under its class and found no slot. `BypassInv` adds that the
number of grants that passed ordinary work is at most the streak counter.

**Fact queries: the store.** `Inv` makes the first three properties inductive:

- `SingleFlight` needs `Owned` (the owner of a fact was started for it) so that
  removing an evaluation touches no other fact, and `Fresh` (identities not handed
  out are unused) so that a claim meets no old task.
- `WaitGraphAcyclic` needs `WaitsBegun` (only tasks that have begun are waited for):
  `begin` makes a task an owner and would otherwise turn dormant edges into live
  ones. That a new edge closes no cycle is `WaitForAcyclic`: were there a set of
  tasks each with an edge into it, the set of tasks reached from the owner would
  contain the requester, which the search excluded.
- `PublicationFinal` needs `Committed` (a fact has a record exactly from its commit
  on) and `PublishedReady`.

`RInv` adds that a task run by a frame is the frame's own (`RunsOwn`) and that
recorded dependencies are committed (`DepsCommitted`); with it every step is a step
of `FactStore` or a stutter. Most actions are `Quiet` for the cells: one lemma covers
them, the others have one each.

**Fact queries: the stacks.** `FactQueryStacks` looks at what a step does to the
stacks of requests. The actions have eight shapes (`Walks`, `Claims`, `Evaluates`,
`Leaves`, `Finishes`, `Asks`, `Spawns`, `Ends`; lemma per action), and each further
invariant is shown for each shape.

- `SInv`: below the innermost request every level runs a recording task, a task is
  run at one level of one thread, lanes belong to a parallel computation that has
  not joined them.
- `AInv`: requests ask for what the computation of their caller wants (`AskedFor`);
  a computation without an error has recorded each of its requests or it is still
  under way (`RecordsHeard`); evaluations further out on a thread, and tasks that
  wait, lead to the innermost request (`EvaluationsLead`, `WaitsAsked`). A cycle is
  reported only where such a chain closes, which is `CyclesAreReal`; a commit finds
  all requests recorded, which is `RecordsComplete`.
- `CInv` (`FactQueryCancellation`): a request has the token of its caller's
  computation, every runner has registered its interest, evaluations nest (among any
  tasks one is not evaluated on behalf of the others), and a computation that heard of
  a cancellation is under tokens that lead to a cancelled root. A check finds a shared
  token cancelled only if all interests are; by nesting, following the interests of
  the runners ends in a root, so a root that hears of a cancellation was cancelled
  itself (`OwnCancellation`).
- `EdgesExact` counts the threads whose innermost request waits on behalf of one task
  for another, and needs the stacks to know that the context of such a request stays.

`FactQueryTheorems` puts them together as `QueryInv`.

**Publication.** `Inv` is `StoreInv`, and without power losses `TidyStore`. Whoever
works on the files of the product is alone (`WorksAlone`): the locks follow from the
labels. The invariant says how far a publication has come: what is staged, what the
journal lists, which public paths were replaced and what they held, what is synced
when the reference is. Actions that change files are told from those that do not;
each process's part of the invariant is kept by its own steps by one lemma and by
the steps of the others by another. A power loss returns to the synced reference or
to the one before; either is whole. For the refinement, a guarded reader excludes
every action that changes public files, so its view stays as it was.

**Scheduler.** Everything is in `RunSchedulerProofs`. `DomainFacts` is a contract: what each
operation of the domain does to rows and ready lanes, given `Agrees` (every queued
entry stands once, in its own lane; slots are counted). `DomainFactsHold` proves it, and
the steps of the threads use the contract only. In the same way `FiniteFacts` collects
what is used of finite sets, and `FiniteFactsHold` derives it from the library. Both are
premises of the lemmas and neither is a premise of a theorem. `SchedInv` is
`Core /\ ThreadsOK /\ ParkingOK /\ Looks`:

- `Core`: rows and lanes agree; a dispatch has one holder, which has the slot unless
  it lent it; every entry is bound, or is about to be bound or withdrawn and was not
  woken yet; wakes under way are for registrations that were bound once (`Handed`), so
  that no later admission gets a wake of an earlier one; woken entries are ready or
  will be.
- `ThreadsOK`: where a thread is says whether it is registered, has a dispatch, and
  comes for work or for its slot.
- `ParkingOK`: the waiters of a group are counted, and a set word has waiters.
- `Looks`: a thread that is about to sleep with its word clear has looked after it
  registered and there is still nothing for it. Whatever makes work available
  signals both groups, hence every registered thread (`LooksSignalled`).

**Test invocations.** `RunInv` relates the session, the requests for cancellation, the
root task and the runner: an outcome of the session follows a request that was made
(`AskedInv`), the course of the root's cell (`CourseInv`), what the session was told
(`SessionInv`), what the runner read (`RunnerInv`). The tasks under the root are
arbitrary and take steps of their own. Two groups of lemmas say what the session may
rely on: a step of the root moves its cell forward only (`DispatchMoves`), a step of any
other task leaves alone what the session reads of it (`OtherMoves`) and never takes it
from the scheduler (`ListedStays`: a frame unregisters only what it owns). Hence the
root leaves the scheduler only when the main thread destroys it, retired, and as
`Shutdown` lets the main thread write a file only then, `CourseInv` holds also when waits
of the main thread fail.

Only model-checked, and why:

- liveness (`OrdinaryNotStarved`, `PromotionReachesQueue`, `AllReturn`, `OperationsEnd`,
  `Settles`, `FamilyEnds`, `RunSettles`): the prover has no fairness;
- `SchedulerArena` (`NeverAborts`, `ListsPartition`, `TurnsBounded`, `ImplementsDomain`)
  and the wait lists of `TaskControl` (`LinksExact`, `NeverAborts`, `NoLostWait`): what
  a chain of links reaches is defined by recursion over its length, which cannot be
  unfolded for every length without induction over data;
- `NoRecursiveInterest` and `NoThreadDeadlock`: they hold of two requests in a 2-cycle,
  not in general (see the disagreements).

## What is not modelled

- The rayon pool: a job stolen by a thread that is inside an evaluation, and the
  number of pool threads. In the model a helper runs one lane from its start to its
  end.
- Memory order of the published value and of the priority: the code uses acquire and
  release, and each is read in one step.
- Cell maps (bounded retention beside the cells), batches, snapshot updates of
  compilations.
- Of the product runtime: the cancellation tree of host contexts, cleanup incidents,
  the native bridge, retirement of a runtime.
- The schedule that admits test invocations, output capture, the encoding of the test
  protocol.
- Standard-library synchronisation and channels, the language server.
- Parser to linker, packages, tools: sequential functions; testing is the better tool.

Three hazards of `PROJECT.json` have no property for that reason: the pool
(`core.rs:111`), cell maps (`cell_map.rs:233`) and snapshot updates (`runtime.rs:606`).
