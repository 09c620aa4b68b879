# A TLA+ development for Wiii

Wiii is a workspace for coding agents: a React renderer, a Tauri host written in
Rust, a Linux guest desktop that agents operate through a Python bridge, and a
hosted Python service with the tutoring, course and memory features. This
directory models the parts of it in which concurrency, failure and recovery
decide what is true afterwards, checks them with TLC on small instances, and
proves the most important invariants with TLAPS for every instance.

Paths: `neko/` is `src/wiii-desktop/src-tauri/src/neko/`, `renderer/` is
`src/wiii-desktop/src/`, and `app/` is `src/maritime-ai-service/app/`.

1. Inventory · 2. Modules · 3. Runs · 4. Fairness · 5. Proofs ·
6. Where code and documents disagree · 7. Not modelled · 8. Plan

## 1. Inventory

### Desktop

| Component | State | Operations | What is hard | What makes it correct |
|---|---|---|---|---|
| Neko lifecycle, `neko/lifecycle.rs` | none | `can_transition`, `can_advance_operation`, `recovery_disposition` | every durable write is checked against it | an uncertain effect is never called lost |
| Neko journal, `neko/journal.rs` | SQLite: requests, sessions, retained terminal facts, event streams | `begin_request`, `begin_start_request`, phase setters, `commit_session_event`, `reconcile_terminal_request*`, `recover_incomplete` | any write may fail; the host may end between two | an identity acts once, its outcome is final |
| Neko runtime, `neko/runtime.rs` | process map, exit supervisions, pending facts, one `operations` mutex, shutdown flag | `start_session`, `write_session`, `cancel_session`, `list_sessions`, `kill_all`, monitor and writer threads | the mutex is released during probes, exit supervision and shutdown; writes wait with a timeout | no respawn over a live provider, no proven exit called unknown, shutdown ends |
| Input authority, `neko/computer/image/input_authority.py`, and the bridge's action threads | lease, current `Event`, `active`, `cleanup_failed`, `revocation_pending` | `activate`, `revoke`, `run`, `dispatch`, `wait`, `cleanup` | revocation races an action in another thread; key releases fail | "quiescent" is true when it is said |
| Computer service, `neko/computer/service.rs`, `journal.rs`, `provider.rs` | seat leases, request journal, two mutexes | `acquire_seat`, `release_seat`, `ensure`, `suspend`, `resume`, `reset`, `revoke_project`, `semantic_act`, `recover_incomplete` | calls to the guest time out with the effect undecided; messages arrive late; the host crashes, the guest does not | nobody but the holder of the seat drives the desktop |
| Durable outbox, `renderer/neko-chill/durable-outbox.ts` | persisted message queues, in-flight set, blocked set | enqueue, pause, resume, edit, remove, dispatch, hydrate | state read before an `await` and used after it; restart during delivery | a message is handed over at most once without the user |
| Inboxes, provider resolution, motor runner, work plane, coworker store, renderer stores, user interface | see `PROJECT.json` | | redelivery and shutdown (inboxes); otherwise conversion, I/O and views | not modelled |

### Hosted service

| Component | State | Operations | What is hard | What makes it correct |
|---|---|---|---|---|
| Course generation, `app/api/v1/course_generation*.py`, `app/repositories/course_generation_repository.py`, `app/engine/workflows/course_generation.py` | a job row, background tasks of a worker process, course and chapters in the LMS | outline, expand, retry, cancel, resume, recovery at startup | handlers decide on a row they read earlier; tasks are cancelled at any await; LMS answers get lost; workers crash | no approved chapter is forgotten, no job is worked on twice, none stays active for ever unless a recovery was lost |
| Scheduled tasks, `app/services/scheduled_task_executor.py`, `app/repositories/scheduler_repository.py` | task rows, an executor's batch | create, cancel, poll, run, notify, mark | rows are fetched long before they run; writes fail silently; forced stops | one notification per run, `max_runs` exceeded only by copies fetched before, nobody starves |
| Session event log, `app/engine/runtime/session_event_log.py`, `session_wake.py` | numbered rows per session, a worker's cursor | `append`, `wake`, `prune_older_than` | numbers are chosen optimistically | a reader never misses an event |
| Circuit breaker, `app/core/resilience.py` | state, failure count, time of the last failure | guarded calls, manual use, late outcomes | outcomes arrive in another state than the one that admitted the call | opens at the threshold, closes when the service is back |
| Embedding spaces, `app/services/embedding_space_*.py` | registry, cached copies, vectors | write, prepare, backfill, promote | writers act on old copies of the registry, the backfill on old texts | a migration can be taken up again, a clean backfill is complete |
| Agents and streaming, soul bridge, connected accounts, retrieval, authentication, rate limiter, scripts | see `PROJECT.json` | | text, ranking, request checks, remote calls; a few small protocols in the plan | not modelled |

Components interact through few seams: the renderer calls the Neko runtime and
the computer service with request identities; both journals promise the same
thing, stated once as `RequestOnce`; the computer service drives the input
authority through a transport without guarantees, and what it may rely on is
stated once as `GuestAuthority`; the hosted components share
only the database.

## 2. Modules

| Module | Models | Used by |
|---|---|---|
| `InputAuthority` | the authority and the bridge threads that use it | `InputAuthorityProofs` |
| `NekoLifecycle` | the two state machines | `NekoJournal` |
| `NekoJournal` | the tables and what a committed transaction does to them | `NekoRuntime` |
| `NekoRuntime` | the supervisor: calls, threads, shutdown, crash, recovery | `MCNekoRuntime`, `NekoRuntimeProofs` |
| `ComputerSeat` | seat, computer journal, lifecycle calls, transport, guest | `ComputerSeatProofs` |
| `RequestOnce` | abstract: what a caller of a durable authority may rely on | instantiated in `NekoRuntime` and `ComputerSeat` |
| `GuestAuthority` | abstract: how the guest's desktop goes from one lease to the next | instantiated in `InputAuthority` and `ComputerSeat` |
| `DurableOutbox` | the renderer's message queues | `MCDurableOutbox`, `DurableOutboxProofs` |
| `CourseGeneration` | one job: row, handlers, tasks, LMS, recovery | `MCCourseGeneration`, `CourseGenerationProofs` |
| `ScheduledTasks` | task table, tools, executors | `MCScheduledTasks`, `ScheduledTasksProofs` |
| `SessionEventLog` | appends, replaying worker, prune | `SessionEventLogProofs` |
| `EventLog` | abstract: what readers of a log may rely on | instantiated in `SessionEventLog` |
| `CircuitBreaker` | breaker, callers, service | `HostedServiceProofs` |
| `EmbeddingSpace` | registry, caches, writers, operator | `HostedServiceProofs` |

Definitions whose comment begins with *Mutant* are not part of a specification.
Each is a plausible wrong version of the definition that follows it, kept to
show that a property notices the difference.

### InputAuthority

Each `threading.Event` is a number: `event` is the one `self.cancelled` refers
to, `cancelled` the set of those that are set, `local[t]` the one a thread took
along when `run` let it in. A block under `with self.condition` is one action;
`dispatch` is two, because it checks under the condition and acts outside of it.
An action of the bridge is a bounded number of operations (`MaxSteps`), each a
key step of `dispatch_input_sequence` (press, hold, release in a `finally`), a
single effect, or a clock worker that pauses a page. A key event without an
answer may or may not have arrived, on the way down as on the way up; the latter
sets `cleanup_failed`. `held` and `clock` are the world: keys that are down, and
whether a page is held. `acked` remembers which revocations were acknowledged.
A revocation that names another lease than the current one (`RevokeOther`) sets no
`Event`: it is acknowledged at once, or refused while a cleanup is outstanding.
A mouse click is a key step with one button. Validation of a lease's type and
length is left out.

`GuestAuthority` is what is left of it for the host: the lease, whether it is live,
whether an action runs, whether a revocation has not been confirmed and whether a
key may be down. A revoked lease is not revived, only followed by another one, and
that waits for the confirmation. `InputAuthority!Authority` maps the current `Event`
to `live`; the guest in `ComputerSeat` maps to the same contract, with containers
that are replaced. Both modules are written from the same lines of
`input_authority.py`, and the contract is what they are known to have in common.

### NekoJournal, NekoRuntime, RequestOnce

`NekoJournal` has an operator per transaction, enabled when its checks pass and
describing its commit. `NekoRuntime` decides what happens when it does not: every
write may be refused or fail, and the error path is part of the action. A locked
region is one action. Where the code keeps `operations` across a step others can
see (`spawn`, the ownership commit, a kill), `operations` names the holder and
the region is several actions. A crash between two writes of one region leaves
the tables as the failure of the second does, so `Crash` after that outcome
covers it.

Provider trees are `tree`; a termination is proven (`ok`) or not. A tree may
survive the host in the model, which is more than Windows kill-on-close job
objects allow and therefore safe. `effects` counts how often an identity acted:
a provider spawned, a line delivered. `proven` remembers terminations proven
since the host started.

`RequestOnce` has a `status` and an `effect` per identity: an outcome is given
once, an effect happens at most once and only for an admitted identity, and a
failed request leaves no effect standing. `NekoRuntime!Once` maps phases to
statuses and spawned or delivered effects to effects; a provider whose tree is
dead is an effect undone.

Left out: event streams and their replay, retention, run identities and request
validation, stderr capture, messages to the WebView.

### ComputerSeat

The composition of the host's seat with the guest's authority. The host has two
mutexes: `call` is the call that holds `seats`, with its place and the answer it
has got; `act` is the semantic action that holds `operations`, which lifecycle
calls take after `seats`. A call is one action up to the point where it waits for
the guest or for `operations`; every journal write in it may fail, and the action
has a disjunct for each way out.

`net` holds the messages to the guest. A message stays there after its caller has
given up (`run_bounded` kills the client, not the request) and after a crash of
the host, and it may be handled at any later time; `waits` says whether a caller
is left to hear the answer. Replacing or stopping the container loses what was on
its way. The guest is `InputAuthority` seen from outside: `live` is its current
`Event` not being set, `active` the action that runs, `pending` and `failed` its
two flags; the keys and threads inside are the other module's.

`late` records that an activation took effect when nobody waited for it any more.
From then on the host cannot know what is alive in the guest, and the seat
property says nothing: section 6 describes what happens. Requests are numbered in
the order of their first use, and a new lease has the number of its request.
`effects` counts seats granted and actions run for an identity;
`ComputerSeat!Once` maps it, with the request phases, to `RequestOnce`.

Left out: grants, removal of a computer, packages, terminal, observation, event
replay, and more than one environment (environments share the two mutexes and
nothing else).

### DurableOutbox

JavaScript runs one callback at a time, so an action is what happens between two
awaits. `transact` chains its work on `tail`: `TxBegin` clones the snapshot and
applies the change, `TxThrows` is a change that throws, `TxCommits`, `BarrierPassed`
and `Settled` end a write that succeeded and `TxFails` one that did not. A caller
that awaits a transaction registered its continuation on the promise that the next
transaction waits for as well, and earlier; it therefore belongs to the action that
ends the transaction. An identity is in a queue once, so that the filter of `remove`
and of a completed turn takes out the item at its `Position`. A failed write leaves
the old or the new value on the disk: `saveStoreStrict` tries to restore the old one
and may fail in that too.

`Hold` is the catch and finally clause of `dispatch`. It changes the snapshot
outside of the chain, at any time when `send` rejects. `send` is the agent's
turn: it may report `accepted` once, complete, fail or reject. `accepted` counts
the reports. The callers are the ones the renderer has: the store (enqueue, the
pump, the pause of a session that stops, the pause of every queue when the
workspace is left) and the panel (resume, edit and remove, one at a time per
session). After the delivery barrier readiness may be gone for reasons outside of
the module, so `BarrierPassed` may always put the item back.

Left out: parsing a stored snapshot (`parseOutbox`), and calls before
hydration, which the class rejects.

### CourseGeneration

Every repository call is a statement of its own. A handler that reads the row and
changes it later is two actions (`ReadJob`, then the one that applies it), so
that two requests may have read the same phase. A background task has a place per
await between two of which it reads or writes something; a cancellation is
delivered at the next one. A push to the LMS may be accepted with its answer
lost. A worker process that ends loses its tasks and handlers; one that starts
claims jobs and dispatches their recovery from the rows it has claimed (`claimed`),
in two steps. After its push a retry looks for a cancellation, reads the row again,
writes the chapter lists, reads the phase and writes that back, each a step.

Simplifications: a dispatched task has started before it can be cancelled; an
UPDATE and the dispatch after it are one step, as are the two UPDATEs of a
resume. Left out: progress, heartbeats, messages, cached chapter text, errors of
the repository itself.

Most properties carry a guard, because the code has known ways around them
(section 6). `NoChapterForgotten` speaks of jobs whose expansions have followed
one another (`OneAfterAnother`): one worker, no retry, and one request, or an
expansion and a resume without a cancellation. An expansion that is cancelled and
resumed while it unwinds overlaps with its successor, and each writes the chapter
lists from a copy of its own. `NoDuplicateWork` speaks of at most one request to
work on the job, `CourseIsWhole` of jobs with one course shell and requests that
name no other course, `WavesRespectDependencies` of an expansion that has
completed nothing before and of dependencies that stay among the approved
chapters and have no cycle (`Orderable`), `ActiveSettles` of jobs nobody has
cancelled or retried and of which no recovery was lost between its claim and its
dispatch to a process that is back within a minute (`LeftRecovering`). What they
promise under their guards includes crashes, recoveries, lost answers and
cancellations.

### ScheduledTasks

The repository is synchronous, so each of its calls is one step; an executor
gives way while a task runs and while the owner is notified. A write that fails
returns `False`, which the executor ignores (`WriteLost`). A forced stop and a
crash are the same `Stop` at any place. Time is a bounded counter and every
recurrence has the interval 1. Every worker process has an executor and
`get_due_tasks` takes no lock, so that two executors may hold copies of one row:
`max_runs` is compared with the count in the copy, and `OverrunsAreStale` says by
how much the copies can exceed it.

### SessionEventLog, EventLog

The Postgres backend. One INSERT is three steps: the snapshot in which `MAX(seq)`
is evaluated, the unique index, where it waits for an uncommitted row with the
same number, and the commit, whose answer may be lost. `EventLog` says what
readers rely on: an event once, with a number of its own, and, until the first
prune, above every number given before. After a prune numbers are reused, so
`NothingSkipped` and `FailureMeansContention` speak of the time before.

### CircuitBreaker

Its lock is not held across an await, so a method is a step. Callers use the
context manager or decorator (`Begin`) or look at `is_available` and report the
outcome themselves (`BeginManual`); a call that began while the service was down
is `doomed` to fail, whenever it ends. A cancelled call reports nothing or a
failure, depending on the way it was guarded.

### EmbeddingSpace

The registry's table is empty until the target space is prepared, and then holds
the target's entry alone: `seed_inline_embedding_space_registry` would store the
entry of the space in use, but sees the entry that is made up in memory for an
empty table and takes it for a stored one. `View` is what a process acts on: its
cached copy, which may be any number of changes old until `CacheExpires`, the
table, or the made-up entry of its own runtime policy. Preparing therefore moves
all writing and reading to the side table at once; section 6 says what that means
for retrieval. What the code does keep is that the migration can be completed:
`MigrationCanResume` and `CleanBackfillIsComplete`.

A vector is the version of the text it was computed from, `stamp` the space a row
says its column's vector belongs to, which is what the backfill selects by. The
backfill fetches the rows, all of them or with `limit_per_table` any subset, and
embeds and commits them batch by batch; a batch is any set of the rows that are
left. `missed` remembers the rows whose last write may have gone past the target:
its embedding failed (the code stores such a row on purpose), it came while the
backfill held the older text, it used a copy of the registry from before the
preparation, or it kept the old vector (`update_fact_preserve_embedding`).

Simplifications: one entity type and one target; writers of one row do not
overlap; requests of the operator do not overlap. Left out: dimensions and
indexes, search, deletion of rows, and the knowledge tables.

## 3. Runs

| Run | Instance | Distinct states | Question |
|---|---|---|---|
| `input_leases` | 3 threads, 2 leases, 1 key, 2 activations, 2 steps | 696 710 | acknowledgement and hand-over under every failure of a key event, a release or a clock worker; refinement of `GuestAuthority`; a revoked action ends |
| `runtime_safety` | 1 session: start, cancel, write; 2 callers; 1 crash | 130 509 | effects, terminal states, shutdown, refinement of `RequestOnce` |
| `runtime_shutdown` | 1 session: start, two writes; queue of 1; 2 callers | 114 496 | the queue's bound; `kill_all` and every call return |
| `seat_takeover` | 3 requests of an agent and a person, switch and resume, 1 crash | 449 865 | only the holder of the seat can act; refinement of `RequestOnce`; every call returns |
| `outbox_safety` | 1 session, 3 messages, capacity 2, 2 texts, 2 contexts, 2 waiting transactions, 1 restart | 610 086 | a message is handed over once, from the head of the durable queue |
| `course_job` | 1 process, 2 handlers, 2 chapters, 3 of: expand, 2 cancels, resume, retry, 2 crashes | 181 514 | chapters, courses and waves; an active job settles |
| `tasks_executor` | 2 tasks, 2 executors, poll of 1, 2 failures, 1 fault | 251 126 | notifications, overruns of `max_runs`, finality, starvation |
| `log_appends` | 3 appends, 2 tries, 2 prunes | 94 452 | refinement of `EventLog`, replay, giving up, termination |
| `breaker_outage` | 3 callers, threshold 2, 2 outages, 1 cancellation | 6 219 | opening at the threshold, recovery |
| `embedding_migration` | 2 processes, 2 rows, 2 writes each, 2 faults | 317 650 | what a stopped migration and a clean report leave behind |
| `runtime_cancel`, `course_claim` | smaller ones | | a sentence of a document or comment that the code does not keep; section 6 |

**Bounds.** Three bridge threads are one that acts, one that revokes and one that
asks for the control lock meanwhile; two activations are a lease and its successor,
which is what a hand-over needs. Two callers let any call overtake a start whose
provider is being probed, and let a duplicate race its original; sessions share only
the mutex and the shutdown, so that one session shows the rest. A queue of one is
full with one line, which makes the second line meet a full queue. Three requests
for the seat are an agent's acquisition, an action or a timed-out activation, and
the takeover or switch that must not be fooled by them; lifecycle calls other than
the two of the run are covered by the proof, which has no bound. In the desktop's
runs one crash can fall between any two steps; recovery there is a function of the
tables, which a second crash would only repeat. A course job's recovery is claimed
and then dispatched, and two crashes are allowed, the second of which falls between.
Three messages fill a queue of two and one more; two waiting transactions let a
foreign one stand before or behind the one a dispatch awaits. Two chapters in a
chain make two waves; two handlers let a cancel pass an expand that has read the
row; `MaxEvents` keeps requests and crashes together at three, which is enough for
each of the sequences of section 6. Two tasks against a poll of one leave one
behind; one of them recurs and may run twice, and two executors can fetch its last
run both. Three writers with two tries let one give up. Two outages let a call of
the first end in the second. Two processes are the one that migrates and one that
still has an old copy of the registry; two rows make a batch that fails for one of
them and a limit that leaves one out; two faults let an attempt fail and a restart
follow it. Bounds are constants of the modules.

**Symmetry** is used in `runtime_safety` and `outbox_safety`, where elements are
only compared for equality, and never in a run with fairness.

**Deadlock** is checked except where the system really stops: when shutdown is
over and every identity is used (`runtime_shutdown`), when every request is used
(`seat_takeover`), when a job is finished and its events are spent (`course_*`),
when the clock has reached its bound (`tasks_executor`), and when the target is
promoted and every row written (`embedding_migration`).

## 4. Fairness

- `InputAuthority`: weak fairness on the steps of an action and on the end of a
  revocation. Threads are scheduled; `CdpConnection.call` has a timeout,
  `Event.wait` and `wait_for` are bounded. Nothing is assumed of clients: no
  fairness on new requests, activations or revocations.
- `NekoRuntime`: strong fairness on the steps of a call, of a monitor and of
  shutdown. They wait for `operations`, which others take again and again; a
  `std::sync::Mutex` is granted at last to a thread that waits. Strong fairness
  of a call covers its timeouts (`WRITE_RESULT_TIMEOUT`) and bounded termination
  attempts. Nothing is assumed of providers: a tree may never die by itself, a
  writer may never deliver.
- `ComputerSeat`: strong fairness on the steps of the call that holds `seats`,
  for the same reason, and weak fairness on the end of an action, which
  `run_bounded` enforces. Nothing is assumed of the guest: it may never answer.
- `CourseGeneration`: weak fairness on the steps of tasks and handlers (the event
  loop schedules them, HTTP clients have timeouts) and on a stopped worker
  process being started again.
- `ScheduledTasks`: weak fairness on an executor's steps and on its restart; the
  run of a task has a timeout.
- `SessionEventLog`: weak fairness on a writer's statements that do not wait.
- `CircuitBreaker`: weak fairness on the passing of the recovery time, on calls
  being made and on calls ending.
- `DurableOutbox` and `EmbeddingSpace` have none: what happens next is the
  user's, the agent's or the operator's choice.

## 5. Proofs

Eight modules hold proofs; none assumes more than the named `ASSUME` of its
specification (bounds are naturals, absent values are none of the present ones,
sets that are counted are finite). Each proves `TypeCorrect`, `Spec => []TypeOK`.
The inductive invariants of the larger proofs were checked by TLC, on the instance of
the module's run, before they were proved.

**NekoRuntimeProofs** proves every safety property of the runtime: `EffectsOnce`,
`EffectsAdmitted`, `FailedTerminated`, `ProvenKnown`, `ShutdownClosed`,
`CompletedDone` and `RuntimeRequestsOnce`, `Spec => ImplementsRequestOnce`. None of
the properties is inductive; three invariants are proved, each with the help of
the ones before it.

- `Tokens`. An identity is in the hands of one caller, of the queue of one session
  or of a terminal fact that will settle it, or of nobody. Where a caller is says
  what the journal can say of its identity and how often its effect has happened
  (`PhaseAt`, `EffectAt`); a queued line is a write that has not been delivered and
  is queued once. No step takes back a row or how far it has got (`Progress`).
- `Owners`. The same for provider processes. A start on its way to the spawn has
  a session in which nothing runs, and holds the mutex from its dispatch on
  (`StartOK`); a process in the map belongs to a session nobody has torn down
  (`ProcessOK`); until shutdown an exited process is its supervisor's alone and a
  proven termination is on record, pending or about to be recorded (`ProvenOK`); a
  fact that says "failed" exists only over a dead tree (`TreeOK`). A fact kept in
  memory or in the table is part of the invariant, because a later flush commits
  it without looking at the process again.
- `Outcomes`. A completed request did what it says, a failed one has left nothing
  behind, a retained fact completes a cancellation of its session or fails a start
  of it, and a line that still waits belongs to a request that is open or unknown.
  Together with `World` (a dead tree stays dead, an effect happens only where it is
  admitted) this is the step simulation of `RequestOnce`.

Two assumptions are about absent values only: `NoFact` is not a fact, and
`NoCaller` is neither a caller nor `kill_all`.

**ComputerSeatProofs**: `SeatHolderOnly`, `Spec => []OnlySeatHolderActs`, and
`SeatRequestsOnce`, `Spec => ImplementsRequestOnce`. The seat changes hands long
after the guest was asked, so the invariant has to carry what the call was told:
between the barrier and the end of a takeover, release or switch the guest is
quiet (`Barred`). That needs to know that only one message ever has a caller, that
it is where the caller sent it, and that no answer is left over from an earlier
wait (`OneWaits`): an activation somebody waits for is the one of the current
seat, and one nobody waits for sets `late`. A container that does not run is
quiet. The refinement adds that the row of the call under `seats`, and of the
action under `operations`, is open and its effect not yet counted before its place
says so (`CallOwnsRow`, `ActOwnsRow`), and that an action on its way has not run
(`ActsArriveOnce`). `GuestIsAuthority`, `Spec => ImplementsGuestAuthority`, needs
besides that every message and every seat somebody has speaks of a lease
(`LeasesAreReal`).

**CourseGenerationProofs**: `CompletedAccepted`, `CourseComplete`, `WavesOrdered`,
`ChaptersAccounted`, `OneTaskPerRequest`. The first part (`Recorded`) follows data
and holds with any number of workers: whatever list a row or a task's frame calls
completed has been accepted (`CopiesAccepted`), a frame's course is a shell that
holds what the frame has pushed (`CoursesAreShells`), and the lists of a frame
account for its request and stay in the order of its waves (`FramesAccount`). The
second (`SingleWorker`) follows which tasks and handlers can be under way
together: a row at rest means no task (`RestMeansIdle`), a request that is alone
has one handler or one task (`HandlersAlone`, `TasksAlone`), and the row accounts
for its request before the task says that it is finished (`RowAccounts`). It needs
one worker:
`OneTaskPerRequest` has that as a hypothesis, and `course_claim` shows what two do.
The proof of `ChaptersAccounted` failed at first, for a good reason: it led to the
overlap of a cancelled and a resumed expansion that `OneAfterAnother` now leaves
out.

**InputAuthorityProofs**: `AckQuiescence`, `HeldKeysOwned`, `CleanHandoff` and
`AuthorityRefined`, `Spec => ImplementsGuestAuthority`. `AckMeansQuiescent` is not
inductive: it says nothing of the time before the acknowledgement. `IInv` adds that
the action that runs owns the control lock and the current `Event`
(`ActionOwnsAuthority`), keys wait for their release only inside a step
(`PressedInsideStep`), events that are set or acknowledged are old ones
(`EventsInOrder`), and a revoked lease with no revocation pending is quiet
(`RevokedIsQuiet`, `AckedIsQuiet`). `CleanHandoff` rests on `Activate` being the
only action that changes the lease.

**ScheduledTasksProofs**: `NotificationsBounded`, `OverrunsBounded`,
`FinishedStaysFinished`. An executor has a current task exactly in the middle of
its loop (`BusyHasTask`); notifications are counted against the executors between
notification and record, a finite set whose cardinality changes by one. So are the
copies of a row: an executor has a task once, in its batch or in its hands
(`FetchedOnce`), and an active task has a run left (`ActiveMayRun`), so that the
runs of a task and the executors that hold a copy of it (`Holders`) stay together below
the limit and the number of executors. With one executor this is the limit itself.

**SessionEventLogProofs**: `NoEventSkipped`, `GivingUpMeansContention` and
`Refinement`, `Spec => ImplementsEventLog`. The invariant has a part that always
holds (a number about to be committed is in no row and in no other call's hands,
a call with an event in the log is over) and one that holds until a prune frees
numbers (the numbers in use are the first ones without a gap; a call holds a used
number or the next; each failed try has seen one more event).

**HostedServiceProofs** holds the proofs of two components that have nothing to do
with each other; the breaker is instantiated in it, with `Threshold \in Nat \ {0}`
as the hypothesis of its two theorems (`BreakerTypeCorrect`, `ThresholdRespected`,
inductive with the types). Of the embedding spaces it proves `TypeCorrect`,
`MigrationResumes` and `CleanBackfillComplete`. The invariant has two
parts. No process is ahead of the persisted policy (`PolicyLeads`), and unless a
promotion found the registry empty, nothing of the new space is in the column
(`ColumnIsOld`). At any time, a row that has not
missed a write and has no current vector in the target space still carries the
stamp of the old one (`RestIsStamped`), what was fetched of it is its present text
(`FetchedIsCurrent`), and without a limit or a failure it is among the rows still
to do (`BackfillCoversRest`); so nothing is left when a clean one ends.

**DurableOutboxProofs**: `AtMostOnce`, `Spec => []HandedOverOnce`, and
`HeadHandedOver`, `Spec => HandsOverHead`. A message exists up to four times: on the
disk, in the snapshot, in the clone that is being written and in the frame of a
dispatch; and transactions that wait will change it later. `IInv` says of all of
them that a message belongs to one session (`OneHome`) and waits to be enqueued only
where it is not yet (`EnqueuedOnce`), that the transaction of a dispatch is the one
its session waits for (`FlightAwaits`), and that nothing is under way before
hydration (`AwaitsHydration`). A message that is being handed over, or was, is
`queued` in none of its copies and no waiting transaction makes it so
(`SendingGone`, `HandedOverGone`): `delivering` was durable before, every way to
lose the end of the turn leaves `delivering` or `uncertain`, and only a turn that
has not reported `accepted` puts the message back. The order of a queue is the
harder part, because `Hold` changes the snapshot while an older clone is being
written: until the barrier is passed, its item is the first of the snapshot or
removed (`BarrierFirst`), and what is first in the snapshot is first in the clone
(`OrderWritten`, `BarrierWritten`), since a hold changes states and never the order.
The proof failed once for a reason in the model: two arms of a `CASE` overlapped for
an enqueue to a session that has a queue already.

Only model-checked: all liveness (`CancelledActionStops`, `ShutdownCompletes`,
`CallsReturn`, `CallsEnd`, `ActiveSettles`, `NoStarvation`, `AppendEnds`,
`RecoversWithService`), which the prover does not support under fairness. Every
safety property of a passing run is proved. `GuestIsAuthority` and
the types of most modules are proved without a run of their own.

## 6. Where code and documents disagree

Two have a run that TLC ends with a counterexample; `PROJECT.json` quotes the
sentence.

- `runtime_cancel`: a cancel of an accepted start whose commit fails leaves a
  pending fact. The start compares only the row, spawns the provider, and a
  later flush commits `cancelled` over a live one.
- `course_claim`: a worker process that starts claims a job that another one is
  carrying out, because only the recovering phases are protected by their age.

The others were met while modelling, most of them as counterexamples of a
stronger form of a property; the properties are stated so that they say what
the code does promise.

*Neko runtime.* When the cleanup of a provider probe is not proven,
`mark_termination_unknown` runs while both records are `accepted`, from which the
lifecycle refuses `unknown_outcome`; the session stays open and can end as one
that permits a replacement (`runtime.rs:345`). Between `kill_all`'s drain of the
map and its kill, a cancel takes the empty map for a lost owner and records
`unknown_outcome` for a process whose termination is proven afterwards (862). A
pending fact may become one that no later flush can commit.

*Computer seat.* An activation that timed out may be handled after the seat has
been released, switched or taken over, and the guest installs the lease: it has
never seen it, so "a stale or revoked lease cannot reactivate itself"
(`docs/architecture/COMPUTER_CONTROL_ISOLATION.md`) is not enough to refuse it;
this is what `late` sets apart. The same document says that repeating a release
can reconcile an uncertain response; `release_seat` goes on for an unknown
outcome, but `mark_side_effect_started` refuses the second time, so that only a
new request identity helps. After an uncertain activation the environment is in
`unknown_outcome`: a person's takeover is refused for not being ready while
`semantic_act`, which looks at the container, goes on. An agent's seat on a
suspended container blocks every call with a barrier until a resume. A repeated
suspend, reset or revoke of a Project revokes input again before it is
recognised as a repetition.

*Outbox.* A resume that is being written opens the gate of a pause that was
called after it; a dispatch in that window hands over a message from a queue that
is paused on the disk. When `send` rejects during another transaction's write,
that transaction's older clone replaces the hold: the message is shown as being
delivered and cannot be removed or resumed until a restart.

*Course generation.* A retry reads the phase in one statement and writes it back in
the next, so that the `COMPLETED` of an expansion that ends in between becomes
`EXPANDING` with nothing working on it (`course_generation_phase_runtime.py:483`). A
crash between the flag of a cancellation and the task's `CANCELLED` leaves a job
that every later claim excludes (`course_generation_repository.py:273`). A crash
between the claim of an interrupted job and the dispatch of its recovery leaves a
fresh `RECOVERING_*` row; a process that is back within a minute does not claim it
(276), and as recovery runs only at startup, the job stays active until some later
start. A second cancel interrupts the UPDATE that records the first
(`..._phase_runtime.py:347`). A resumed or recovered expansion creates a second
course shell and pushes only the chapters that were left (188). Retry and expansion
overwrite each other's chapter lists (296), and so do an expansion that is being
cancelled and the one that resumes it: the job may say `COMPLETED` with chapters in
neither list. Waves of a second expansion do not order chapters among each other
(`engine/workflows/course_generation.py:366`).

*Scheduled tasks.* Production runs two worker processes
(`docker-compose.prod.yml:128`), each of which starts an executor
(`main_startup_runtime.py:453`), and `get_due_tasks` takes no lock
(`scheduler_repository.py:329`): both run a task that is due, and one whose last run
they have both fetched exceeds `max_runs`. A task that is cancelled while it runs
ends as completed or failed (`scheduler_repository.py:471`). `failure_count` is
never reset, so that occasional failures add up to giving up, while the comment
speaks of tasks that consistently fail. A batch is run sequentially where the class
says concurrently (`scheduled_task_executor.py:144`).

*Event log.* A prune of the newest events makes later appends reuse numbers
(`session_event_log.py:314`). A wake with nothing new returns cursor 0, and the
caller replays the whole session (`session_wake.py:336`).

*Rate limiter.* Two callers that slept for the same slot are both admitted
(`rpm_limiter.py:78`).

*Circuit breaker.* A half-open circuit lets every caller through where the text
says one (`resilience.py:206`); a late success closes a circuit that has just
opened (165).

*Embedding spaces.* The entry of the space in use is never stored
(`embedding_space_registry_service.py:323`, because of 154), so that from the
preparation on only the side table is written and read (192, 204). The
recommended step says that preparing starts dual writes without closing retrieval
(`embedding_space_migration_service.py:563`); the code writes one space, and
retrieval searches a table that is not filled yet. A promotion asks nothing of
the registry or of a backfill (532). Without a preparation it leaves the table
empty, and the process that promotes acts on a made-up entry of the new contract,
while the others keep the old one until they are restarted: one column holds
vectors of both spaces. A backfill with `limit_per_table` reports no failed rows
although it has left some out, and repeated it fetches the same ones, since it
changes nothing of what they are ordered by (187, 611). A write that comes while
the backfill holds its row's older text is overwritten in the side table, and no
later backfill repairs it, because the row has lost the stamp it selects by. For ten
seconds after preparation another process still writes the old space only
(`embedding_space_registry_service.py:174`). A request that ends between the
policy and the registry leaves a half promotion that is reported as active
(`embedding_space_migration_service.py:848`).

## 7. Not modelled

Operating-system process handling (resolution, containment) is an input of the
runtime: a termination is proven or not. The work plane, observation, OCR and
accessibility reading convert and transfer data. Renderer views and stores other
than the outbox hold no protocol state of their own; `NekoRuntime` and
`ComputerSeat` admit every sequence of calls they could make. In the hosted
service, agents, prompts, retrieval and ranking are linguistic and numerical
data with little control of their own; the HTTP surface checks and forwards;
connected accounts translate to a remote provider; scripts run once and print a
report. These are by far the largest share of the repository's lines, and a
model of them would restate single statements. Components that carry a protocol
and are not modelled yet are in the plan.

## 8. Plan

1. **ControlEvents** (`neko/journal.rs` `append_event`, `replay`, retention):
   replay cursors against pruning, a session's terminal event; a second
   implementation of `EventLog`.
2. **EventInbox** (`signal_inbox.rs`, `app_event_inbox.rs`, `app_event_pump.rs`):
   intake with deduplication, claim and acknowledge, shutdown during a long poll.
3. **StreamTurn** (`app/services/chat_stream_coordinator.py`): the merge of stream
   queues with their sentinels, and its end when a producer fails.
4. **RpmLimiter** (`app/engine/llm_providers/rpm_limiter.py`): the window under
   overlapping sleeps.
5. **PeerConnection** (`app/engine/soul_bridge/`): reconnecting transport; and the
   single-use rows of `app/auth/` (magic links, one-time codes, refresh tokens).
