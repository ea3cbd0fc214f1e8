# Formal model of yandex-disk-copy

The program copies files between Yandex 360 cloud disks, an on-premises Yandex
Disk and local storage. This directory holds TLA+ modules translated from its
source, the TLC configurations that check them, and proofs for TLAPS. Paths
below are relative to the repository (`src/` is its root in `PROJECT.json`).

## 1. Inventory

| Component | Code | State it keeps | Operations | Hard behaviour |
|---|---|---|---|---|
| Migration store | `app/migration/store.py` | SQLite rows of jobs, entries, attempts, events; one write transaction per call | job and entry updates, attempts, point retries, stop, recovery, history | a decision of the code often spans two or three transactions |
| Migration runner | `app/migration/runner.py` | clients per job, destination outages, cache reservations; the cache directory | `plan`, `step`, `_file`, point and bulk retries, cleanup | remote writes whose outcome is unknown, crash between any two commits, requests that do not take the guard |
| Worker | `app/migration/worker.py` | tasks, polls, per-job guards, acknowledged stops | scheduler thread, executor tasks, `close` | passes that work on snapshots, guards that are only tried, lanes shared with batches |
| Migration API | `app/migration/api.py` | none | user requests | full stop, pause and the retry switch take no guard; credentials are checked across an await |
| Destination client | `app/migration/destination.py` | last diagnostics | stat, mkdir, upload, move, poll | answers lost after a write, asynchronous operations |
| Source client | `app/migration/source.py` | owner token | stat, walk, download, publications | token refresh, several classes of error |
| Source slots | `app/source_slots.py` | lanes in use, lease counts | `try_acquire`, `release`, `lease` | idempotent and re-entrant users of one pool |
| Batch coordinator | `app/source_batches/*` | SQLite rows of batches, sources, entries; coordinator thread | create, plan, select, start, pause, resume, stop, recover | children driven through the migration runner, one failing destination pauses several batches |
| Retry policy, file cooldown | `app/retry_policy.py`, `app/file_cooldown.py` | a switch with a generation, a deadline per job | switch, wait, mark | a switch off and on again during a wait |
| Rate limiter | `app/throttle.py`, transport retries of `app/disk_copy.py` | next send time, cooldown of three gates | acquire, penalize, send with retries | a slot is slept for without the locks, pauses are announced meanwhile |
| Run journal | `app/run_journal.py` | SQLite rows of runs and events | create, append, finish, recover, cleanup | a crash between the last event and the final status |
| Direct jobs | `app/main.py` | `JOBS` under `JOBS_LOCK`, one thread per job | start, run, batch, complete, retry switch, cleanup, event stream | the thread, the requests and the streams meet in `JOBS` and in the journal, which is read without the lock |
| Direct copy engine | `app/disk_copy.py` | what one copier has listed, published, saved and failed; the block it lifted | `run`: token, status, unblock, three transfers, restore | any call may fail or lose its answer; two copiers share one employee |
| Formatting, UI, deployment | `app/migration/journal.py`, `diagnostics.py`, `app/static`, Docker files | none | | |

How they interact. The HTTP handlers write to the store and wake the worker.
The worker's thread reads all jobs each round, acknowledges stops, takes pauses,
reaps tasks, gives lanes back and submits one task per running job that has a
lane; a task calls `runner.step` under the job's guard. The step talks to the
source and the destination and commits its progress in small transactions.
Batches run their own thread, create managed children in the same store (which
the worker never touches: they are in `excluded_job_ids` before their lane is
leased) and step them inside `SourceSlots.lease`. Direct copies have nothing to
do with that store: a request creates a row in the run journal and a thread, the
thread runs copiers and writes events, a stream reads them.

What makes each part correct:

* **runner and store**: a file reported done is there, verified; a write that
  may still take effect is never forgotten and never sent twice; somebody
  else's file is not replaced; retries end; a full stop is confirmed and leaves
  nothing local; a crash at any point leaves a state the user can go on from.
* **worker**: a source at work has a lane, never more sources than lanes, lanes
  come back, a stop is acknowledged and forgets credentials, the guard protects
  the job's state, the scheduler survives any one job.
* **slots**: the limit, no lost lane, no lane taken from a holder.
* **batches**: only complete plans without conflicts are started and they stay
  as they are; a verdict of the group check is about the sources included by
  then; a pause begins nothing new, a stop and a new plan leave no child behind,
  a crash restarts nothing by itself; an error of one source leaves the others
  alone, and a list comes to rest.
* **direct copies**: what a copy reports accounts for every resource of the
  listing once and says "saved" only of what is there; a block that was lifted
  comes back, or somebody is told, or nobody can know.
* **direct jobs and run journal**: a run ends once and nothing is written after
  its end; a stream that reports the end has delivered everything; every stream
  ends; a cleanup leaves runs at work alone.
* **limiter and retry policy**: the slots of the requests keep the intervals
  whatever the threads do, an announced pause holds for all, a retry that was
  cancelled while it waited is never sent.

`PROJECT.json` lists the hazards at their lines.

## 2. Modules

| Module | Models | Size of its checks |
|---|---|---|
| `SourceSlots` | the pool of lanes, one action per critical section | checked inside `Worker` |
| `Worker` (extends `SourceSlots`) | the scheduler thread, the tasks, the guards and the API requests that meet them | 20 thousand and 850 thousand states |
| `FileDelivery` | the abstract job: what it promises about the files of its plan | implemented by `FileTransfer` |
| `FileTransfer` | a job past its plan: rows, scheduling step, file pipeline, retries, failures, requests, crash, and the external destination | 250 and 650 thousand states |
| `BatchCoordinator` | one list of sources: requests, coordinator thread, planning and transferring threads, children as abstract jobs, crash | 2 million and 120 thousand states |
| `Throttle` | threads that send requests through the limiter of the process and repeat them under a retry policy | 2 million states |
| `DirectCopy` | the copiers of one employee: token, status, block, three transfers, verdicts; the external directory and Disk | checked inside `DirectJobs` |
| `RunJournal` | the tables of runs and events, one operation per transaction | checked inside `DirectJobs` |
| `DirectJobs` (extends both) | the jobs of a process: start, thread, completion, retry switch, cleanup, event stream, crash and restart | 680 thousand states |
| `MCWorker`, `MCFileTransfer`, `MCBatch`, `MCThrottle`, `MCDirectJobs` | values of the constants, scenarios and symmetry | |
| `SourceSlotsProofs`, `WorkerProofs`, `ThrottleProofs`, `DirectCopyProofs`, `DirectJobsProofs`, `BatchProofs` | theorems for every value of the constants |  |
| `FileTransferProofs`, `FileTransferTheorems` | theorems of `FileTransfer`: the inductive invariant with the steps of the runner; the other steps, the properties and the refinement | |

`Worker` composes with the pool by extension: its variables include those of
`SourceSlots`, each step of the scheduler or of a task that touches a lane *is*
the action `TryAcquire`, `Release` or a leaser's step. `FileTransfer` is what
`StepBegins`/`StepEnds` of `Worker` abstract: there a step only keeps a job
running or parks it, may leave an active entry, may drop credentials, and may
raise. `BatchCoordinator` abstracts the same step for a managed child: there it
begins an object, ends one, or ends the queue. `DirectJobs` composes with the
copiers and the journal by extension: a step of a copier that ends a resource
*is* a step of `DirectCopy` together with an `AppendEvent` of `RunJournal`, or with
an event that could not be written.

A definition that stands just before the one whose name it begins like, and is
used nowhere else (`AdmitsOneMore` before `Admits`), is a seeded defect. Put in
its neighbour's place it must break a property; `PROJECT.json` lists which under
"mutants". Read the modules without them.

### SourceSlots

`owners` is `_owners`, `leases` is `_leases` (zero for an absent key), `thread`
tells where each thread stands in `lease`: idle, polling in the loop, inside
the `try`. `Admits` is the test of `try_acquire`; `ExitLease` is the `finally`
block. That the worker never acquires an owner somebody leases is an assumption
(`Jobs \cap LeaseOwners = {}`); it holds because a child is created in state
`planning`, is excluded before its first lease and owners of batches and local
saves have prefixes of their own.

### Worker

| State | Code |
|---|---|
| `jobs[j]` | the row: `running` (or queued), `stopped`, or parked (all other states); `stop`, `pause` requests; `busy`: some entry is active |
| `task[j]` | the future in `_tasks` and where `_advance` stands; `exc`: it ended with an exception |
| `guard[j]` | who holds the re-entrant lock of `job_guard` |
| `sched` | the pass of `_run`, the jobs it has still to visit, the snapshot it works with |
| `clients`, `delayed`, `service` | credentials and clients in memory, `_polls`, `close` |

One action per pass and job: `StopPass` and `PausePass` try the guard and skip a
job that is taken; the pause is split into the check (`PausePass`) and the write
(`PauseWrite`), since requests without a guard come between; `Reap`,
`LockFailed`, `MarkFailed` are the three parts of the handler of a failed task;
`ReleasePass` gives back the lanes of jobs that do not run in the snapshot and
have no task; `SubmitPass` takes a lane and submits. `Enter` to `GiveBack` are
`_advance` with its `finally` clause, which reads the job without the guard.
`update_job` refuses to move a job with a stop request (`WriteState`): in the
scheduler thread the exception ends the thread (`dead`).

Abstractions: the order of jobs by creation time is any order (more
behaviours); `stop_job` is one step since it runs under the guard; a poll delay
is present or not; awaiting credentials with a pause only changes
`resume_state`, which the scheduler reads as parked.

### FileTransfer

| State | Code |
|---|---|
| `job` | the row of `jobs`: state, resume state, pause, stop and retry flags, namespace state, origin of the point retry |
| `ent`, `att` | rows of `entries` and `attempts`, with the cached copy of each attempt (none, named but gone, partial, complete) |
| `run` | which call holds the guard and where it stands; lost in a crash |
| `mem` | credentials and outage map; lost in a crash |
| `cancels` | point retries the retry switch has still to finish after its own commit |
| `dest`, `temp`, `wire` | the destination: content under the final name, under the temporary name of each attempt, and the write request of each attempt the server may still carry out |
| `source` | whether the source still matches the plan |

Each action is one transaction or one remote request with the reads around it.
The guards are the early returns of the code in their order; every place where
`_checkpoint` or `_logged` raises on a stop is in `Guarded`. A remote write
(`Put`, `Move`) is carried out, accepted as an operation, refused, or cut off:
then it took effect, left a partial file, is still to come (`Land`), or is gone.
`CrashRestart` may happen anywhere: it drops `run`, `mem` and `cancels` and
applies `recover`, `cancel_local_entries` and `cleanup` as the start-up does.

The retry switch withdraws scheduled point retries in transactions of their own
(`cancels`, `CancelPoint`). Steps of the runner, a stop and a crash come between
them; another handler of the API does not where both are coroutines of one event
loop that await nothing between their transactions: the switch again
(`EnableRetry`, `DisableRetry`), `BulkRetry`, `PointRetry`.

Error codes are reduced to the nine classes the handlers tell apart (`Errors`).
Pairs of transactions that nothing can come between in an observable way are
one action (recording the upload, the intent of a move, the final state).
Outside the module: planning and queued jobs, directories, publications, the
20-second pause, reservations of several downloads, the url strategy and the
normalisation of rows of older builds, exceptions other than `MigrationError`,
`job_stopped` and `attempt_not_retryable`, the short difference between the
persistent retry flag and the in-memory policy, `request_stop` (nobody calls
it). Others add files to the destination under free names and change sources;
they do not delete or overwrite: otherwise "done" could not mean "there".

### FileDelivery

The promise of a job without attempts, phases, caches, retries and crashes:
`held` are the files the destination holds as the plan describes them,
`progress[f]` is what the job knows of a file (waiting, working, delivered,
settled), `verdict` whether the job is over and how. One file at work at a time;
`Deliver` needs the file to be held, and a held file that is delivered does not
vanish; `Verdicts` says which verdict is allowed: completed only when all files
are delivered, ended with issues only when none is at work, stopped only when
nothing waits or works, and a stopped job stays stopped.

`FileTransfer` implements it (`DeliverySpec`) under the mapping at its end:
`held` is where the destination has the file of the plan; a file is at work when
its entry is active or a point retry of it is open, delivered when its entry says
so, waiting when it is planned; the verdict is the state of the job between two
steps, since `finish_point_retry` and `retry` write the state in a transaction
before those of the entries. Every step of the detailed module is one abstract
step or none, crashes and recovery included.

### BatchCoordinator

| State | Code |
|---|---|
| `mode`, `list` | the row of `batches`: state, resume state, `started`; `outage`: its error is one of a destination that is out |
| `src[s]` | the row of `sources`: state, selected, `plan_complete` (`planned`); `plan`: what the inventory holds (conflicts, nothing to do, objects); `fixable`: its error is none or a conflict; `left`, `bad`: objects still to copy, one of them failed |
| `child[s]` | the job in `MigrationStore`: state, resume state, pause, full stop, plan complete, `busy`: an object has begun |
| `thread[s]` | the future in `_active`: where `_plan_one` (`p_`) or `_transfer_one` (`t_`) stands, what it has read and not yet used |
| `loop` | where `_run` stands, with the state it has read of the list |
| `check`, `asked` | a group check in flight: still `fresh` (`updated_at` has not changed), its verdict, the sources it looked at; a selection that has yet to run its check |
| `creds`, `retry[s]` | credentials in memory; a retry or resume of the child between its three calls |
| `word` | history, for properties only: what came last, the answer to a pause or a stop, or a crash |

`guard` is held for the whole of a request and for a pass: `loop.pc = "pass"`
between what a pass reads and what it does. Everything the threads do outside of
the guard is a step of its own, so a request can come between any read and the
write based on it: `ReadChild`, `NoteChild`, `NoteList`; `ReadOutage`,
`PauseDestination`, `PauseSource`; `TransferInterrupted` and the write after it.
A request that fails halfway keeps what it has written: `Plan` at a busy source,
`Stop` at a completed child, `Resume` and `AttachCredentials` at a child that is being
stopped (`Attached`: the children before it have their credentials); `Crash`
may cut `start_transfer` after any of its sources. The check is taken with the
guard, runs without it and ends with it (`EndCheck`): its verdict is dropped when
the row was written meanwhile. `QueueChildRetry` and `ActivateChildRetry` are the
handlers of `migration/api.py` for a job of a list, the second after the guard of
the child is free again.

Abstractions: one list, so a destination that is out pauses its own list only;
lanes are granted at any time (a run needs as many as it has threads,
`SourceSlots` has the rest); the retry switch is on or off as an object fails or
reports an outage; the local journal, the 20-second pause, `close` and the
reports are left out. Two writes of the list have different `updated_at`: the
clock has microseconds and every write is a transaction on disk.

### Throttle

| State | Code |
|---|---|
| `now` | the monotonic clock; intervals, delays and slots are numbers of its unit |
| `next[g]`, `blocked[g]` | `_next_slot` and `_blocked_until` of the gates read, write and total |
| `policy` | the `RetryPolicy` of one job: its switch, and how often it was turned off |
| `thread[t]` | where the thread stands in `send`, with its locals: the slot it holds, attempts of the session (`tries`) and of urllib3 (`inner`), the delay, the generation its wait began with |
| `sent`, `quiet`, `cut` | history, for properties only: slots used, the end of the longest announced pause, a retry that was waiting when retries were turned off |

`Reserve` is the block under the three locks; `WakeUp` and `Recheck` are the
sleep without them and the look at the barrier after it. `penalize` takes one
lock after the other, hence three actions. The switch is read, then the
generation, then the wait begins (`Settle`, `NoteGeneration`, `Retry`); the
first attempt of a request is not bound to the switch. A broken connection is
repeated inside of an attempt by `_ObservedRetry`, with a wait and a slot of its
own (`Lost`). A thread with a download session (`Downloads`) reads only and
repeats nothing.

Abstractions: the limiter without a total gate, by which the destination client
keeps two lanes apart (`destination.py` 55-64: the same reservation with one gate
instead of two); the session without a policy, which only tests use; Retry-After and the back-off are any delay of a set; a sleep ends as
soon as its time has come or the switch cancels it; `pause` of one thread. The
model spaces *slots*: a thread the system delays between its slot and its request
may still send close to the next one, in the code as in the model. What
`save_local` does around a request (its own attempts of a whole file, a second
`penalize`) is part of one step of `DirectCopy`. The clients of the migration take slots of
such limiters in loops of their own (`source.py` 86-150), with checkpoints
before the first attempt too; they are not modelled here.

### DirectCopy

| State | Code |
|---|---|
| `given` | the kind of copy, what the source path lists (nothing when it does not exist), whether the employee was active |
| `pc[c]` | where `DiskCopier.run` stands: token, status, unblock, a phase of the transfer, restore, or an end |
| `todo[c]` | the resources the current loop has not handled |
| `book[c]` | the lists `links`, `fails`, `skipped`, `unconfirmed`; `unpublished[c]` is `_failed_publications` |
| `retry[c]`, `banNeed[c]` | the switch of the job, and that this copier lifted the block |
| `owner`, `published`, `target[c]` | the servers: the employee's `isEnabled`, resources with a public key, what the destination holds |
| `warned`, `patchLost` | history: a journal asks for a block by hand; an answer about the block was lost |

A step is one request with the code around it. A personal Disk: `Publish` for each
resource, `Collect` (get_links), `EnsureFolder`, then for each link `SaveLink`,
`Poll` for an accepted operation, or `CopyFileBytes` for a dead link. A shared
disk: `EnsureTree`, then `PublishOne` and `UploadOne` per file. The machine: `Visit`
walks and creates directories, `Download` takes a file. `Abort` is any exception
that escapes; `Restore` is the finally clause. Calls on the source work only
while the employee is active, so a copier whose employee is blocked again under
its feet fails, as in the service. The switch decides whether a refused
publication is passed over or final, and whether a dead link is replaced by bytes.

Abstractions: attempts repeated within one call (session, 401 refresh, download
loop, polling) are one step with the outcome of the last; pages, pauses and the
space check are waiting or `Abort`; a directory copied to the machine holds one
file that stands for it.

### RunJournal and DirectJobs

| State | Code |
|---|---|
| `rows[r]`, `events[r]` | the tables of `RunJournal`; an event is the kind of its payload, its number the index |
| `jobs[j]` | `JOBS`: status and `journal_error` in memory |
| `thread[j]` | `_run_job` or `_run_batch`: at work, between the two halves of `_complete_job`, over |
| `locked` | the job whose thread holds `JOBS_LOCK` |
| `journal` | open, unavailable after a failed start of the process, or no process |
| `reader` | one event stream: place, cursor, status of the last snapshot, what it told the client |
| `missed` | history: runs of which some event could not be written |

Every transaction of the journal happens whole or raises. `LogEvent` marks the job
when an event is not written. `Finish` and `Complete` are the halves of
`_complete_job`: the row first, or `journal_error` when that fails, then the status
in memory, under one lock. `ReadPage`, `Snapshot` and `Recheck` are the loop of the
stream, of which only `Snapshot` takes the lock. `Cleanup` deletes the rows of the
mode unless one is running and not known to be over in memory; its VACUUM may fail
after the commit. `Crash` loses `JOBS`, threads and copiers; `Restart` recovers the
rows, or serves without a journal.

Abstractions: all jobs belong to one mode; one stream; the retry setting is one
event; a batch runs its pairs at any pace (the limit on those at work at once
only orders them).

## 3. Runs

| Run | Question | Bounds |
|---|---|---|
| `Worker` | the pool's limit and lease counts, the lane of a task, never more sources than lanes, close | 2 jobs, 2 threads that lease the same owner, 2 lanes, 1 request |
| `WorkerLiveness` | credentials after a stop, the guard; lanes return, stops are acknowledged, running jobs are stepped | 1 job with its lane, 3 requests |
| `SchedulerDies` | *violation*: see 5 | 2 jobs, 2 requests |
| `OneFile` | the abstract job is implemented; verification, writes in flight, foreign files, credentials; a running job comes to rest, a full stop is confirmed | both kinds of destination, 1 file, 2 downloads, 2 point tries, 3 attempts; three scenarios: 2 requests and a crash; 1 request and a foreign edit; under a technical root 1 request, an edit and a crash |
| `TwoFiles` | the abstract job with one file at a time, quiet stop, kept cache | 2 files, 1 download, 1 point try, 3 attempts; a crash with one request or one edit |
| `Batch` | only complete plans are started and run; verdicts are current; no child left behind by a new plan or a stop | 2 sources with children of a ready list, 3 requests, 1 crash |
| `BatchLiveness` | pause, crash, rest | 1 source, local and with a child, a new and a ready list, 2 objects, 4 requests, 1 crash |
| `CoordinatorDies` | *violation*: see 5 | 1 source, 3 requests |
| `Throttle` | intervals, announced pauses, cancelled retries | 2 threads, an API session with 2 attempts and a repeated connection and a download session, 2 requests, 1 switch; intervals 1, 2 and 1, delay 2, pause 1 |
| `Direct` | results account for all resources, the block comes back, a run ends once, a stream is complete and ends | 2 copiers of one employee as a batch, two jobs or one; 2 resources, one of them a directory; eight scenarios of up to 2 requests and 2 mishaps; pages of 2 events |
| `Stranded`, `ForeignReplaced` | *violations*: see 5 | 1 file; 2 requests and a crash, 1 request and a foreign edit |

`Scenarios` of `FileTransfer` and `DirectJobs` bound which budgets are combined:
each scenario gives what it may spend of requests, changes by others and crashes.
`direct` says which kind of destination: `TRUE` for files under their own names in
a shared one, `FALSE` for a technical root (jobs of older builds and of a
configured root) with the temporary name and the move.

Why the bounds are enough. Every interesting race of the transfer is between the
runner and one other party: a request, a crash, a late write, a foreign file.
Two requests and a crash give a stop or a switch of a retry that follows the resume
after the crash; three attempts give a retry of an interrupted upload and a retry of
that one, so that `_point_overwrite` has a history to read that is not the attempt
just before; one crash suffices for every window between two commits, and the state
after recovery is again a state crashes may hit. Two files are needed only for what
relates files: the selection of the next one and the shared cleanup. That longer
sequences of requests, edits and crashes change nothing for the safety properties
is what the theorems of section 4 add. In the
worker a second job is needed for the passes (a snapshot is stale because
another job was visited in between), a third source for the pool, two threads of
one owner for nested leases. Three requests to one job give a stop during a check
of credentials after a pause or a resume.
For lists, two sources are needed for what relates sources: a group of which one
is planned again, a request refused at the second, an outage that pauses a
sibling. Three requests and a crash give a plan made anew between two starts;
four requests to one source give a pause, a resume, a stop and a retry around one
transfer. `Batch` begins with a list that is ready, which saves the requests that
lead there; `BatchLiveness` also begins with one just created.
In `Throttle` two requests give a slot that is slept for while the other thread
announces a pause; one of the threads repeats its request after a refusal and
after a broken connection; the interval of the mutations is longer than that of
the process, so the two gates of a lane disagree; the cap on a pause is below
the delay. Time passes only while somebody sleeps (`MaxTime = 0`): a thread that
finds the gates idle is the beginning of the run.
In `Direct` a mishap is a journal operation that fails, a VACUUM that fails, a
thread that cannot start, or a crash; failures of the servers are not bounded. The
interesting meetings are pairwise: two copiers of one employee (every outcome of
two whole copies, no mishap), a copy with its retries switched or cut by a crash
(one copier), and requests and mishaps around jobs that copy little (a crash and
a failing journal, a cleanup and a retry). With pages of two events and runs of up
to seven a stream takes several pages, and a run ends between any two of them. Two
resources give a directory and a file, one that fails and one that is saved, one
that was there beforehand.
`CHECK_DEADLOCK FALSE` stands where the system stops: after `close`, when the
scheduler or the coordinator has died and the requests are used up, or when every
run and its stream are over.

Fairness. `FairSpec` of `FileTransfer`: the worker's threads keep stepping
(`WF` of the runner: the executor and the scheduler loop run for ever while the
service is open), accepted operations end, timers fire, `set_retry_enabled`
finishes its loop. Nothing is assumed of users, crashes or faults. `FairSpec` of
`Worker`: the scheduler, the tasks, a credentials check (bounded by its request
timeout), poll delays and `close` go on; nobody has to make a request or to
leave a lease. `WorkerLiveness` therefore has no leasing thread: a batch may
keep a lane as long as it works. `FairSpec` of `BatchCoordinator`: the coordinator,
the threads, a check in flight and the second half of a retry go on. Strong
fairness stands for the steps that wait for the list's guard: the coordinator
waits for up to 0.2 s without it between two passes (`wake.wait`), so a thread that
waits for it gets it. No request and no recovery of a server is assumed; an
object ends because every call of the clients has a timeout. `FairSpec` of
`DirectJobs`: threads run on (a call to a server returns, fails or times out, and
loops are over finite listings) and the loop of the stream goes on. Nobody has to
start a job, to open a stream or to come back to one, and nothing is assumed of a
process that died: a stream ends or is cut with the process.

## 4. Proofs

Eight modules (`...Proofs` and `FileTransferTheorems`) are checked by `tlapm`. They
use the named assumptions on the constants only: jobs are not lease owners, the sets
of jobs, threads, owners and sources are finite, limits are positive; natural numbers
for the clock; a finite set of numbered resources of which every listing is a part;
`NoFile` is no file and the budgets of a scenario are numbers. No bound of a run is
needed: there may be any number of files, attempts, sources, requests and crashes.

Every invariant and every action property of a passing run is a theorem, and so is
the refinement `DeliverySpec`. None of those beyond a few types is inductive. What
each proof adds is below.

* *Slots.* The inductive invariant joins the domains, the limit and
  `NoLeakedLane`: without the count of the threads inside a lease nothing rules
  out that the last exit of one thread takes the lane of another.
  `CountsKeepLanes` derives `LeaseKeepsLane`; lemmas about cardinalities of the
  holders carry the count through an entry and an exit. Theorems: `LimitHolds`,
  `NoLeak`, `TypeCorrect`, `LaneKept`.
* *Worker.* `StepHoldsLane` is not inductive: the release pass works through a
  set chosen when it began, and the reap handler releases a lane before it
  forgets the task. `SurplusIsTaskless` says that no job in that set has a task
  (only the scheduler submits, and it is busy releasing); `InHand` says that the
  task being reaped is done; `ClosedForGood` keeps the shutdown quiet. With the
  pool's invariant these are inductive (`IInv`), one lemma per group of actions.
  Theorems: `TasksHoldLanes`, `SourcesBounded` (tasks and leasing owners are
  distinct members of `owners`, hence at most `Limit`), `CloseIsQuiet`,
  `WorkerTypeCorrect` (with the bound on tasks), `StatesAreGuarded`.
  `StoppedAreForgotten` needs `StopInv` besides: a stopped job was asked to stop, no
  handler is about to store credentials of it, and the pass of the stops visits only
  jobs that were asked.
* *Throttle.* None of its properties is inductive. `Paced` needs `Reserved`: every
  slot held or used lies an interval below the next free one, in its lane and in
  the process, and a pause only moves the free ones back (`SlotsKept`), so a new
  slot is apart from all (`ReserveApart`, `SendOutApart`). `CooldownKept` needs
  `Announced`: between the three locks of `penalize` the clock only runs on, so
  the gates are never told a shorter pause than was computed. `CutStaysCut` needs
  `CutOff`: the generation a cancelled wait began with has passed and does not
  come back. `Counted` bounds the attempts. Theorems: `RequestsPaced`,
  `CooldownHolds`, `CancelledNotSent`, `ThrottleTypeCorrect`. The constants are
  any naturals, the intervals positive.
* *The block of the employee* (`EmployeeIsRestored`). `OwnerRestored` speaks only of
  moments when all copiers rest. The invariant says what holds in between:
  `BlockIsGiven` (only copies of a blocked employee come near the block, and who
  restores has lifted it) and `LiftedIsOwed` (an employee who is active and was not
  has a copier that will restore, or one of the exceptions). `Restore` is the
  delicate step: the copier stops owing in the step that pays, warns, or loses the
  answer.
* *Accounting* (`FilesAreAccounted`). `Accounts(c)` says per phase what a copier has
  written down: nothing before the transfer, the failed publications while links
  are made, the collected links until the folder exists, and in the loops that the
  lists and `todo` divide the listing (`Divides`) and that what is saved or skipped
  is placed. It needs that only resources of the listing get a public key.
  `CHOOSE` of the first resource of a loop is a member by well-founded induction on
  the numbers (`WellFoundedInduction`); one lemma per phase, and one
  (`SettleKept`) for the end of a resource.
* *A run ends once* (`RunsEndOnce`). `EndsOnce` alone is not inductive: it needs that
  a thread at work has a running row and a running job (`WorkIsRunning`), that a
  running job has a thread and the thread about to complete it holds the lock alone
  (`RunningHasThread`), that nothing is known of a run nobody started, and that a
  row that is over says whether events are missing.
* *The stream* (`StreamsAreComplete`). `MemoryIsWritten` connects `JOBS` with the
  row: a job that is over in memory with all its events written is over in its row
  with the same status, and such a row has its final event. `Follows` bounds the
  cursor, `SawTheEnd` says that a status seen at the snapshot is still that of the
  row at the second look, `SaidTheEnd` keeps the answer true: nothing is added to
  a run that is over, which is `RunsEndOnce` again.
* `DirectTypeCorrect` joins the domains of all of them: all five invariants of the
  run `Direct` are theorems.
* *The transfer* (`FileTransferProofs`, `FileTransferTheorems`). `IInv` has three
  parts. `FileInv` is what the rows of one file say of each other: nothing is
  written past the last attempt (`RowsInOrder`), the phase of every attempt tells of
  the request the server may still carry out (`RequestsKnown`), and the entry agrees
  with its attempt and its place at the destination (`EntryAgrees`). `Holder`,
  `PhaseAtStep` and `RequestAtStep` say of each point of the pipeline which file the
  holder of the guard works on and what its rows and its request are by then.
  `JobInv`, `BulkInv` and `PointInv` are about the parties that take no guard: when
  the job may be stopped, over or without credentials, and what the bulk retry and
  the withdrawn point retries may count on. One lemma per action shows that the new
  rows fit; `Types`, `VerifiedAlways`, `InFlightAlwaysRemembered`,
  `CredentialsAlwaysHeld`, `StoppedAlwaysQuiet` and `OneFileAtATime` follow from it.
* *What a step of the transfer may do.* `AttemptsSentOnce`, `CopiesAlwaysKept` and
  `ForeignAlwaysKept` follow from footprints of all the actions, proved once:
  `Touches(f)` and `Advances` say how rows may change, `KeepsForeign` when a foreign
  file may go.
* *The refinement* (`ImplementsDelivery`). Each step is a step of `FileDelivery` or
  none (`Moves`), and the verdict fits the progress of the files in every state
  (`VerdictFits`). `IInv` is not enough: `PlannedIsFresh` says that a file that waits
  for its turn waits for no download, so that the switch withdraws at most the file
  at work; otherwise one step of the code would settle two files.
* *The list of sources* (`BatchProofs`). `SourceFits` relates the row, the child and
  the thread of one source to the list: what a plan says by the time it is written
  (`PlanFits`), what belongs to a local source (`ModeFits`), what a transferring
  thread may assume (`WorkFits`), and what still holds after the last answer
  (`WordFits`). A step of a thread changes one source, so that the invariant of the
  others follows from what the list may do (`OneSourceMoves`). `ListInv` has the
  fence of the group check: as long as it is `fresh`, what it looked at is what is
  included. `VerdictsAreCurrent`, `StartsAreComplete` and `StopsReach` follow;
  `PausedBegins` and `ReplacedAreStopped` are shown action by action (`Quiet`).
  `AfterCrashNothingRuns` has an invariant of its own, `UnaskedInv`: until the user
  asks, each child that runs is being stopped.

Not proved, and why. The seven liveness properties `LaneReturned`,
`StopAcknowledged`, `RunningIsStepped`, `RunEnds`, `StopEnds`, `ComesToRest` and
`StreamEnds` stay with TLC: the prover has neither `ENABLED` nor fairness. The four
properties of the violation runs are false. Nothing in the models is recursive.

## 5. What the runs found

* **The scheduler thread can end** (`SchedulerDies`). `_pause_idle_jobs` checks
  for a stop and then writes the pause; a full stop between the two makes
  `update_job` raise, and `_run` catches nothing (`worker.py:189-205`). The
  handler of a failed task has the same window (`worker.py:227-230`).
* **A job can run for ever without doing anything** (`Stranded`). A crash
  between the two transactions of `_failure` (`runner.py:1121-1122`) leaves an
  active entry with an abandoned attempt; no branch of `_file` handles it, and
  the point retry the documentation recommends is refused. The same crash after a
  bulk retry with a complete copy leaves a planned entry in that state.
* **A point retry can replace a foreign file** (`ForeignReplaced`).
  `_point_overwrite` allows any file to be replaced once the entry has an
  ambiguous attempt; the documentation excludes foreign files.

* **The coordinator thread can end** (`CoordinatorDies`). The handler of a failed
  planning writes `needs_attention` to the child without a try block
  (`service.py:461-463`). A pause during the planning leaves the stopped child in
  the row; if the planning after the resume fails before a new child exists, the
  write raises, `future.result()` (`service.py:866`) raises again, and the only
  thread that serves the lists is gone. A stop at the right moment does the same.

`RunEnds` in `OneFile` therefore says that a running job rests *or is stranded* in
exactly that way (`Stranded`), so that any other endless run is still found.

A second window of the same kind is reachable in the model and has no property
yet: a crash inside the bulk retry (`BulkAttempt`, then `CrashRestart`; in the
code between `runner.py:1595` and `:1602`) leaves a failed entry with a fresh
attempt, which the next bulk retry refuses with `attempt_not_retryable`
(`store.py:1377`) and the point retry refuses for its phase (`store.py:22`).

What the refinement showed about single files: an entry that is already verified can
be declared failed again. A crash after the verdict of a point retry and before
`finish_point_retry` (`runner.py:781`, `:895`, `store.py:1316`) leaves the request
open; the resumed job repeats the point step, and an error of the destination
writes "failed" (`_point_failure`, `runner.py:960`). The mapping therefore counts a
file with an open request as being at work, whatever its entry says.

What the model of the direct copies does, without a run of its own:

* Of two copiers of one blocked employee the first to finish blocks the employee
  again (`disk_copy.py:1823`) while the other, which found the employee active
  (1765), still copies and then fails.
* The finally clause catches `CopyError` only (`disk_copy.py:1824`): when the
  request for the block ends in a transport error, nothing asks for a block by
  hand, although `docs/INSTRUCTION.md:49` promises it, and that error replaces the
  transfer's own. A lost answer to the request that lifts the block (1767), or a
  crash, leaves the employee active and nobody is told. `OwnerRestored` therefore
  excepts `patchLost` and copiers that died with the process.
* When the row of a run cannot be finished, it stays "running" while the job is
  over; the next start calls it interrupted. When the VACUUM of a cleanup fails, the
  rows are gone and the jobs stay in `JOBS` (`main.py:1025-1029`).
* A personal path that does not exist is a copy of nothing that ends well.
* Not in the model, seen on the way: the resume of a list of local sources creates a
  new row in the journal (`source_batches/service.py:776`) while a thread still in
  flight goes on with the old identifier (1041); the new row then stays "running"
  until a restart, and a cleanup of that mode is refused (`run_journal.py:346`).

What the model of the lists does besides, without a run of its own (paths are
`app/source_batches/service.py`):

* The transferring threads write the list without the guard (924-925, 957-961,
  969): a stop confirmed in between is overwritten by "paused" or "awaiting
  credentials", and the list can be made to run again although its children are
  stopped for good; its thread then goes round without doing anything.
* A pause and a resume before the thread has handled its `Interrupted` leave the
  source paused in a list that runs (914-918): no pass ever submits it again.
* A stop that meets a future which is done but not yet reaped, or which it
  cancels, only flags the child; nobody calls `stop_job` (791-797).
  `ObeyedStopReaches` therefore says "being stopped".
* A completed child refuses the full stop (`migration/store.py:695-706`), and
  `stop` ends halfway: later sources are not stopped, the credentials stay.
* A crash between the creation of a child and the `finally` of its planning leaves
  a child of a stopped list that is not stopped.

* A list that was stopped for only some of its sources can end, crash, and be reopened
  for the child that still runs (877-881). `stop` refuses at a completed child, the
  earlier ones are being stopped; another thread's note overwrites the stop with
  "paused", a resume lets the list complete, and after a crash the coordinator finds
  the running child of a completed list, sets the list running and submits a thread,
  which nobody has asked for. It takes three sources, more than `Batch` has, and
  some forty steps: the attempt to prove that nothing runs after a crash found it.
  `NothingRunsUnasked` therefore excepts a list with a child that is being stopped,
  and says of the threads that they only serve such children.
* `attach_credentials` too ends halfway when a child that is being stopped refuses.

`ComesToRest` therefore excepts `Lost`: the dead coordinator, the source paused in
a running list, the stopped list made to run again. Without any one of the three
it is violated; with them it finds every other list that never rests.

## 6. Not modelled, and plan

Done: the pool, the worker with its lanes and stops, the transfer of files with
its retries, stops and crashes and the abstract job it implements, a list of
sources, the limiter with the retry policy, the direct copies with their jobs,
journal and streams; proofs of all safety properties the runs check.

Not modelled:

* File cooldown (`app/file_cooldown.py`): a deadline per job that delays a step and
  changes nothing it does.
* Journal and diagnostics of the migration, the web interface, the deployment:
  formatting and presentation, no state of their own.
* Requests that only read, the export of a journal to CSV and its redaction, the
  validation of requests; the status requests that mark `journal_error` outside of
  a stream.
* The planning of a migration, its selection, publications and directories; the
  cache budget of several downloads; several lists in one outage; the history that
  lists of local sources share with local copies.

Next, in this order (the runs are kept few: a new property joins the run whose
bounds already reach it):

1. `PlanSelection` (planning, selection of entries, freeze, start, restart) and
   `CacheBudget` (reservations, cleanup against lists), with their invariants proved.
2. Theorems about what the exceptions say: that a job that rests although it runs is
   `Stranded`, that a list that rests is `Lost`, as far as they are invariants.
3. The guards of the migration API keyed by thread, with handlers that await as
   processes.
4. The journal of lists of local sources, on top of `RunJournal`.
