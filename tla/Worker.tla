------------------------------- MODULE Worker -------------------------------
(***************************************************************************)
(* MigrationService (app/migration/worker.py): the one scheduler thread,   *)
(* the executor's tasks that step the jobs, the per-job guards, and the    *)
(* API requests that meet them.  The lanes are the pool of SourceSlots,    *)
(* shared with the threads of batches and local saves that lease theirs;   *)
(* Jobs are the standalone jobs, those outside excluded_job_ids, and Limit *)
(* is the executor's max_workers as well.                                  *)
(*                                                                         *)
(* A job is what the scheduler reads of it: running (or queued), stopped,  *)
(* or parked, which is every other state; whether a full stop or a pause   *)
(* is requested; and whether an entry is active.  What a step does to the  *)
(* files is the module FileTransfer.                                       *)
(*                                                                         *)
(* A definition just before the one its name begins like, and used nowhere *)
(* else, is a seeded defect: in its neighbour's place it must break one of *)
(* the properties.                                                         *)
(***************************************************************************)
EXTENDS SourceSlots

CONSTANTS
    NoJob,          \* not a job
    MaxUser         \* bound: requests of the user

ASSUME WorkerAssumption == NoJob \notin Jobs /\ MaxUser \in Nat

VARIABLES
    jobs,       \* the rows of "jobs"
    task,       \* _tasks: where the task of each job stands
    guard,      \* _job_locks: who holds the guard of each job
    sched,      \* where the scheduler stands, with its snapshot of the jobs
    clients,    \* jobs with credentials and clients in memory
    delayed,    \* jobs whose next poll of an operation is not due
    service,    \* "open", "closing" once close() has set the stop event, "closed"
    requests    \* requests the user may still make

vars == <<jobs, slots, task, guard, sched, clients, delayed, service, requests>>

JobRows == [st : {"running", "parked", "stopped"}, stop : BOOLEAN, pause : BOOLEAN,
            busy : BOOLEAN]
TaskPCs == {"none", "queued", "entered", "stepping", "after", "final", "giveback", "done"}
SchedPCs == {"top", "stop", "pause", "pausing", "reap", "lock", "mark", "release",
             "submit", "dead", "ended"}
TaskRows == [pc : TaskPCs, exc : BOOLEAN]
SchedRows == [pc : SchedPCs, todo : SUBSET Jobs, snap : SUBSET Jobs, job : Jobs \cup {NoJob}]
GuardHolders == {"free", "task", "sched", "api", "put"}

\* From the submission until the finally clause the task works for its source.
Working(j) == task[j].pc \in {"queued", "entered", "stepping", "after", "final"}
Tasks == {j \in Jobs : task[j].pc # "none"}

NoTask == [pc |-> "none", exc |-> FALSE]

Init ==
    /\ jobs \in [Jobs -> [st : {"running", "parked"}, stop : {FALSE}, pause : {FALSE},
                          busy : {FALSE}]]
    /\ SlotsInit
    /\ task = [j \in Jobs |-> NoTask]
    /\ guard = [j \in Jobs |-> "free"]
    /\ sched = [pc |-> "top", todo |-> {}, snap |-> {}, job |-> NoJob]
    /\ clients = {j \in Jobs : jobs[j].st = "running"}
    /\ delayed = {}
    /\ service = "open"
    /\ requests = MaxUser

----------------------------------------------------------------------------
(* What the scheduler does in one round. *)

\* runner.stop_job and the acknowledgement: state, entries, clients, in one
\* section under the guard.  A stopped job is an acknowledged one.
StopsJob(j) ==
    /\ jobs' = [jobs EXCEPT ![j] = [@ EXCEPT !.st = "stopped", !.pause = FALSE, !.busy = FALSE]]
    /\ clients' = clients \ {j}
    /\ delayed' = delayed \ {j}

Done(j) == sched' = [sched EXCEPT !.todo = @ \ {j}]
TakeUp(j, pc) == sched' = [sched EXCEPT !.pc = pc, !.todo = @ \ {j}, !.job = j]
Reread(pc, todo, snap) == sched' = [sched EXCEPT !.pc = pc, !.todo = todo, !.snap = snap]
NextPass(pc, todo) == sched' = [sched EXCEPT !.pc = pc, !.todo = todo]

StopsOfRunning == {j \in Jobs : jobs[j].stop /\ jobs[j].st = "running"}
StopRequested == {j \in Jobs : jobs[j].stop}

\* The first reading of the jobs: the stops, and the pauses in "snap".
BeginRound ==
    /\ sched.pc = "top"
    /\ IF service # "open" THEN sched' = [sched EXCEPT !.pc = "ended"]
       ELSE Reread("stop", StopRequested,
                   {j \in Jobs : jobs[j].pause /\ jobs[j].st = "running"})
    /\ UNCHANGED <<jobs, slots, task, guard, clients, delayed, service, requests>>

\* A pass skips a job whose guard is taken.
TryLockIgnored(j) == TRUE
TryLock(j) == guard[j] = "free"

\* _stop_requested_jobs
StopPass ==
    /\ sched.pc = "stop"
    /\ \/ \E j \in sched.todo :
            /\ Done(j)
            /\ IF ~TryLock(j) \/ jobs[j].st = "stopped"
               THEN UNCHANGED <<jobs, clients, delayed>>
               ELSE StopsJob(j)
       \/ /\ sched.todo = {}
          /\ NextPass("pause", sched.snap)
          /\ UNCHANGED <<jobs, clients, delayed>>
    /\ UNCHANGED <<slots, task, guard, service, requests>>

Runs(row) == row.st = "running" /\ ~row.stop

\* _pause_idle_jobs reads the job again under the guard, and writes it.
Pausable(j) == /\ jobs[j].pause /\ jobs[j].st = "running"
               /\ ~jobs[j].stop /\ ~jobs[j].busy
PausePass ==
    /\ sched.pc = "pause"
    /\ \/ \E j \in sched.todo :
            \/ /\ TryLock(j) /\ Pausable(j)
               /\ guard' = [guard EXCEPT ![j] = "sched"]
               /\ TakeUp(j, "pausing")
            \/ /\ ~TryLock(j) \/ ~Pausable(j)
               /\ Done(j) /\ UNCHANGED guard
       \/ /\ sched.todo = {}
          /\ Reread("reap", Tasks, {j \in Jobs : Runs(jobs[j])})
          /\ UNCHANGED guard
    /\ UNCHANGED <<jobs, slots, task, clients, delayed, service, requests>>

\* update_job refuses to leave a stop request: the exception ends the thread.
WriteState(j, pc) ==
    IF jobs[j].stop /\ jobs[j].st # "stopped"
    THEN sched' = [sched EXCEPT !.pc = "dead"] /\ UNCHANGED jobs
    ELSE /\ sched' = [sched EXCEPT !.pc = pc, !.job = NoJob]
         /\ jobs' = IF jobs[j].st = "stopped" THEN jobs
                    ELSE [jobs EXCEPT ![j].st = "parked"]

PauseWrite ==
    /\ sched.pc = "pausing"
    /\ WriteState(sched.job, "pause")
    /\ guard' = [guard EXCEPT ![sched.job] = "free"]
    /\ UNCHANGED <<slots, task, clients, delayed, service, requests>>

\* In the second reading "snap" holds the jobs that run.  The lanes of all others
\* are given back unless a task of theirs is still known.
SurplusAnyTask(j) == j \notin sched.snap
SurplusTaskless(j) == task[j].pc = "none" /\ jobs[j].st = "parked"
Surplus(j) == task[j].pc = "none" /\ j \notin sched.snap

ForgetFailed(j) == task' = IF task[j].exc THEN [task EXCEPT ![j] = NoTask] ELSE task
Forget(j) == task' = [task EXCEPT ![j] = NoTask]

\* A task that ended with an exception gives its lane back before the guard is
\* awaited and the failure is written.
Reap ==
    /\ sched.pc = "reap"
    /\ \/ \E j \in sched.todo :
            \/ /\ task[j].pc # "done"
               /\ Done(j) /\ UNCHANGED <<task, slots>>
            \/ /\ task[j].pc = "done" /\ ~task[j].exc
               /\ Forget(j)
               /\ Done(j) /\ UNCHANGED slots
            \/ /\ task[j].pc = "done" /\ task[j].exc
               /\ Release(j)
               /\ TakeUp(j, "lock")
               /\ UNCHANGED task
       \/ /\ sched.todo = {}
          /\ NextPass("release", {j \in Jobs : Surplus(j)})
          /\ UNCHANGED <<task, slots>>
    /\ UNCHANGED <<jobs, guard, clients, delayed, service, requests>>

LockFailed ==
    /\ sched.pc = "lock" /\ guard[sched.job] = "free"
    /\ guard' = [guard EXCEPT ![sched.job] = "sched"]
    /\ sched' = [sched EXCEPT !.pc = "mark"]
    /\ UNCHANGED <<jobs, slots, task, clients, delayed, service, requests>>

MarkFailed ==
    /\ sched.pc = "mark"
    /\ WriteState(sched.job, "reap")
    /\ guard' = [guard EXCEPT ![sched.job] = "free"]
    /\ IF sched'.pc = "dead" THEN UNCHANGED task ELSE Forget(sched.job)
    /\ UNCHANGED <<slots, clients, delayed, service, requests>>
----------------------------------------------------------------------------
(* Lanes: given back for jobs that no longer run, taken for those that do. *)

ReleasePass ==
    /\ sched.pc = "release"
    /\ \/ \E j \in sched.todo :
            /\ Done(j)
            /\ Release(j)
       \/ /\ sched.todo = {}
          /\ Reread("submit", sched.snap, {})
          /\ UNCHANGED slots
    /\ UNCHANGED <<jobs, task, guard, clients, delayed, service, requests>>

ReadyUnlimited(j) == task[j].pc = "none" /\ j \notin delayed
Ready(j) == /\ task[j].pc = "none" /\ Cardinality(Tasks) < Limit
            /\ j \notin delayed

SubmitFreely(j) ==
    /\ Ready(j)
    /\ task' = [task EXCEPT ![j] = [pc |-> "queued", exc |-> FALSE]]
    /\ UNCHANGED slots
Submit(j) ==
    /\ Ready(j)
    /\ TryAcquire(j)
    /\ task' = [task EXCEPT ![j] = [pc |-> "queued", exc |-> FALSE]]

SubmitPass ==
    /\ sched.pc = "submit"
    /\ \/ \E j \in sched.todo :
            /\ Done(j)
            /\ \/ Submit(j)
               \/ /\ ~Ready(j) \/ ~Admits(j)
                  /\ UNCHANGED <<task, slots>>
       \/ /\ sched.todo = {}
          /\ NextPass("top", {})
          /\ UNCHANGED <<task, slots>>
    /\ UNCHANGED <<jobs, guard, clients, delayed, service, requests>>

Scheduler == \/ BeginRound \/ StopPass \/ PausePass \/ PauseWrite \/ Reap \/ LockFailed
             \/ MarkFailed \/ ReleasePass \/ SubmitPass

----------------------------------------------------------------------------
(* _advance: one step of a job under its guard. *)

Enter(j) ==
    /\ task[j].pc = "queued" /\ guard[j] = "free"
    /\ guard' = [guard EXCEPT ![j] = "task"]
    /\ task' = [task EXCEPT ![j].pc = "entered"]
    /\ UNCHANGED <<jobs, slots, sched, clients, delayed, service, requests>>

StepBegins(j) ==
    /\ task[j].pc = "entered"
    /\ task' = [task EXCEPT ![j].pc = IF Runs(jobs[j]) THEN "stepping" ELSE "after"]
    /\ UNCHANGED <<jobs, slots, guard, sched, clients, delayed, service, requests>>

\* The step keeps the job running or parks it, unless a stop has arrived; it may
\* drop the credentials when it parks.  It raises when update_job refuses the
\* pause of a job that is being stopped, and when the database fails it.
StepEnds(j) ==
    /\ task[j].pc = "stepping"
    /\ \/ /\ task' = [task EXCEPT ![j].pc = "after"]
          /\ \/ /\ jobs[j].stop \/ service # "open"
                /\ UNCHANGED <<jobs, clients>>
             \/ /\ ~jobs[j].stop
                /\ \E st \in {"running", "parked"}, busy \in BOOLEAN :
                     /\ jobs' = [jobs EXCEPT ![j].st = st, ![j].busy = busy]
                     /\ clients' = IF st = "running" THEN clients \cup {j} ELSE clients \ {j}
          /\ UNCHANGED guard
       \/ /\ task' = [task EXCEPT ![j] = [pc |-> "final", exc |-> TRUE]]
          /\ guard' = [guard EXCEPT ![j] = "free"]
          /\ UNCHANGED <<jobs, clients>>
    /\ UNCHANGED <<slots, sched, delayed, service, requests>>

StepSettles(j) ==
    /\ task[j].pc = "after"
    /\ IF jobs[j].stop /\ jobs[j].st # "stopped" THEN StopsJob(j)
       ELSE /\ \/ delayed' = delayed \ {j}
               \/ Runs(jobs[j]) /\ jobs[j].busy /\ delayed' = delayed \cup {j}
            /\ UNCHANGED <<jobs, clients>>
    /\ guard' = [guard EXCEPT ![j] = "free"]
    /\ task' = [task EXCEPT ![j].pc = "final"]
    /\ UNCHANGED <<slots, sched, service, requests>>

\* The finally clause reads the job without the guard, then gives the lane back.
Conclude(j) ==
    /\ task[j].pc = "final"
    /\ task' = [task EXCEPT ![j].pc =
          IF service # "open" \/ ~Runs(jobs[j]) THEN "giveback" ELSE "done"]
    /\ UNCHANGED <<jobs, slots, guard, sched, clients, delayed, service, requests>>

GiveBack(j) ==
    /\ task[j].pc = "giveback"
    /\ Release(j)
    /\ task' = [task EXCEPT ![j].pc = "done"]
    /\ UNCHANGED <<jobs, guard, sched, clients, delayed, service, requests>>

Task(j) == Enter(j) \/ StepBegins(j) \/ StepEnds(j) \/ StepSettles(j) \/ Conclude(j) \/ GiveBack(j)

----------------------------------------------------------------------------
(* Requests of the user, the leasing threads, time, and the shutdown. *)

Request == service # "closed" /\ requests > 0 /\ requests' = requests - 1

FullStop(j) ==
    /\ Request
    /\ ~jobs[j].stop
    /\ jobs' = [jobs EXCEPT ![j].stop = TRUE]
    /\ UNCHANGED <<slots, task, guard, sched, clients, delayed, service>>

PauseJob(j) ==
    /\ Request
    /\ Runs(jobs[j]) /\ ~jobs[j].pause
    /\ jobs' = [jobs EXCEPT ![j].pause = TRUE]
    /\ UNCHANGED <<slots, task, guard, sched, clients, delayed, service>>

\* resume and the retries: the guard is taken and released within the request.
ResumeUnguarded(j) ==
    /\ Request
    /\ jobs[j].st = "parked" /\ ~jobs[j].stop /\ j \in clients
    /\ jobs' = [jobs EXCEPT ![j].st = "running", ![j].pause = FALSE]
    /\ UNCHANGED <<slots, task, guard, sched, clients, delayed, service>>
ResumeJob(j) ==
    /\ Request
    /\ guard[j] = "free" /\ jobs[j].st = "parked" /\ ~jobs[j].stop /\ j \in clients
    /\ jobs' = [jobs EXCEPT ![j].st = "running", ![j].pause = FALSE]
    /\ UNCHANGED <<slots, task, guard, sched, clients, delayed, service>>

\* credentials holds the guard while the new ones are tried, looks for a stop
\* once more, and stores them.
TryCredentials(j) ==
    /\ Request
    /\ guard[j] = "free" /\ jobs[j].st = "parked" /\ ~jobs[j].stop
    /\ guard' = [guard EXCEPT ![j] = "api"]
    /\ UNCHANGED <<jobs, slots, task, sched, clients, delayed, service>>

CheckCredentials(j) ==
    /\ guard[j] = "api"
    /\ \/ ~jobs[j].stop /\ guard' = [guard EXCEPT ![j] = "put"]
       \/ guard' = [guard EXCEPT ![j] = "free"]
    /\ UNCHANGED <<jobs, slots, task, sched, clients, delayed, service, requests>>

StoreCredentials(j) ==
    /\ guard[j] = "put"
    /\ clients' = clients \cup {j}
    /\ guard' = [guard EXCEPT ![j] = "free"]
    /\ UNCHANGED <<jobs, slots, task, sched, delayed, service, requests>>

Api(j) == CheckCredentials(j) \/ StoreCredentials(j)

PollDue(j) ==
    /\ j \in delayed
    /\ delayed' = delayed \ {j}
    /\ UNCHANGED <<jobs, slots, task, guard, sched, clients, service, requests>>

Lease(c) ==
    /\ LeaserStep(c)
    /\ UNCHANGED <<jobs, task, guard, sched, clients, delayed, service, requests>>

BeginClose ==
    /\ Request
    /\ service = "open"
    /\ service' = "closing"
    /\ UNCHANGED <<jobs, slots, task, guard, sched, clients, delayed>>

\* close() joins the thread, waits for the executor, and releases every lane.
CloseAtOnce ==
    /\ service = "closing" /\ sched.pc \in {"ended", "dead"}
    /\ service' = "closed"
    /\ clients' = {}
    /\ owners' = owners \ Jobs
    /\ UNCHANGED <<jobs, leases, thread, task, guard, sched, delayed, requests>>
EndClose ==
    /\ service = "closing" /\ sched.pc \in {"ended", "dead"}
    /\ \A j \in Jobs : task[j].pc \in {"none", "done"}
    /\ service' = "closed"
    /\ clients' = {}
    /\ owners' = owners \ Jobs
    /\ UNCHANGED <<jobs, leases, thread, task, guard, sched, delayed, requests>>

User == BeginClose \/ \E j \in Jobs : \/ FullStop(j) \/ PauseJob(j) \/ ResumeJob(j)
                                       \/ TryCredentials(j)

Next ==
    \/ Scheduler \/ User \/ EndClose
    \/ \E j \in Jobs : Task(j) \/ Api(j) \/ PollDue(j)
    \/ \E c \in Leasers : Lease(c)

Spec == Init /\ [][Next]_vars

\* The threads run, a credentials check ends, delays run out, close() goes on.
\* Nobody has to make a request or to leave a lease.
Fairness ==
    /\ WF_vars(Scheduler) /\ WF_vars(EndClose)
    /\ \A j \in Jobs : WF_vars(Task(j)) /\ WF_vars(Api(j)) /\ WF_vars(PollDue(j))

FairSpec == Spec /\ Fairness
----------------------------------------------------------------------------
(* Properties. *)

\* Every variable stays in its domain, and no task waits for a thread of the
\* executor, which has Limit of them.
TypeOK ==
    /\ jobs \in [Jobs -> JobRows]
    /\ SlotsTypeOK
    /\ task \in [Jobs -> TaskRows]
    /\ guard \in [Jobs -> GuardHolders]
    /\ sched \in SchedRows
    /\ clients \subseteq Jobs /\ delayed \subseteq Jobs
    /\ service \in {"open", "closing", "closed"}
    /\ requests \in 0..MaxUser
    /\ Cardinality(Tasks) <= Limit

\* A task keeps its lane from the submission to its finally clause: no pass of
\* the scheduler that works with an old snapshot takes it away meanwhile.
StepHoldsLane == \A j \in Jobs : Working(j) => j \in owners

\* At most Limit sources are worked on at once, counting the steps of the
\* standalone jobs and the batches and local saves inside their leases
\* (docs/ONPREM.md:57).
WorkedOn == {j \in Jobs : Working(j)} \cup {Owner[c] : c \in {d \in Leasers : Holding(d)}}
SourcesWithinLimit == Cardinality(WorkedOn) <= Limit

\* After an acknowledged full stop the process keeps no credentials of the job,
\* a check of new ones that was under way when the stop came included.
StopForgetsCredentials ==
    \A j \in Jobs : jobs[j].st = "stopped" /\ guard[j] = "free" => j \notin clients

\* While a step or a pass of the scheduler holds a job's guard nobody else moves
\* the job between running, parked and stopped (the requests of the API that do
\* not take the guard leave only marks).
StateIsGuarded ==
    [][\A j \in Jobs : guard[j] # "free" /\ guard'[j] = guard[j] =>
        (jobs'[j].st = jobs[j].st \/ task[j].pc = "stepping")]_vars

\* Once closed, no task works on and no standalone job has a lane.
ClosedIsQuiet ==
    service = "closed" => owners \cap Jobs = {} /\ \A j \in Jobs : ~Working(j)

Down == sched.pc = "dead" \/ service # "open"

\* A job that has stopped running loses its lane, whoever made it stop.
LaneReturned ==
    \A j \in Jobs : ~Runs(jobs[j]) ~> (j \notin owners \/ Runs(jobs[j]) \/ Down)

\* A full stop is acknowledged while the scheduler lives.
StopAcknowledged == \A j \in Jobs : jobs[j].stop ~> (jobs[j].st = "stopped" \/ Down)

\* A running job is stepped again and again when there are lanes for all.
RunningIsStepped ==
    \A j \in Jobs : Runs(jobs[j]) ~> (task[j].pc = "entered" \/ ~Runs(jobs[j]) \/ Down)

\* The comment at worker.py:223, "A damaged source must not terminate the other
\* lane": no request and no failing job ends the scheduler's thread.
SchedulerSurvives == sched.pc # "dead"
=============================================================================
