---------------------------- MODULE WorkerProofs ----------------------------
(* Proofs about the scheduler and its lanes, for any sets of jobs and of    *)
(* leasing threads and any limit.  The pool's invariant comes from          *)
(* SourceSlotsProofs; what is added relates the tasks to the lanes.         *)
EXTENDS Worker, SourceSlotsProofs

Domains ==
    /\ jobs \in [Jobs -> JobRows]
    /\ task \in [Jobs -> TaskRows]
    /\ guard \in [Jobs -> GuardHolders]
    /\ sched \in SchedRows
    /\ clients \subseteq Jobs /\ delayed \subseteq Jobs
    /\ service \in {"open", "closing", "closed"}
    /\ requests \in 0..MaxUser

\* The job a pass has in hand; a failed task stays in _tasks until its failure
\* has been written.
InHand ==
    /\ sched.pc \in {"pausing", "lock", "mark"} => sched.job \in Jobs
    /\ sched.pc \in {"lock", "mark"} => task[sched.job].pc = "done"

\* The release pass is right about the jobs without a task, although it decided
\* when it began: only the scheduler itself submits tasks.
SurplusIsTaskless ==
    sched.pc = "release" => \A j \in sched.todo : task[j].pc = "none"

ClosedForGood ==
    service = "closed" => /\ sched.pc \in {"ended", "dead"}
                          /\ \A j \in Jobs : task[j].pc \in {"none", "done"}
                          /\ owners \cap Jobs = {}

IInv ==
    /\ SlotsIInv /\ Domains /\ InHand /\ SurplusIsTaskless /\ StepHoldsLane
    /\ ClosedForGood

\* The part of the invariant that is about tasks and lanes.
TaskInv == InHand /\ SurplusIsTaskless /\ StepHoldsLane /\ ClosedForGood

LEMMA Initially == Init => IInv
<1> SUFFICES ASSUME Init PROVE IInv
  OBVIOUS
<1>1. SlotsIInv
  BY SlotsInitially DEF Init
<1>2. Domains
  <2>1. jobs \in [Jobs -> JobRows]
    BY DEF Init, JobRows
  <2>2. task \in [Jobs -> TaskRows]
    BY DEF Init, TaskRows, TaskPCs, NoTask
  <2>3. sched \in SchedRows
    BY DEF Init, SchedRows, SchedPCs
  <2> QED BY <2>1, <2>2, <2>3, WorkerAssumption DEF Init, Domains, GuardHolders
<1>3. InHand /\ SurplusIsTaskless /\ StepHoldsLane /\ ClosedForGood
  BY DEF Init, InHand, SurplusIsTaskless, StepHoldsLane, Working, ClosedForGood, NoTask
<1> QED BY <1>1, <1>2, <1>3 DEF IInv

----------------------------------------------------------------------------
(* The pool's invariant. *)

\* close() takes the lanes of all standalone jobs away at once.
LEMMA CloseKeepsPool ==
    ASSUME SlotsIInv, EndClose
    PROVE  SlotsIInv'
<1>1. SlotsDomains'
  BY DEF SlotsIInv, SlotsDomains, EndClose
<1>2. owners' \cap LeaseOwners = owners \cap LeaseOwners
  BY SlotsAssumption DEF EndClose
<1>3. NoLeakedLane'
  BY <1>2, WorkerKeepsCounts DEF SlotsIInv, EndClose
<1>4. IsFiniteSet(owners')  /\ Cardinality(owners') <= Cardinality(owners)
  BY OwnersFinite, FS_Subset DEF SlotsIInv, EndClose
<1>5. Cardinality(owners) \in Nat /\ Cardinality(owners') \in Nat
  BY <1>4, OwnersFinite, FS_CardinalityType DEF SlotsIInv
<1>6. WithinLimit'
  BY <1>4, <1>5, SlotsAssumption DEF SlotsIInv, WithinLimit
<1> QED BY <1>1, <1>3, <1>6 DEF SlotsIInv

\* Every other step of the worker is a step of the pool or leaves it alone.
LEMMA PoolStep ==
    ASSUME IInv, [Next]_vars
    PROVE  EndClose \/ [SlotsNext]_slots
<1>1. CASE Scheduler
  <2>1. CASE Reap
    <3>1. ASSUME NEW j \in sched.todo, Release(j) PROVE SlotsNext
      BY <3>1 DEF IInv, Domains, SchedRows, SlotsNext, WorkerLanes
    <3> QED BY <2>1, <3>1 DEF Reap
  <2>2. CASE ReleasePass
    <3>1. ASSUME NEW j \in sched.todo, Release(j) PROVE SlotsNext
      BY <3>1 DEF IInv, Domains, SchedRows, SlotsNext, WorkerLanes
    <3> QED BY <2>2, <3>1 DEF ReleasePass
  <2>3. CASE SubmitPass
    <3>1. ASSUME NEW j \in sched.todo, TryAcquire(j) PROVE SlotsNext
      BY <3>1 DEF IInv, Domains, SchedRows, SlotsNext, WorkerLanes
    <3> QED BY <2>3, <3>1 DEF SubmitPass, Submit
  <2>4. CASE BeginRound \/ StopPass \/ PausePass \/ PauseWrite \/ LockFailed \/ MarkFailed
    BY <2>4 DEF BeginRound, StopPass, PausePass, PauseWrite, LockFailed, MarkFailed
  <2> QED BY <1>1, <2>1, <2>2, <2>3, <2>4 DEF Scheduler
<1>2. ASSUME NEW j \in Jobs, Task(j) PROVE [SlotsNext]_slots
  <2>1. CASE GiveBack(j)
    BY <2>1 DEF GiveBack, SlotsNext, WorkerLanes
  <2>2. CASE Enter(j) \/ StepBegins(j) \/ StepEnds(j) \/ StepSettles(j) \/ Conclude(j)
    BY <2>2 DEF Enter, StepBegins, StepEnds, StepSettles, Conclude
  <2> QED BY <1>2, <2>1, <2>2 DEF Task
<1>3. CASE User
  BY <1>3 DEF User, BeginClose, FullStop, PauseJob, ResumeJob, TryCredentials
<1>4. ASSUME NEW j \in Jobs, Api(j) \/ PollDue(j) PROVE UNCHANGED slots
  BY <1>4 DEF Api, CheckCredentials, StoreCredentials, PollDue
<1>5. ASSUME NEW c \in Leasers, Lease(c) PROVE SlotsNext
  BY <1>5 DEF Lease, SlotsNext
<1>6. CASE UNCHANGED vars
  BY <1>6 DEF vars
<1> QED BY <1>1, <1>2, <1>3, <1>4, <1>5, <1>6 DEF Next

LEMMA PoolKept ==
    ASSUME IInv, [Next]_vars
    PROVE  SlotsIInv'
BY CloseKeepsPool, PoolStep, SlotsStep DEF IInv

----------------------------------------------------------------------------
(* The domains. *)

LEMMA PassesTyped ==
    ASSUME Domains
    PROVE  /\ \A j \in Jobs : Done(j) => sched' \in SchedRows
           /\ \A pc \in SchedPCs, todo \in SUBSET Jobs :
                  NextPass(pc, todo) => sched' \in SchedRows
           /\ \A pc \in SchedPCs, todo, snap \in SUBSET Jobs :
                  Reread(pc, todo, snap) => sched' \in SchedRows
           /\ \A pc \in SchedPCs, job \in Jobs \cup {NoJob}, todo \in SUBSET Jobs :
                  [sched EXCEPT !.pc = pc, !.todo = todo, !.job = job] \in SchedRows
           /\ \A pc \in SchedPCs, job \in Jobs \cup {NoJob} :
                  [sched EXCEPT !.pc = pc, !.job = job] \in SchedRows
           /\ \A pc \in SchedPCs : [sched EXCEPT !.pc = pc] \in SchedRows
           /\ sched.pc \in SchedPCs /\ sched.todo \subseteq Jobs /\ sched.snap \subseteq Jobs
BY DEF Domains, SchedRows, Done, NextPass, Reread

LEMMA StopTyped ==
    ASSUME Domains, NEW j \in Jobs, StopsJob(j)
    PROVE  /\ jobs' \in [Jobs -> JobRows]
           /\ clients' \subseteq Jobs /\ delayed' \subseteq Jobs
BY DEF Domains, JobRows, StopsJob

LEMMA StepTyped ==
    ASSUME Domains, NEW j \in Jobs, NEW st \in {"running", "parked"}, NEW busy \in BOOLEAN
    PROVE  [jobs EXCEPT ![j].st = st, ![j].busy = busy] \in [Jobs -> JobRows]
<1>1. jobs \in [Jobs -> JobRows] /\ jobs[j] \in JobRows
  BY DEF Domains
<1>2. [[jobs[j] EXCEPT !.st = st] EXCEPT !.busy = busy] \in JobRows
  BY <1>1 DEF JobRows
<1> QED BY <1>1, <1>2

LEMMA MarkTyped ==
    ASSUME Domains, NEW j \in Jobs
    PROVE  /\ [jobs EXCEPT ![j].st = "parked"] \in [Jobs -> JobRows]
           /\ [jobs EXCEPT ![j].stop = TRUE] \in [Jobs -> JobRows]
           /\ [jobs EXCEPT ![j].pause = TRUE] \in [Jobs -> JobRows]
           /\ [jobs EXCEPT ![j].st = "running", ![j].pause = FALSE] \in [Jobs -> JobRows]
<1>1. jobs \in [Jobs -> JobRows] /\ jobs[j] \in JobRows
  BY DEF Domains
<1>2. [jobs[j] EXCEPT !.st = "parked"] \in JobRows
  BY <1>1 DEF JobRows
<1>3. [jobs[j] EXCEPT !.stop = TRUE] \in JobRows
  BY <1>1 DEF JobRows
<1>4. [jobs[j] EXCEPT !.pause = TRUE] \in JobRows
  BY <1>1 DEF JobRows
<1>5. [[jobs[j] EXCEPT !.st = "running"] EXCEPT !.pause = FALSE] \in JobRows
  BY <1>1 DEF JobRows
<1> QED BY <1>1, <1>2, <1>3, <1>4, <1>5

LEMMA TasksTyped ==
    ASSUME Domains, NEW j \in Jobs, NEW pc \in TaskPCs
    PROVE  [task EXCEPT ![j].pc = pc] \in [Jobs -> TaskRows]
<1>1. [task[j] EXCEPT !.pc = pc] \in TaskRows
  BY DEF Domains, TaskRows
<1> QED BY <1>1 DEF Domains

LEMMA TaskReset ==
    ASSUME Domains, NEW j \in Jobs
    PROVE  /\ \A pc \in TaskPCs, exc \in BOOLEAN :
                  [task EXCEPT ![j] = [pc |-> pc, exc |-> exc]] \in [Jobs -> TaskRows]
           /\ Forget(j) => task' \in [Jobs -> TaskRows]
<1>1. \A pc \in TaskPCs, exc \in BOOLEAN : [pc |-> pc, exc |-> exc] \in TaskRows
  BY DEF TaskRows
<1>2. NoTask \in TaskRows
  BY DEF TaskRows, TaskPCs, NoTask
<1> QED BY <1>1, <1>2 DEF Domains, Forget

LEMMA GuardTyped ==
    ASSUME Domains, NEW j \in Jobs, NEW h \in GuardHolders
    PROVE  [guard EXCEPT ![j] = h] \in [Jobs -> GuardHolders]
BY DEF Domains

\* update_job from the scheduler's thread.
LEMMA WriteTyped ==
    ASSUME Domains, NEW j \in Jobs, NEW pc \in SchedPCs, WriteState(j, pc)
    PROVE  jobs' \in [Jobs -> JobRows] /\ sched' \in SchedRows
<1>1. CASE jobs[j].stop /\ jobs[j].st # "stopped"
  <2>1. "dead" \in SchedPCs
    BY DEF SchedPCs
  <2> QED BY <1>1, <2>1, PassesTyped DEF WriteState, Domains
<1>2. CASE ~(jobs[j].stop /\ jobs[j].st # "stopped")
  <2>1. sched' = [sched EXCEPT !.pc = pc, !.job = NoJob]
    BY <1>2 DEF WriteState
  <2>2. jobs' = jobs \/ jobs' = [jobs EXCEPT ![j].st = "parked"]
    BY <1>2 DEF WriteState
  <2>3. sched' \in SchedRows
    BY <2>1, PassesTyped
  <2>4. [jobs EXCEPT ![j].st = "parked"] \in [Jobs -> JobRows]
    BY MarkTyped
  <2>5. jobs \in [Jobs -> JobRows]
    BY DEF Domains
  <2>6. jobs' \in [Jobs -> JobRows]
    BY <2>2, <2>4, <2>5
  <2> QED BY <2>3, <2>6
<1> QED BY <1>1, <1>2

LEMMA SchedulerDomains ==
    ASSUME IInv, Scheduler
    PROVE  Domains'
<1>1. Domains /\ InHand /\ sched.todo \subseteq Jobs /\ sched.snap \subseteq Jobs
  BY PassesTyped DEF IInv
<1> USE <1>1
<1>2. CASE BeginRound
  <2>1. "ended" \in SchedPCs /\ "stop" \in SchedPCs /\ StopRequested \subseteq Jobs
    BY DEF SchedPCs, StopRequested
  <2>2. {j \in Jobs : jobs[j].pause /\ jobs[j].st = "running"} \subseteq Jobs
    OBVIOUS
  <2>3. sched' \in SchedRows
    BY <1>2, <2>1, <2>2, PassesTyped DEF BeginRound
  <2> QED BY <1>2, <2>3 DEF BeginRound, Domains
<1>3. CASE StopPass
  <2>1. ASSUME NEW j \in sched.todo, Done(j), StopsJob(j)
        PROVE  /\ sched' \in SchedRows /\ jobs' \in [Jobs -> JobRows]
               /\ clients' \subseteq Jobs /\ delayed' \subseteq Jobs
    BY <2>1, StopTyped, PassesTyped
  <2>2. ASSUME \/ \E j \in sched.todo : Done(j)
               \/ NextPass("pause", sched.snap)
        PROVE  sched' \in SchedRows
    <3>1. "pause" \in SchedPCs
      BY DEF SchedPCs
    <3> QED BY <2>2, <3>1, PassesTyped
  <2> QED BY <1>3, <2>1, <2>2 DEF StopPass, Domains
<1>4. CASE PausePass
  <2>1. ASSUME NEW j \in sched.todo, guard' = [guard EXCEPT ![j] = "sched"], TakeUp(j, "pausing")
        PROVE  guard' \in [Jobs -> GuardHolders] /\ sched' \in SchedRows
    <3>1. "pausing" \in SchedPCs /\ "sched" \in GuardHolders
      BY DEF SchedPCs, GuardHolders
    <3>2. sched' = [sched EXCEPT !.pc = "pausing", !.todo = sched.todo \ {j}, !.job = j]
      BY <2>1 DEF TakeUp
    <3>3. j \in Jobs /\ sched.todo \ {j} \in SUBSET Jobs
      OBVIOUS
    <3>4. sched' \in SchedRows
      BY <3>1, <3>2, <3>3, PassesTyped
    <3>5. guard' \in [Jobs -> GuardHolders]
      BY <2>1, <3>1, <3>3, GuardTyped
    <3> QED BY <3>4, <3>5
  <2>2. ASSUME Reread("reap", Tasks, {j \in Jobs : Runs(jobs[j])})
        PROVE  sched' \in SchedRows
    <3>1. /\ "reap" \in SchedPCs /\ Tasks \subseteq Jobs
          /\ {j \in Jobs : Runs(jobs[j])} \subseteq Jobs
      BY DEF SchedPCs, Tasks
    <3> QED BY <2>2, <3>1, PassesTyped
  <2>3. ASSUME NEW j \in sched.todo, Done(j)
        PROVE  sched' \in SchedRows
    BY <2>3, PassesTyped
  <2>4. sched' \in SchedRows /\ guard' \in [Jobs -> GuardHolders]
    BY <1>4, <2>1, <2>2, <2>3 DEF PausePass, Domains
  <2> QED BY <1>4, <2>4 DEF PausePass, Domains
<1>5. CASE PauseWrite
  <2>1. sched.job \in Jobs /\ "pause" \in SchedPCs /\ "free" \in GuardHolders
    BY <1>5 DEF PauseWrite, InHand, SchedPCs, GuardHolders
  <2>2. jobs' \in [Jobs -> JobRows] /\ sched' \in SchedRows
    BY <1>5, <2>1, WriteTyped DEF PauseWrite
  <2>3. guard' \in [Jobs -> GuardHolders]
    BY <1>5, <2>1, GuardTyped DEF PauseWrite
  <2> QED BY <1>5, <2>2, <2>3 DEF PauseWrite, Domains
<1>6. CASE Reap
  <2>1. ASSUME NEW j \in sched.todo, Done(j)
        PROVE  sched' \in SchedRows
    BY <2>1, PassesTyped
  <2>2. ASSUME NEW j \in sched.todo, TakeUp(j, "lock")
        PROVE  sched' \in SchedRows
    <3>1. "lock" \in SchedPCs
      BY DEF SchedPCs
    <3>2. sched' = [sched EXCEPT !.pc = "lock", !.todo = sched.todo \ {j}, !.job = j]
      BY <2>2 DEF TakeUp
    <3> QED BY <3>1, <3>2, PassesTyped
  <2>3. ASSUME NextPass("release", {j \in Jobs : Surplus(j)})
        PROVE  sched' \in SchedRows
    <3>1. "release" \in SchedPCs /\ {j \in Jobs : Surplus(j)} \subseteq Jobs
      BY DEF SchedPCs
    <3> QED BY <2>3, <3>1, PassesTyped
  <2>4. ASSUME NEW j \in sched.todo, Forget(j)
        PROVE  task' \in [Jobs -> TaskRows]
    BY <2>4, TaskReset
  <2>5. sched' \in SchedRows /\ task' \in [Jobs -> TaskRows]
    BY <1>6, <2>1, <2>2, <2>3, <2>4 DEF Reap, Domains
  <2> QED BY <1>6, <2>5 DEF Reap, Domains
<1>7. CASE LockFailed
  <2>1. "mark" \in SchedPCs /\ "sched" \in GuardHolders /\ sched.job \in Jobs
    BY <1>7 DEF LockFailed, SchedPCs, GuardHolders, InHand
  <2>2. sched' \in SchedRows /\ guard' \in [Jobs -> GuardHolders]
    BY <1>7, <2>1, PassesTyped, GuardTyped DEF LockFailed
  <2> QED BY <1>7, <2>2 DEF LockFailed, Domains
<1>8. CASE MarkFailed
  <2>1. sched.job \in Jobs /\ "reap" \in SchedPCs /\ "free" \in GuardHolders
    BY <1>8 DEF MarkFailed, InHand, SchedPCs, GuardHolders
  <2>2. jobs' \in [Jobs -> JobRows] /\ sched' \in SchedRows
    BY <1>8, <2>1, WriteTyped DEF MarkFailed
  <2>3. guard' \in [Jobs -> GuardHolders] /\ task' \in [Jobs -> TaskRows]
    BY <1>8, <2>1, GuardTyped, TaskReset DEF MarkFailed, Domains
  <2> QED BY <1>8, <2>2, <2>3 DEF MarkFailed, Domains
<1>9. CASE ReleasePass
  <2>1. ASSUME NEW j \in sched.todo, Done(j)
        PROVE  sched' \in SchedRows
    BY <2>1, PassesTyped
  <2>2. ASSUME Reread("submit", sched.snap, {})
        PROVE  sched' \in SchedRows
    <3>1. "submit" \in SchedPCs /\ {} \in SUBSET Jobs /\ sched.snap \in SUBSET Jobs
      BY DEF SchedPCs
    <3> QED BY <2>2, <3>1, PassesTyped
  <2>3. sched' \in SchedRows
    BY <1>9, <2>1, <2>2 DEF ReleasePass
  <2> QED BY <1>9, <2>3 DEF ReleasePass, Domains
<1>10. CASE SubmitPass
  <2>1. ASSUME NEW j \in sched.todo, Done(j)
        PROVE  sched' \in SchedRows
    BY <2>1, PassesTyped
  <2>2. ASSUME NextPass("top", {})
        PROVE  sched' \in SchedRows
    <3>1. "top" \in SchedPCs /\ {} \subseteq Jobs
      BY DEF SchedPCs
    <3> QED BY <2>2, <3>1, PassesTyped
  <2>3. ASSUME NEW j \in sched.todo, Submit(j)
        PROVE  task' \in [Jobs -> TaskRows]
    <3>1. "queued" \in TaskPCs
      BY DEF TaskPCs
    <3> QED BY <2>3, <3>1, TaskReset DEF Submit
  <2>4. sched' \in SchedRows /\ task' \in [Jobs -> TaskRows]
    BY <1>10, <2>1, <2>2, <2>3 DEF SubmitPass, Domains
  <2> QED BY <1>10, <2>4 DEF SubmitPass, Domains
<1> QED BY <1>2, <1>3, <1>4, <1>5, <1>6, <1>7, <1>8, <1>9, <1>10 DEF Scheduler

LEMMA TaskDomains ==
    ASSUME IInv, NEW j \in Jobs, Task(j)
    PROVE  Domains'
<1>1. Domains
  BY DEF IInv
<1>2. "free" \in GuardHolders /\ "task" \in GuardHolders
  BY DEF GuardHolders
<1>3. CASE Enter(j)
  BY <1>1, <1>2, <1>3, TasksTyped, GuardTyped DEF Enter, Domains, TaskPCs
<1>4. CASE StepBegins(j)
  BY <1>1, <1>4, TasksTyped DEF StepBegins, Domains, TaskPCs
<1>5. CASE StepEnds(j)
  <2>1. "after" \in TaskPCs /\ "final" \in TaskPCs
    BY DEF TaskPCs
  <2>2. task' \in [Jobs -> TaskRows]
    <3>1. CASE task' = [task EXCEPT ![j].pc = "after"]
      BY <1>1, <2>1, <3>1, TasksTyped
    <3>2. CASE task' = [task EXCEPT ![j] = [pc |-> "final", exc |-> TRUE]]
      BY <1>1, <2>1, <3>2, TaskReset
    <3> QED BY <1>5, <3>1, <3>2 DEF StepEnds
  <2>3. guard' \in [Jobs -> GuardHolders]
    <3>1. guard' = guard \/ guard' = [guard EXCEPT ![j] = "free"]
      BY <1>5 DEF StepEnds
    <3> QED BY <1>1, <1>2, <3>1, GuardTyped DEF Domains
  <2>4. jobs' \in [Jobs -> JobRows] /\ clients' \subseteq Jobs
    <3>1. ASSUME NEW st \in {"running", "parked"}, NEW busy \in BOOLEAN,
                 jobs' = [jobs EXCEPT ![j].st = st, ![j].busy = busy],
                 clients' = IF st = "running" THEN clients \cup {j} ELSE clients \ {j}
          PROVE  jobs' \in [Jobs -> JobRows] /\ clients' \subseteq Jobs
      BY <1>1, <3>1, StepTyped DEF Domains
    <3>2. CASE UNCHANGED <<jobs, clients>>
      BY <1>1, <3>2 DEF Domains
    <3> QED BY <1>5, <3>1, <3>2 DEF StepEnds
  <2> QED BY <1>1, <1>5, <2>2, <2>3, <2>4 DEF StepEnds, Domains
<1>6. CASE StepSettles(j)
  <2>1. task' \in [Jobs -> TaskRows]
    BY <1>1, <1>6, TasksTyped DEF StepSettles, TaskPCs
  <2>2. guard' \in [Jobs -> GuardHolders]
    BY <1>1, <1>2, <1>6, GuardTyped DEF StepSettles
  <2>3. /\ jobs' \in [Jobs -> JobRows]
        /\ clients' \subseteq Jobs /\ delayed' \subseteq Jobs
    <3>1. CASE StopsJob(j)
      BY <1>1, <3>1, StopTyped
    <3>2. CASE UNCHANGED <<jobs, clients>> /\ delayed' \subseteq delayed \cup {j}
      BY <1>1, <3>2 DEF Domains
    <3> QED BY <1>6, <3>1, <3>2 DEF StepSettles
  <2> QED BY <1>1, <1>6, <2>1, <2>2, <2>3 DEF StepSettles, Domains
<1>7. CASE Conclude(j)
  BY <1>1, <1>7, TasksTyped DEF Conclude, Domains, TaskPCs
<1>8. CASE GiveBack(j)
  BY <1>1, <1>8, TasksTyped DEF GiveBack, Domains, TaskPCs
<1> QED BY <1>3, <1>4, <1>5, <1>6, <1>7, <1>8, Task(j) DEF Task

LEMMA RequestDomains ==
    ASSUME IInv, User
    PROVE  Domains'
<1>1. Domains
  BY DEF IInv
<1>2. Request => requests' \in 0..MaxUser
  BY <1>1, WorkerAssumption DEF Request, Domains
<1>3. CASE BeginClose
  BY <1>1, <1>2, <1>3 DEF BeginClose, Domains
<1>4. ASSUME NEW j \in Jobs, FullStop(j) \/ PauseJob(j) PROVE Domains'
  <2>1. jobs' \in [Jobs -> JobRows]
    BY <1>1, <1>4, MarkTyped DEF FullStop, PauseJob
  <2> QED BY <1>1, <1>2, <1>4, <2>1 DEF FullStop, PauseJob, Domains
<1>5. ASSUME NEW j \in Jobs, ResumeJob(j) PROVE Domains'
  <2>1. jobs' \in [Jobs -> JobRows]
    BY <1>1, <1>5, MarkTyped DEF ResumeJob
  <2> QED BY <1>1, <1>2, <1>5, <2>1 DEF ResumeJob, Domains
<1>6. ASSUME NEW j \in Jobs, TryCredentials(j) PROVE Domains'
  <2>1. guard' \in [Jobs -> GuardHolders]
    BY <1>1, <1>6, GuardTyped DEF TryCredentials, GuardHolders
  <2> QED BY <1>1, <1>2, <1>6, <2>1 DEF TryCredentials, Domains
<1> QED BY <1>3, <1>4, <1>5, <1>6, User DEF User

LEMMA DomainsKept ==
    ASSUME IInv, [Next]_vars
    PROVE  Domains'
<1>1. Domains
  BY DEF IInv
<1>2. ASSUME NEW j \in Jobs, Api(j) PROVE Domains'
  BY <1>1, <1>2, GuardTyped DEF Api, CheckCredentials, StoreCredentials, Domains, GuardHolders
<1>3. ASSUME NEW j \in Jobs, PollDue(j) PROVE Domains'
  BY <1>1, <1>3 DEF PollDue, Domains
<1>4. ASSUME NEW c \in Leasers, Lease(c) PROVE Domains'
  BY <1>1, <1>4 DEF Lease, Domains
<1>5. CASE EndClose
  BY <1>1, <1>5 DEF EndClose, Domains
<1>6. CASE UNCHANGED vars
  BY <1>1, <1>6 DEF vars, Domains
<1> QED BY <1>2, <1>3, <1>4, <1>5, <1>6, SchedulerDomains, TaskDomains, RequestDomains
        DEF Next

----------------------------------------------------------------------------
(* Tasks and lanes. *)

\* A step that changes no task, takes no lane away, keeps a closed service's
\* lanes and does not enter the passes keeps the relations.
LEMMA TasksLeftAlone ==
    ASSUME TaskInv, UNCHANGED <<task, sched, service>>,
           owners \cap Jobs = owners' \cap Jobs
    PROVE  TaskInv'
<1>1. \A j \in Jobs : Working(j)' = Working(j)
  BY DEF Working
<1> QED BY <1>1 DEF TaskInv, InHand, SurplusIsTaskless, StepHoldsLane, ClosedForGood

\* A step of the scheduler between passes, which neither submits nor gives back.
LEMMA SchedulerMoves ==
    ASSUME TaskInv, Domains, sched.pc \notin {"ended", "dead"},
           UNCHANGED <<task, owners, leases, thread, service>>,
           sched'.pc \in {"pausing", "lock", "mark"} => sched'.job \in Jobs,
           sched'.pc \in {"lock", "mark"} => task[sched'.job].pc = "done",
           sched'.pc = "release" => \A j \in sched'.todo : task[j].pc = "none"
    PROVE  TaskInv'
<1>1. \A j \in Jobs : Working(j)' = Working(j)
  BY DEF Working
<1> QED BY <1>1 DEF TaskInv, InHand, SurplusIsTaskless, StepHoldsLane, ClosedForGood

\* A thread that leases moves no lane of a standalone job.
LEMMA LeasersApart ==
    ASSUME SlotsDomains, NEW c \in Leasers, LeaserStep(c)
    PROVE  owners \cap Jobs = owners' \cap Jobs
<1>1. Owner[c] \notin Jobs
  BY SlotsAssumption
<1> QED BY <1>1 DEF LeaserStep, EnterLease, AbandonLease, AcquireLease, ExitLease

\* What a step of job j's task, or of the passes for job j, leaves of the others.
LEMMA OneTaskMoves ==
    ASSUME TaskInv, NEW j \in Jobs,
           \A k \in Jobs \ {j} : task'[k] = task[k] /\ (k \in owners => k \in owners'),
           Working(j)' => j \in owners',
           sched'.pc \in {"pausing", "lock", "mark"} => sched'.job \in Jobs,
           sched'.pc \in {"lock", "mark"} => task'[sched'.job].pc = "done",
           sched'.pc = "release" => \A k \in sched'.todo : task'[k].pc = "none",
           service' # "closed"
    PROVE  TaskInv'
<1>1. \A k \in Jobs : Working(k)' => k \in owners'
  <2>1. ASSUME NEW k \in Jobs \ {j}, Working(k)' PROVE k \in owners'
    <3>1. Working(k)
      BY <2>1 DEF Working
    <3> QED BY <2>1, <3>1 DEF TaskInv, StepHoldsLane
  <2> QED BY <2>1
<1>2. StepHoldsLane'
  BY <1>1 DEF StepHoldsLane
<1> QED BY <1>2 DEF TaskInv, InHand, SurplusIsTaskless, ClosedForGood

LEMMA TaskKeepsLane ==
    ASSUME IInv, NEW j \in Jobs, Task(j)
    PROVE  TaskInv'
<1>1. /\ TaskInv /\ task \in [Jobs -> TaskRows] /\ SlotsIInv
      /\ sched.todo \subseteq Jobs /\ sched.snap \subseteq Jobs
  BY PassesTyped DEF IInv, TaskInv, Domains
<1>2. task[j].pc \notin {"none", "done"}
  BY Task(j) DEF Task, Enter, StepBegins, StepEnds, StepSettles, Conclude, GiveBack
<1>3. service' = service /\ service # "closed" /\ sched' = sched
  <2>1. service' = service /\ sched' = sched
    BY Task(j) DEF Task, Enter, StepBegins, StepEnds, StepSettles, Conclude, GiveBack
  <2> QED BY <1>1, <1>2, <2>1 DEF TaskInv, ClosedForGood
<1>4. \A k \in Jobs \ {j} : task'[k] = task[k]
  BY <1>1, Task(j) DEF Task, Enter, StepBegins, StepEnds, StepSettles, Conclude, GiveBack
<1>5. \A k \in Jobs \ {j} : k \in owners => k \in owners'
  BY Task(j) DEF Task, Enter, StepBegins, StepEnds, StepSettles, Conclude, GiveBack,
     Release, slots
<1>6. Working(j)' => j \in owners'
  <2>1. CASE GiveBack(j)
    BY <1>1, <2>1 DEF GiveBack, Working
  <2>2. CASE Enter(j) \/ StepBegins(j) \/ StepEnds(j) \/ StepSettles(j) \/ Conclude(j)
    <3>1. Working(j) /\ owners' = owners
      BY <2>2 DEF Enter, StepBegins, StepEnds, StepSettles, Conclude, Working, slots
    <3> QED BY <1>1, <3>1 DEF TaskInv, StepHoldsLane
  <2> QED BY <2>1, <2>2, Task(j) DEF Task
<1>7. sched.pc \in {"lock", "mark"} => sched.job # j
  BY <1>1, <1>2 DEF TaskInv, InHand
<1>8. sched.pc = "release" => j \notin sched.todo
  BY <1>1, <1>2 DEF TaskInv, SurplusIsTaskless
<1>9. sched'.pc \in {"pausing", "lock", "mark"} => sched'.job \in Jobs
  BY <1>1, <1>3 DEF TaskInv, InHand
<1>10. sched'.pc \in {"lock", "mark"} => task'[sched'.job].pc = "done"
  BY <1>1, <1>3, <1>4, <1>7 DEF TaskInv, InHand
<1>11. sched'.pc = "release" => \A k \in sched'.todo : task'[k].pc = "none"
  BY <1>1, <1>3, <1>4, <1>8 DEF TaskInv, SurplusIsTaskless
<1> QED BY <1>1, <1>3, <1>4, <1>5, <1>6, <1>9, <1>10, <1>11, OneTaskMoves

LEMMA PassesKeepLanes ==
    ASSUME IInv, Scheduler
    PROVE  TaskInv'
<1>1. /\ TaskInv /\ Domains /\ task \in [Jobs -> TaskRows]
      /\ sched.todo \subseteq Jobs /\ sched.snap \subseteq Jobs
  BY PassesTyped DEF IInv, TaskInv, Domains
<1>2. service' = service /\ service # "closed"
  <2>1. service' = service /\ sched.pc \notin {"ended", "dead"}
    BY Scheduler DEF Scheduler, BeginRound, StopPass, PausePass, PauseWrite, Reap, LockFailed,
       MarkFailed, ReleasePass, SubmitPass
  <2> QED BY <1>1, <2>1 DEF TaskInv, ClosedForGood
<1>3. "ended" # sched.pc /\ "dead" # sched.pc
  BY Scheduler DEF Scheduler, BeginRound, StopPass, PausePass, PauseWrite, Reap, LockFailed,
     MarkFailed, ReleasePass, SubmitPass
<1>4. sched \in SchedRows
  BY <1>1 DEF Domains
<1>5. CASE BeginRound
  <2>1. sched'.pc \in {"ended", "stop"}
    BY <1>4, <1>5 DEF BeginRound, Reread, SchedRows
  <2> QED BY <1>1, <1>2, <1>3, <1>5, <2>1, SchedulerMoves DEF BeginRound, slots
<1>6. CASE StopPass
  <2>1. sched'.pc \in {"stop", "pause"}
    BY <1>4, <1>6 DEF StopPass, Done, NextPass, SchedRows
  <2> QED BY <1>1, <1>2, <1>3, <1>6, <2>1, SchedulerMoves DEF StopPass, slots
<1>7. CASE PausePass
  <2>1. sched'.pc \in {"pause", "reap"} \/ (sched'.pc = "pausing" /\ sched'.job \in Jobs)
    <3>1. ASSUME NEW j \in sched.todo, Done(j) PROVE sched'.pc = sched.pc
      BY <1>4, <3>1 DEF Done, SchedRows
    <3>2. ASSUME NEW j \in sched.todo, TakeUp(j, "pausing")
          PROVE  sched'.pc = "pausing" /\ sched'.job \in Jobs
      BY <1>1, <1>4, <3>2 DEF TakeUp, SchedRows
    <3>3. Reread("reap", Tasks, {j \in Jobs : Runs(jobs[j])}) => sched'.pc = "reap"
      BY <1>4 DEF Reread, SchedRows
    <3>4. sched.pc = "pause"
      BY <1>7 DEF PausePass
    <3>5. CASE \E j \in sched.todo : Done(j)
      BY <3>1, <3>4, <3>5
    <3>6. CASE \E j \in sched.todo : TakeUp(j, "pausing")
      BY <3>2, <3>6
    <3>7. CASE Reread("reap", Tasks, {j \in Jobs : Runs(jobs[j])})
      BY <3>3, <3>7
    <3> QED BY <1>7, <3>5, <3>6, <3>7, Zenon DEF PausePass
  <2> QED BY <1>1, <1>2, <1>3, <1>7, <2>1, SchedulerMoves DEF PausePass, slots
<1>8. CASE PauseWrite
  <2>1. sched'.pc \in {"dead", "pause"}
    BY <1>4, <1>8 DEF PauseWrite, WriteState, SchedRows
  <2> QED BY <1>1, <1>2, <1>3, <1>8, <2>1, SchedulerMoves DEF PauseWrite, slots
<1>9. CASE LockFailed
  <2>1. sched'.pc = "mark" /\ sched'.job = sched.job
    BY <1>4, <1>9 DEF LockFailed, SchedRows
  <2>2. sched.job \in Jobs /\ task[sched.job].pc = "done"
    BY <1>1, <1>9 DEF LockFailed, TaskInv, InHand
  <2> QED BY <1>1, <1>2, <1>3, <1>9, <2>1, <2>2, SchedulerMoves DEF LockFailed, slots
<1>10. CASE MarkFailed
  <2>1. PICK j \in Jobs : j = sched.job
    BY <1>1, <1>10 DEF MarkFailed, TaskInv, InHand
  <2>2. sched'.pc \in {"dead", "reap"}
    BY <1>4, <1>10 DEF MarkFailed, WriteState, SchedRows
  <2>3. task' = task \/ task' = [task EXCEPT ![j] = NoTask]
    BY <1>10, <2>1 DEF MarkFailed, Forget
  <2>4. task[j].pc = "done"
    BY <1>1, <1>10, <2>1 DEF MarkFailed, TaskInv, InHand
  <2>5. owners' = owners
    BY <1>10 DEF MarkFailed, slots
  <2>6. \A k \in Jobs \ {j} : task'[k] = task[k]
    BY <1>1, <2>3
  <2>7. ~Working(j)'
    BY <1>1, <2>3, <2>4 DEF Working, NoTask
  <2> QED BY <1>1, <1>2, <2>2, <2>5, <2>6, <2>7, OneTaskMoves
<1>11. CASE Reap
  <2>1. ASSUME sched.todo = {}, NextPass("release", {j \in Jobs : Surplus(j)}),
               UNCHANGED <<task, slots>>
        PROVE  TaskInv'
    <3>1. sched'.pc = "release" /\ sched'.todo = {j \in Jobs : Surplus(j)}
      BY <1>4, <2>1 DEF NextPass, SchedRows
    <3>2. \A j \in sched'.todo : task[j].pc = "none"
      BY <3>1 DEF Surplus
    <3> QED BY <1>1, <1>2, <1>3, <2>1, <3>1, <3>2, SchedulerMoves DEF slots
  <2>2. ASSUME NEW j \in sched.todo, Done(j), UNCHANGED <<task, slots>>, sched.pc = "reap"
        PROVE  TaskInv'
    <3>1. sched'.pc = "reap"
      BY <1>4, <2>2 DEF Done, SchedRows
    <3> QED BY <1>1, <1>2, <1>3, <2>2, <3>1, SchedulerMoves DEF slots
  <2>3. ASSUME NEW j \in sched.todo, Forget(j), Done(j), UNCHANGED slots, sched.pc = "reap"
        PROVE  TaskInv'
    <3>1. sched'.pc = "reap"
      BY <1>4, <2>3 DEF Done, SchedRows
    <3>2. ~Working(j)' /\ \A k \in Jobs \ {j} : task'[k] = task[k]
      BY <1>1, <2>3 DEF Forget, Working, NoTask
    <3> QED BY <1>1, <1>2, <2>3, <3>1, <3>2, OneTaskMoves DEF slots
  <2>4. ASSUME NEW j \in sched.todo, task[j].pc = "done", Release(j), UNCHANGED task, TakeUp(j, "lock")
        PROVE  TaskInv'
    <3>1. sched'.pc = "lock" /\ sched'.job = j
      BY <1>4, <2>4 DEF TakeUp, SchedRows
    <3>2. ~Working(j)' /\ \A k \in Jobs \ {j} : k \in owners => k \in owners'
      BY <2>4 DEF Working, Release
    <3> QED BY <1>1, <1>2, <2>4, <3>1, <3>2, OneTaskMoves
  <2> QED BY <1>11, <2>1, <2>2, <2>3, <2>4 DEF Reap
<1>12. CASE ReleasePass
  <2>1. ASSUME NEW j \in sched.todo, Done(j), Release(j), UNCHANGED task
        PROVE  TaskInv'
    <3>1. sched'.pc = "release" /\ sched'.todo = sched.todo \ {j}
      BY <1>4, <1>12, <2>1 DEF ReleasePass, Done, SchedRows
    <3>2. \A k \in sched.todo : task[k].pc = "none"
      BY <1>1, <1>12 DEF ReleasePass, TaskInv, SurplusIsTaskless
    <3>3. ~Working(j)' /\ \A k \in Jobs \ {j} : k \in owners => k \in owners'
      BY <2>1, <3>2 DEF Working, Release
    <3> QED BY <1>1, <1>2, <2>1, <3>1, <3>2, <3>3, OneTaskMoves
  <2>2. ASSUME Reread("submit", sched.snap, {}),
               UNCHANGED <<task, slots>>
        PROVE  TaskInv'
    <3>1. sched'.pc = "submit"
      BY <1>4, <2>2 DEF Reread, SchedRows
    <3> QED BY <1>1, <1>2, <1>3, <2>2, <3>1, SchedulerMoves DEF slots
  <2> QED BY <1>12, <2>1, <2>2 DEF ReleasePass
<1>13. CASE SubmitPass
  <2>1. ASSUME NEW j \in sched.todo, Done(j), Submit(j) PROVE TaskInv'
    <3>1. sched'.pc = "submit"
      BY <1>4, <1>13, <2>1 DEF SubmitPass, Done, SchedRows
    <3>2. j \in owners' /\ \A k \in Jobs \ {j} : task'[k] = task[k] /\ (k \in owners => k \in owners')
      BY <1>1, <2>1 DEF Submit, TryAcquire
    <3> QED BY <1>1, <1>2, <3>1, <3>2, OneTaskMoves
  <2>2. ASSUME Done(sched.job) \/ (\E j \in sched.todo : Done(j)) \/ NextPass("top", {}),
               UNCHANGED <<task, slots>>
        PROVE  TaskInv'
    <3>1. sched'.pc \in {"submit", "top"}
      BY <1>4, <1>13, <2>2 DEF SubmitPass, Done, NextPass, SchedRows
    <3> QED BY <1>1, <1>2, <1>3, <2>2, <3>1, SchedulerMoves DEF slots
  <2> QED BY <1>13, <2>1, <2>2 DEF SubmitPass
<1> QED BY <1>5, <1>6, <1>7, <1>8, <1>9, <1>10, <1>11, <1>12, <1>13, Scheduler DEF Scheduler

LEMMA TasksAndLanesKept ==
    ASSUME IInv, [Next]_vars
    PROVE  TaskInv'
<1>1. TaskInv /\ Domains /\ SlotsDomains
  BY DEF IInv, TaskInv, SlotsIInv
<1>2. ASSUME NEW j \in Jobs, Api(j) \/ PollDue(j) PROVE TaskInv'
  BY <1>1, <1>2, TasksLeftAlone DEF Api, CheckCredentials, StoreCredentials, PollDue, slots
<1>3. ASSUME NEW c \in Leasers, Lease(c) PROVE TaskInv'
  BY <1>1, <1>3, LeasersApart, TasksLeftAlone DEF Lease
<1>4. CASE EndClose
  <2>1. \A j \in Jobs : ~Working(j)' /\ task'[j].pc \in {"none", "done"}
    BY <1>4 DEF EndClose, Working
  <2> QED BY <1>1, <1>4, <2>1
          DEF EndClose, TaskInv, InHand, SurplusIsTaskless, StepHoldsLane, ClosedForGood
<1>5. CASE User
  <2>1. CASE BeginClose
    <3>1. \A j \in Jobs : Working(j)' = Working(j)
      BY <2>1 DEF BeginClose, Working
    <3> QED BY <1>1, <2>1, <3>1 DEF BeginClose, slots,
               TaskInv, InHand, SurplusIsTaskless, StepHoldsLane, ClosedForGood
  <2>2. ASSUME NEW j \in Jobs, FullStop(j) \/ PauseJob(j) \/ ResumeJob(j) \/ TryCredentials(j)
        PROVE  TaskInv'
    BY <1>1, <2>2, TasksLeftAlone DEF FullStop, PauseJob, ResumeJob, TryCredentials, slots
  <2> QED BY <1>5, <2>1, <2>2 DEF User
<1>6. CASE UNCHANGED vars
  BY <1>1, <1>6, TasksLeftAlone DEF vars, slots
<1> QED BY <1>2, <1>3, <1>4, <1>5, <1>6, TaskKeepsLane, PassesKeepLanes, [Next]_vars DEF Next

----------------------------------------------------------------------------

LEMMA Invariance == Spec => []IInv
<1>1. IInv /\ [Next]_vars => IInv'
  BY PoolKept, DomainsKept, TasksAndLanesKept DEF IInv, TaskInv
<1> QED BY <1>1, Initially, PTL DEF Spec

\* From its submission to its finally clause a task of the executor has a lane,
\* whatever the scheduler's passes, the requests and close() do meanwhile.
THEOREM TasksHoldLanes == Spec => []StepHoldsLane
<1>1. IInv => StepHoldsLane
  BY DEF IInv
<1> QED BY <1>1, Invariance, PTL

\* At most Limit sources are worked on at once in the process, the standalone
\* jobs and the leases of batches and local saves counted together.
THEOREM SourcesBounded == Spec => []SourcesWithinLimit
<1>1. IInv => SourcesWithinLimit
  <2> SUFFICES ASSUME IInv PROVE SourcesWithinLimit
    OBVIOUS
  <2>1. LeaseKeepsLane
    BY CountsKeepLanes DEF IInv
  <2>2. WorkedOn \subseteq owners
    BY <2>1 DEF IInv, StepHoldsLane, WorkedOn, LeaseKeepsLane
  <2>3. IsFiniteSet(owners) /\ Cardinality(owners) <= Limit
    BY OwnersFinite DEF IInv, SlotsIInv, WithinLimit
  <2>4. IsFiniteSet(WorkedOn) /\ Cardinality(WorkedOn) <= Cardinality(owners)
    BY <2>2, <2>3, FS_Subset
  <2>5. Cardinality(owners) \in Nat /\ Cardinality(WorkedOn) \in Nat
    BY <2>3, <2>4, FS_CardinalityType
  <2> QED BY <2>3, <2>4, <2>5, SlotsAssumption DEF SourcesWithinLimit
<1> QED BY <1>1, Invariance, PTL

\* Once close() has returned no task works and no standalone job has a lane.
THEOREM CloseIsQuiet == Spec => []ClosedIsQuiet
<1>1. IInv => ClosedIsQuiet
  BY DEF IInv, ClosedForGood, ClosedIsQuiet, Working
<1> QED BY <1>1, Invariance, PTL

----------------------------------------------------------------------------
(* Type correctness, with the bound on the executor's tasks. *)

TasksBounded == Cardinality(Tasks) <= Limit

\* Only a submission adds a task.
LEMMA TasksGrow ==
    ASSUME IInv, [Next]_vars
    PROVE  \/ Tasks' \subseteq Tasks
           \/ \E j \in Jobs : Ready(j) /\ Tasks' = Tasks \cup {j}
<1>1. /\ TaskInv /\ task \in [Jobs -> TaskRows]
      /\ sched.todo \subseteq Jobs
  BY PassesTyped DEF IInv, TaskInv, Domains
<1>2. CASE UNCHANGED task
  BY <1>2 DEF Tasks
<1>3. ASSUME NEW j \in Jobs, Submit(j) PROVE Ready(j) /\ Tasks' = Tasks \cup {j}
  BY <1>1, <1>3 DEF Submit, Tasks
<1>4. ASSUME NEW j \in Jobs, Forget(j) PROVE Tasks' \subseteq Tasks
  BY <1>1, <1>4 DEF Forget, Tasks, NoTask
<1>5. ASSUME NEW j \in Jobs, Task(j) PROVE Tasks' \subseteq Tasks
  <2>1. task[j].pc # "none"
    BY <1>5 DEF Task, Enter, StepBegins, StepEnds, StepSettles, Conclude, GiveBack
  <2>2. \A k \in Jobs \ {j} : task'[k] = task[k]
    BY <1>1, <1>5 DEF Task, Enter, StepBegins, StepEnds, StepSettles, Conclude, GiveBack
  <2> QED BY <2>1, <2>2 DEF Tasks
<1>6. CASE Scheduler
  <2>1. CASE SubmitPass
    BY <1>1, <1>2, <1>3, <2>1 DEF SubmitPass
  <2>2. CASE Reap
    BY <1>1, <1>2, <1>4, <2>2 DEF Reap
  <2>3. CASE MarkFailed
    <3>1. sched.job \in Jobs
      BY <1>1, <2>3 DEF MarkFailed, TaskInv, InHand
    <3> QED BY <1>2, <1>4, <2>3, <3>1 DEF MarkFailed
  <2>4. CASE BeginRound \/ StopPass \/ PausePass \/ PauseWrite \/ LockFailed \/ ReleasePass
    BY <1>2, <2>4 DEF BeginRound, StopPass, PausePass, PauseWrite, LockFailed, ReleasePass
  <2> QED BY <1>6, <2>1, <2>2, <2>3, <2>4 DEF Scheduler
<1>7. CASE User \/ EndClose
  BY <1>2, <1>7 DEF User, EndClose, BeginClose, FullStop, PauseJob, ResumeJob, TryCredentials
<1>8. ASSUME NEW j \in Jobs, Api(j) \/ PollDue(j) PROVE UNCHANGED task
  BY <1>8 DEF Api, CheckCredentials, StoreCredentials, PollDue
<1>9. ASSUME NEW c \in Leasers, Lease(c) PROVE UNCHANGED task
  BY <1>9 DEF Lease
<1>10. CASE UNCHANGED vars
  BY <1>10 DEF vars, Tasks
<1> QED BY <1>2, <1>5, <1>6, <1>7, <1>8, <1>9, <1>10, [Next]_vars DEF Next

LEMMA BoundKept ==
    ASSUME IInv, TasksBounded, [Next]_vars
    PROVE  TasksBounded'
<1>1. IsFiniteSet(Tasks) /\ Cardinality(Tasks) \in Nat
  BY SlotsAssumption, FS_Subset, FS_CardinalityType DEF Tasks
<1>2. CASE Tasks' \subseteq Tasks
  <2>1. IsFiniteSet(Tasks') /\ Cardinality(Tasks') <= Cardinality(Tasks)
    BY <1>1, <1>2, FS_Subset
  <2>2. Cardinality(Tasks') \in Nat
    BY <2>1, FS_CardinalityType
  <2> QED BY <1>1, <2>1, <2>2, SlotsAssumption DEF TasksBounded
<1>3. ASSUME NEW j \in Jobs, Ready(j), Tasks' = Tasks \cup {j} PROVE TasksBounded'
  <2>1. j \notin Tasks /\ Cardinality(Tasks) < Limit
    BY <1>3 DEF Ready, Tasks
  <2>2. Cardinality(Tasks') = Cardinality(Tasks) + 1
    BY <1>1, <1>3, <2>1, FS_AddElement
  <2> QED BY <1>1, <2>1, <2>2, SlotsAssumption DEF TasksBounded
<1> QED BY <1>2, <1>3, TasksGrow

\* Every variable of the worker keeps its domain, and at most Limit tasks are
\* handed to an executor of Limit threads, so that none of them waits for one.
THEOREM WorkerTypeCorrect == Spec => []TypeOK
<1>1. Init => TasksBounded
  <2> SUFFICES ASSUME Init PROVE TasksBounded
    OBVIOUS
  <2>1. Tasks = {}
    BY DEF Init, Tasks, NoTask
  <2> QED BY <2>1, FS_EmptySet, SlotsAssumption DEF TasksBounded
<1>2. IInv /\ TasksBounded /\ [Next]_vars => TasksBounded'
  BY BoundKept
<1>3. IInv /\ TasksBounded => TypeOK
  BY InvariantTypes DEF IInv, Domains, TypeOK, TasksBounded
<1> QED BY <1>1, <1>2, <1>3, Invariance, PTL DEF Spec

----------------------------------------------------------------------------
(* A stopped job and its credentials. *)

\* A stopped job was asked to stop; nobody is about to store credentials of it.
StoppedClean(j) ==
    jobs[j].st = "stopped" => jobs[j].stop /\ j \notin clients /\ guard[j] # "put"

StopInv ==
    /\ \A j \in Jobs : StoppedClean(j)
    /\ sched.pc = "stop" => \A j \in sched.todo : jobs[j].stop

\* A step that touches one job, and leaves the pass of the stops alone.
LEMMA OneJobMoves ==
    ASSUME StopInv, NEW j \in Jobs, StoppedClean(j)', jobs[j].stop => jobs'[j].stop,
           \A k \in Jobs \ {j} : /\ jobs'[k] = jobs[k] /\ guard'[k] = guard[k]
                                 /\ k \in clients' => k \in clients,
           sched.todo \subseteq Jobs, sched'.todo \subseteq sched.todo,
           sched'.pc = "stop" => sched.pc = "stop"
    PROVE  StopInv'
BY DEF StopInv, StoppedClean

LEMMA NoJobMoves ==
    ASSUME StopInv, jobs' = jobs, guard' = guard, clients' \subseteq clients,
           sched.todo \subseteq Jobs, sched'.todo \subseteq sched.todo,
           sched'.pc = "stop" => sched.pc = "stop"
    PROVE  StopInv'
BY DEF StopInv, StoppedClean

LEMMA SchedulerKeepsStops ==
    ASSUME IInv, StopInv, Scheduler
    PROVE  StopInv'
<1>1. /\ sched \in SchedRows /\ sched.todo \subseteq Jobs
      /\ jobs \in [Jobs -> JobRows] /\ guard \in [Jobs -> GuardHolders] /\ InHand
  BY PassesTyped DEF IInv, Domains
<1>2. CASE BeginRound
  <2>1. sched' = [sched EXCEPT !.pc = "ended"] \/
        (sched'.pc = "stop" /\ sched'.todo = StopRequested)
    BY <1>1, <1>2 DEF BeginRound, Reread, SchedRows
  <2>2. sched'.pc = "stop" => \A j \in sched'.todo : jobs[j].stop
    BY <1>1, <2>1 DEF SchedRows, StopRequested
  <2> QED BY <1>2, <2>2 DEF BeginRound, StopInv, StoppedClean
<1>3. CASE StopPass
  <2>1. ASSUME NEW j \in sched.todo, Done(j), StopsJob(j), TryLock(j), guard' = guard
        PROVE  StopInv'
    <3>1. j \in Jobs /\ jobs[j].stop /\ jobs[j] \in JobRows
      BY <1>1, <1>3 DEF StopPass, StopInv
    <3>2. jobs'[j] = [jobs[j] EXCEPT !.st = "stopped", !.pause = FALSE, !.busy = FALSE]
      BY <1>1, <2>1, <3>1 DEF StopsJob
    <3>3. jobs'[j].stop
      BY <3>1, <3>2 DEF JobRows
    <3>4. StoppedClean(j)'
      BY <2>1, <3>3 DEF StoppedClean, StopsJob, TryLock
    <3>5. sched'.pc = sched.pc /\ sched'.todo \subseteq sched.todo
      BY <1>1, <2>1 DEF Done, SchedRows
    <3>6. \A k \in Jobs \ {j} : jobs'[k] = jobs[k] /\ (k \in clients' => k \in clients)
      BY <1>1, <2>1 DEF StopsJob
    <3> QED BY <1>1, <2>1, <3>1, <3>3, <3>4, <3>5, <3>6, OneJobMoves
  <2>2. ASSUME NEW j \in sched.todo, Done(j), UNCHANGED <<jobs, clients, guard>>
        PROVE  StopInv'
    <3>1. sched'.pc = sched.pc /\ sched'.todo \subseteq sched.todo
      BY <1>1, <2>2 DEF Done, SchedRows
    <3> QED BY <1>1, <2>2, <3>1, NoJobMoves
  <2>3. ASSUME NextPass("pause", sched.snap), UNCHANGED <<jobs, clients, guard>>
        PROVE  StopInv'
    <3>1. sched'.pc = "pause"
      BY <1>1, <2>3 DEF NextPass, SchedRows
    <3> QED BY <2>3, <3>1 DEF StopInv, StoppedClean
  <2> QED BY <1>3, <2>1, <2>2, <2>3 DEF StopPass
<1>4. CASE PausePass \/ LockFailed
  <2>1. sched'.pc # "stop" /\ UNCHANGED <<jobs, clients>>
    BY <1>1, <1>4 DEF PausePass, LockFailed, Done, TakeUp, Reread, SchedRows
  <2>2. \A k \in Jobs : guard'[k] \in {guard[k], "sched"}
    BY <1>1, <1>4 DEF PausePass, LockFailed
  <2> QED BY <2>1, <2>2 DEF StopInv, StoppedClean
<1>5. CASE PauseWrite \/ MarkFailed
  <2>1. PICK j \in Jobs : j = sched.job
    BY <1>1, <1>5 DEF PauseWrite, MarkFailed, InHand
  <2>2. sched'.pc # "stop"
    BY <1>1, <1>5 DEF PauseWrite, MarkFailed, WriteState, SchedRows
  <2>3. clients' = clients /\ guard' = [guard EXCEPT ![j] = "free"]
    BY <1>5, <2>1 DEF PauseWrite, MarkFailed
  <2>4. jobs' = jobs \/ jobs' = [jobs EXCEPT ![j].st = "parked"]
    BY <1>5, <2>1 DEF PauseWrite, MarkFailed, WriteState
  <2>5. jobs[j] \in JobRows
    BY <1>1
  <2>6. \A k \in Jobs : /\ jobs'[k] = jobs[k] \/ jobs'[k].st = "parked"
                        /\ guard'[k] \in {guard[k], "free"}
    BY <1>1, <2>3, <2>4, <2>5 DEF JobRows
  <2> QED BY <2>2, <2>3, <2>6 DEF StopInv, StoppedClean
<1>6. CASE Reap \/ ReleasePass \/ SubmitPass
  <2>1. sched'.pc # "stop"
    BY <1>1, <1>6 DEF Reap, ReleasePass, SubmitPass, Done, TakeUp, NextPass, Reread, SchedRows
  <2>2. UNCHANGED <<jobs, clients, guard>>
    BY <1>6 DEF Reap, ReleasePass, SubmitPass
  <2> QED BY <2>1, <2>2 DEF StopInv, StoppedClean
<1> QED BY <1>2, <1>3, <1>4, <1>5, <1>6 DEF Scheduler

LEMMA TaskKeepsStops ==
    ASSUME IInv, StopInv, NEW j \in Jobs, Task(j)
    PROVE  StopInv'
<1>1. /\ sched \in SchedRows /\ sched.todo \subseteq Jobs /\ jobs[j] \in JobRows
      /\ jobs \in [Jobs -> JobRows] /\ guard \in [Jobs -> GuardHolders]
  BY PassesTyped DEF IInv, Domains
<1>2. sched' = sched /\ StoppedClean(j)
  BY DEF Task, Enter, StepBegins, StepEnds, StepSettles, Conclude, GiveBack, StopInv
<1>3. CASE Enter(j) \/ StepBegins(j) \/ Conclude(j) \/ GiveBack(j)
  <2>1. UNCHANGED <<jobs, clients>> /\ \A k \in Jobs : guard'[k] \in {guard[k], "task"}
    BY <1>1, <1>3 DEF Enter, StepBegins, Conclude, GiveBack
  <2> QED BY <1>2, <2>1 DEF StopInv, StoppedClean
<1>4. CASE StepEnds(j)
  <2>1. guard' \in {guard, [guard EXCEPT ![j] = "free"]}
    BY <1>4 DEF StepEnds
  <2>2. CASE UNCHANGED <<jobs, clients>>
    <3>1. \A k \in Jobs : guard'[k] \in {guard[k], "free"}
      BY <1>1, <2>1
    <3> QED BY <1>2, <2>2, <3>1 DEF StopInv, StoppedClean
  <2>3. ASSUME NEW st \in {"running", "parked"}, NEW busy \in BOOLEAN,
               jobs' = [jobs EXCEPT ![j].st = st, ![j].busy = busy],
               clients' = IF st = "running" THEN clients \cup {j} ELSE clients \ {j}
        PROVE  StopInv'
    <3>1. jobs'[j].st = st /\ jobs'[j].stop = jobs[j].stop
      BY <1>1, <2>3 DEF JobRows
    <3>2. StoppedClean(j)'
      BY <3>1 DEF StoppedClean
    <3>3. \A k \in Jobs \ {j} : /\ jobs'[k] = jobs[k] /\ guard'[k] = guard[k]
                                /\ k \in clients' => k \in clients
      BY <1>1, <2>1, <2>3
    <3> QED BY <1>1, <1>2, <3>1, <3>2, <3>3, OneJobMoves
  <2> QED BY <1>4, <2>2, <2>3 DEF StepEnds
<1>5. CASE StepSettles(j)
  <2>1. guard' = [guard EXCEPT ![j] = "free"] /\ guard'[j] = "free"
    BY <1>1, <1>5 DEF StepSettles
  <2>2. CASE UNCHANGED <<jobs, clients>>
    <3>1. \A k \in Jobs : guard'[k] \in {guard[k], "free"}
      BY <1>1, <2>1
    <3> QED BY <1>2, <2>2, <3>1 DEF StopInv, StoppedClean
  <2>3. CASE StopsJob(j) /\ jobs[j].stop
    <3>1. jobs'[j] = [jobs[j] EXCEPT !.st = "stopped", !.pause = FALSE, !.busy = FALSE]
      BY <1>1, <2>3 DEF StopsJob
    <3>2. jobs'[j].stop
      BY <1>1, <2>3, <3>1 DEF JobRows
    <3>3. StoppedClean(j)'
      BY <2>1, <2>3, <3>2 DEF StoppedClean, StopsJob
    <3>4. \A k \in Jobs \ {j} : /\ jobs'[k] = jobs[k] /\ guard'[k] = guard[k]
                                /\ k \in clients' => k \in clients
      BY <1>1, <2>1, <2>3 DEF StopsJob
    <3> QED BY <1>1, <1>2, <3>2, <3>3, <3>4, OneJobMoves
  <2> QED BY <1>5, <2>2, <2>3 DEF StepSettles
<1> QED BY <1>3, <1>4, <1>5 DEF Task

LEMMA RequestsKeepStops ==
    ASSUME IInv, StopInv, NEW j \in Jobs,
           FullStop(j) \/ PauseJob(j) \/ ResumeJob(j) \/ TryCredentials(j) \/ Api(j)
    PROVE  StopInv'
<1>1. /\ sched.todo \subseteq Jobs /\ jobs[j] \in JobRows
      /\ jobs \in [Jobs -> JobRows] /\ guard \in [Jobs -> GuardHolders]
  BY PassesTyped DEF IInv, Domains
<1>2. sched' = sched /\ StoppedClean(j)
  BY DEF FullStop, PauseJob, ResumeJob, TryCredentials, Api, CheckCredentials, StoreCredentials,
     StopInv
<1>3. \A k \in Jobs \ {j} : /\ jobs'[k] = jobs[k] /\ guard'[k] = guard[k]
                            /\ k \in clients' => k \in clients
  BY <1>1 DEF FullStop, PauseJob, ResumeJob, TryCredentials, Api, CheckCredentials,
     StoreCredentials
<1>4. jobs[j].stop => jobs'[j].stop
  BY <1>1 DEF FullStop, PauseJob, ResumeJob, TryCredentials, Api, CheckCredentials,
     StoreCredentials, JobRows
<1>5. StoppedClean(j)'
  <2>1. CASE FullStop(j) \/ PauseJob(j)
    <3>1. jobs'[j].st = jobs[j].st /\ UNCHANGED <<clients, guard>>
      BY <1>1, <2>1 DEF FullStop, PauseJob, JobRows
    <3> QED BY <1>2, <1>4, <3>1 DEF StoppedClean
  <2>2. CASE ResumeJob(j)
    <3>1. jobs'[j].st = "running"
      BY <1>1, <2>2 DEF ResumeJob, JobRows
    <3> QED BY <3>1 DEF StoppedClean
  <2>3. CASE TryCredentials(j)
    BY <2>3 DEF TryCredentials, StoppedClean
  <2>4. CASE CheckCredentials(j)
    <3>1. jobs' = jobs /\ clients' = clients /\ (guard'[j] = "put" => ~jobs[j].stop)
      BY <1>1, <2>4 DEF CheckCredentials
    <3> QED BY <1>2, <3>1 DEF StoppedClean
  <2>5. CASE StoreCredentials(j)
    BY <1>2, <2>5 DEF StoreCredentials, StoppedClean
  <2> QED BY <2>1, <2>2, <2>3, <2>4, <2>5 DEF Api
<1> QED BY <1>1, <1>2, <1>3, <1>4, <1>5, OneJobMoves

LEMMA StopsKept ==
    ASSUME IInv, StopInv, [Next]_vars
    PROVE  StopInv'
<1>1. sched.todo \subseteq Jobs
  BY PassesTyped DEF IInv
<1>2. CASE User
  <2>1. CASE BeginClose
    BY <1>1, <2>1, NoJobMoves DEF BeginClose
  <2> QED BY <1>2, <2>1, RequestsKeepStops DEF User
<1>3. CASE EndClose
  BY <1>1, <1>3, NoJobMoves DEF EndClose
<1>4. ASSUME NEW j \in Jobs, PollDue(j)
      PROVE  StopInv'
  BY <1>1, <1>4, NoJobMoves DEF PollDue
<1>5. ASSUME NEW c \in Leasers, Lease(c)
      PROVE  StopInv'
  BY <1>1, <1>5, NoJobMoves DEF Lease
<1>6. CASE UNCHANGED vars
  BY <1>1, <1>6, NoJobMoves DEF vars
<1> QED BY <1>2, <1>3, <1>4, <1>5, <1>6, SchedulerKeepsStops, TaskKeepsStops, RequestsKeepStops,
           [Next]_vars DEF Next

\* No credentials of a stopped job stay in memory, a check of new ones that the stop
\* overtakes included (_stop_one_job, onprem_credentials).
THEOREM StoppedAreForgotten == Spec => []StopForgetsCredentials
<1>1. Init => StopInv
  <2> SUFFICES ASSUME Init PROVE StopInv
    OBVIOUS
  <2>1. sched.pc = "top" /\ \A j \in Jobs : jobs[j].st # "stopped"
    BY DEF Init
  <2> QED BY <2>1 DEF StopInv, StoppedClean
<1>2. IInv /\ StopInv /\ [Next]_vars => StopInv'
  BY StopsKept
<1>3. StopInv => StopForgetsCredentials
  BY DEF StopInv, StoppedClean, StopForgetsCredentials
<1> QED BY <1>1, <1>2, <1>3, Invariance, PTL DEF Spec

\* Nobody but its holder moves a job whose guard is held and stays held: a stop, a pause
\* and a failed task are written under the guard (_stop_one_job, _pause_idle_jobs, _run).
THEOREM StatesAreGuarded == Spec => StateIsGuarded
<1> DEFINE Kept(j) == guard[j] # "free" /\ guard'[j] = guard[j] =>
                          (jobs'[j].st = jobs[j].st \/ task[j].pc = "stepping")
<1>1. ASSUME IInv, Next, NEW j \in Jobs
      PROVE  Kept(j)
  <2>1. /\ InHand /\ jobs \in [Jobs -> JobRows] /\ guard \in [Jobs -> GuardHolders]
        /\ sched.todo \subseteq Jobs
    BY <1>1, PassesTyped DEF IInv, Domains
  <2>2. CASE StopPass
    BY <2>1, <2>2 DEF StopPass, StopsJob, TryLock
  <2>3. CASE PauseWrite \/ MarkFailed
    <3>1. sched.job \in Jobs /\ guard' = [guard EXCEPT ![sched.job] = "free"]
      BY <2>1, <2>3 DEF PauseWrite, MarkFailed, InHand
    <3>2. jobs' = jobs \/ jobs' = [jobs EXCEPT ![sched.job].st = "parked"]
      BY <2>3 DEF PauseWrite, MarkFailed, WriteState
    <3> QED BY <2>1, <3>1, <3>2
  <2>4. CASE BeginRound \/ PausePass \/ Reap \/ LockFailed \/ ReleasePass \/ SubmitPass
    BY <2>4 DEF BeginRound, PausePass, Reap, LockFailed, ReleasePass, SubmitPass
  <2>5. ASSUME NEW k \in Jobs, Task(k)
        PROVE  Kept(j)
    <3>1. CASE StepEnds(k)
      BY <2>1, <3>1 DEF StepEnds
    <3>2. CASE StepSettles(k)
      BY <2>1, <3>2 DEF StepSettles, StopsJob
    <3>3. CASE Enter(k) \/ StepBegins(k) \/ Conclude(k) \/ GiveBack(k)
      BY <3>3 DEF Enter, StepBegins, Conclude, GiveBack
    <3> QED BY <2>5, <3>1, <3>2, <3>3 DEF Task
  <2>6. ASSUME NEW k \in Jobs, Api(k) \/ PollDue(k)
        PROVE  jobs' = jobs
    BY <2>6 DEF Api, CheckCredentials, StoreCredentials, PollDue
  <2>7. ASSUME NEW k \in Jobs, FullStop(k) \/ PauseJob(k)
        PROVE  jobs'[j].st = jobs[j].st
    <3>1. jobs[k] \in JobRows
      BY <2>1
    <3> QED BY <2>1, <2>7, <3>1 DEF FullStop, PauseJob, JobRows
  <2>8. ASSUME NEW k \in Jobs, ResumeJob(k) \/ TryCredentials(k)
        PROVE  Kept(j)
    BY <2>1, <2>8 DEF ResumeJob, TryCredentials
  <2>9. CASE BeginClose \/ EndClose \/ \E c \in Leasers : Lease(c)
    BY <2>9 DEF BeginClose, EndClose, Lease
  <2> QED BY <1>1, <2>2, <2>3, <2>4, <2>5, <2>6, <2>7, <2>8, <2>9 DEF Next, Scheduler, User
<1>2. IInv /\ [Next]_vars => [\A j \in Jobs : Kept(j)]_vars
  BY <1>1
<1> QED BY <1>2, Invariance, PTL DEF Spec, StateIsGuarded
=============================================================================
