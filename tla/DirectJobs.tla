----------------------------- MODULE DirectJobs -----------------------------
(***************************************************************************)
(* The direct copies of main.py in one process: the requests that start    *)
(* them, the thread of each job, JOBS and its lock, the journal they write *)
(* (RunJournal), the copiers they run (DirectCopy), a client that follows  *)
(* a run through its event stream, the cleanup of the history, and the     *)
(* process that dies and starts again.                                     *)
(*                                                                         *)
(* All jobs belong to one mode of the journal: a cleanup acts on one mode. *)
(* A copier writes many events; those that end a resource or the copier    *)
(* stand for all of them.                                                  *)
(*                                                                         *)
(* A definition just before the one its name begins like, and used nowhere *)
(* else, is a seeded defect: in its neighbour's place it must break one of *)
(* the properties.                                                         *)
(***************************************************************************)
EXTENDS RunJournal, DirectCopy

CONSTANTS
    Lanes,          \* limit of SOURCE_SLOTS
    PageLimit,      \* limit of a page of events
    Unused,         \* the job of a copier no request asks for
    Scenarios       \* bound: which jobs, requests and mishaps to consider together

ASSUME DirectAssumption ==
    /\ Lanes \in Nat \ {0} /\ PageLimit \in Nat \ {0} /\ Unused \notin Runs
    /\ Scenarios \subseteq [work : Works, listed : Listings, active : BOOLEAN,
                            jobs : [Copiers -> Runs \cup {Unused}],
                            requests : Nat, mishaps : Nat]

VARIABLES
    jobOf,          \* the job of each copier: one for a batch, one each otherwise
    jobs,           \* JOBS: status and journal_error of each job
    thread,         \* _run_job or _run_batch of each job
    locked,         \* the jobs whose thread holds JOBS_LOCK: at most one
    journal,        \* app.state.run_journal: open, unavailable, or no process
    reader,         \* the stream a client follows
    missed,         \* runs of which some event could not be written
    budget          \* what the bounds leave of requests and mishaps

jobVars == <<jobs, thread, locked, journal, missed>>
vars == <<jobOf, jobVars, reader, budget, journalVars, copyVars>>

NoJob == [st |-> "none", lossy |-> FALSE]
NoReader == [pc |-> "closed", run |-> "none", cursor |-> 0, st |-> "none", said |-> "none"]
ReaderStates == {"closed", "read", "snapshot", "recheck", "cut", "ended"}
Answers == {"none", "done", "error", "journal_error"}

TypeOK ==
    /\ JournalTypeOK /\ CopyTypeOK
    /\ jobOf \in [Copiers -> Runs \cup {Unused}]
    /\ jobs \in [Runs -> [st : {"none", "running", "done", "error"}, lossy : BOOLEAN]]
    /\ thread \in [Runs -> {"none", "run", "finished", "end"}]
    /\ locked \subseteq Runs
    /\ journal \in {"open", "unavailable", "down"}
    /\ reader \in [pc : ReaderStates, run : Runs \cup {"none"}, cursor : Nat,
                   st : Statuses \cup {"none"}, said : Answers]
    /\ missed \subseteq Runs
    /\ budget \in [requests : Nat, mishaps : Nat]

Init ==
    /\ CopyInit /\ JournalInit
    /\ \E s \in Scenarios :
         /\ given = [work |-> s.work, listed |-> s.listed, active |-> s.active]
         /\ jobOf = s.jobs
         /\ budget = [requests |-> s.requests, mishaps |-> s.mishaps]
    /\ jobs = [j \in Runs |-> NoJob]
    /\ thread = [j \in Runs |-> "none"]
    /\ locked = {}
    /\ journal = "open"
    /\ reader = NoReader
    /\ missed = {}

CopiersOf(j) == {c \in Copiers : jobOf[c] = j}
InMemory(j) == jobs[j].st # "none"
Free == locked = {}

Spend(requests, mishaps) ==
    /\ budget.requests >= requests /\ budget.mishaps >= mishaps
    /\ budget' = [requests |-> budget.requests - requests,
                  mishaps |-> budget.mishaps - mishaps]
Request == Spend(1, 0)
Mishap == Spend(0, 1)

\* JobLog.event: an event that cannot be written marks the job.
Unwritten(j) ==
    /\ jobs' = [jobs EXCEPT ![j].lossy = TRUE]
    /\ missed' = missed \cup {j}
    /\ UNCHANGED journalVars
LogEvent(j) ==
    \/ AppendEvent(j, "log") /\ UNCHANGED <<jobs, missed, budget>>
    \/ Mishap /\ Unwritten(j)

----------------------------------------------------------------------------
(* Starting a job, under JOBS_LOCK. *)

\* The row, its first event and the retry setting, which may not be written;
\* then the job is in JOBS.  An identifier is issued once.
CreateJob(j, status, lossy) ==
    /\ journal = "open" /\ Free
    /\ thread[j] = "none" /\ CopiersOf(j) # {}
    /\ jobs' = [jobs EXCEPT ![j] = [st |-> status, lossy |-> lossy]]

Start(j) ==
    /\ \/ /\ CreateJob(j, "running", FALSE)
          /\ Create(j, Row("running", FALSE), <<"log">>)
          /\ UNCHANGED <<missed, budget>>
       \/ /\ CreateJob(j, "running", TRUE)
          /\ Create(j, Row("running", FALSE), <<>>)
          /\ missed' = missed \cup {j}
          /\ Mishap
    /\ thread' = [thread EXCEPT ![j] = "run"]
    /\ UNCHANGED <<jobOf, locked, journal, reader, copyVars>>

\* The thread of the job cannot be created: the request itself ends the job,
\* and that may not be written.
StartWithoutThread(j) ==
    /\ \/ /\ CreateJob(j, "error", FALSE)
          /\ Create(j, Row("error", FALSE), <<"log", "error">>)
          /\ Spend(0, 1)
       \/ /\ CreateJob(j, "error", TRUE)
          /\ Create(j, Row("running", FALSE), <<"log">>)
          /\ Spend(0, 2)
    /\ thread' = [thread EXCEPT ![j] = "end"]
    /\ UNCHANGED <<jobOf, locked, journal, reader, missed, copyVars>>

----------------------------------------------------------------------------
(* The thread of a job. *)

\* A local copy holds a lane of the process while its copier works.
LaneFree(c) ==
    given.work = "local" => Cardinality({d \in Copiers : pc[d] \notin Rest}) < Lanes

StartCopier(c) ==
    /\ jobOf[c] \in Runs /\ thread[jobOf[c]] = "run"
    /\ LaneFree(c)
    /\ Begin(c)
    /\ UNCHANGED <<jobOf, jobVars, reader, budget, journalVars>>

\* What the end of a resource or of the copier writes.
Settles(c) == book'[c] # book[c] \/ pc'[c] \in {"done", "failed"}

Copy(c) ==
    /\ jobOf[c] \in Runs /\ CopierStep(c)
    /\ IF Settles(c) THEN LogEvent(jobOf[c])
                     ELSE UNCHANGED <<jobs, missed, budget, journalVars>>
    /\ UNCHANGED <<jobOf, thread, locked, journal, reader>>

\* A batch fails when all its pairs did, a single job when its copy did.
Outcome(j) == IF \A c \in CopiersOf(j) : pc[c] = "failed" THEN "error" ELSE "done"

\* _complete_job, first half: JOBS_LOCK is taken and the row is finished.
Finish(j) ==
    /\ thread[j] = "run" /\ Free
    /\ \A c \in CopiersOf(j) : pc[c] \in {"done", "failed"}
    /\ thread' = [thread EXCEPT ![j] = "finished"]
    /\ locked' = {j}
    /\ \/ FinishRow(j, Outcome(j), jobs[j].lossy) /\ UNCHANGED <<jobs, budget>>
       \/ /\ Mishap
          /\ jobs' = [jobs EXCEPT ![j].lossy = TRUE]
          /\ UNCHANGED journalVars
    /\ UNCHANGED <<jobOf, journal, reader, missed, copyVars>>

\* Second half: the status in memory, and the end of the thread.
Complete(j) ==
    /\ thread[j] = "finished"
    /\ jobs' = [jobs EXCEPT ![j].st = Outcome(j)]
    /\ thread' = [thread EXCEPT ![j] = "end"]
    /\ locked' = {}
    /\ UNCHANGED <<jobOf, journal, reader, missed, budget, journalVars, copyVars>>

----------------------------------------------------------------------------
(* Requests about runs. *)

\* set_run_retries: only while the job runs.
MaySwitchKnown(j) == InMemory(j)
MaySwitch(j) == jobs[j].st = "running"
SetRetries(j, enabled) ==
    /\ Free /\ MaySwitch(j)
    /\ SwitchRetries(CopiersOf(j), enabled)
    /\ \/ /\ AppendEvent(j, "log")
          /\ Spend(1, 0)
          /\ UNCHANGED <<jobs, missed>>
       \/ /\ Spend(1, 1)
          /\ Unwritten(j)
    /\ UNCHANGED <<jobOf, thread, locked, journal, reader>>

\* cleanup_history: refused while a job runs; afterwards the jobs that are
\* over leave JOBS.  When VACUUM fails, the rows are gone and the jobs stay.
Completed == {j \in Runs : jobs[j].st \in {"done", "error"}}
Cleanup ==
    /\ journal = "open" /\ Free
    /\ \A j \in Runs : jobs[j].st # "running"
    /\ ~InUse(Completed)
    /\ DeleteAll
    /\ \/ jobs' = [j \in Runs |-> NoJob] /\ Spend(1, 0)
       \/ UNCHANGED jobs /\ Spend(1, 1)
    /\ UNCHANGED <<jobOf, thread, locked, journal, reader, missed, copyVars>>

----------------------------------------------------------------------------
(* The event stream of a run. *)

\* _snapshot prefers the job in memory to the row.
Status(j) == IF InMemory(j) THEN jobs[j].st ELSE rows[j].st
Lossy(j) == IF InMemory(j) THEN jobs[j].lossy ELSE rows[j].lossy
Known(j) == InMemory(j) \/ Saved(j)

ReaderSays(answer) == reader' = [reader EXCEPT !.pc = "ended", !.said = answer]
ReaderKeeps == UNCHANGED <<jobOf, thread, locked, journal, missed, journalVars, copyVars>>

OpenStream(j) ==
    /\ reader.pc = "closed" /\ journal = "open" /\ Free /\ Known(j)
    /\ Request
    /\ reader' = [reader EXCEPT !.pc = "read", !.run = j]
    /\ UNCHANGED jobs
    /\ ReaderKeeps

\* The client comes back with the last sequence number it has seen.
ReopenStream ==
    /\ reader.pc = "cut" /\ journal # "down" /\ Free
    /\ IF journal = "open" /\ Known(reader.run)
       THEN reader' = [reader EXCEPT !.pc = "read"]
       ELSE ReaderSays("journal_error")
    /\ UNCHANGED <<jobs, budget>>
    /\ ReaderKeeps

\* A page of events is sent; the journal is read without JOBS_LOCK.
ReadPageWaits ==
    /\ reader.pc = "read" /\ Saved(reader.run)
    /\ reader' = [reader EXCEPT !.pc = "snapshot",
                    !.cursor = PageEnd(reader.run, @, PageLimit)]
    /\ UNCHANGED <<jobs, budget>>
    /\ ReaderKeeps
ReadPage ==
    /\ reader.pc = "read"
    /\ \/ /\ Saved(reader.run)
          /\ reader' = [reader EXCEPT !.pc = "snapshot",
                          !.cursor = PageEnd(reader.run, @, PageLimit)]
          /\ UNCHANGED budget
       \/ ~Saved(reader.run) /\ ReaderSays("journal_error") /\ UNCHANGED budget
       \/ Mishap /\ ReaderSays("journal_error")
    /\ UNCHANGED jobs
    /\ ReaderKeeps

\* The status is read under JOBS_LOCK.  A row that cannot be read marks the
\* job in memory.
Snapshot ==
    /\ reader.pc = "snapshot" /\ Free
    /\ LET j == reader.run
       IN  \/ /\ Known(j)
              /\ IF Lossy(j) THEN ReaderSays("journal_error")
                 ELSE reader' = [reader EXCEPT !.st = Status(j),
                         !.pc = IF Status(j) = "running" THEN "read" ELSE "recheck"]
              /\ UNCHANGED <<jobs, budget>>
           \/ /\ ~Known(j)
              /\ ReaderSays("journal_error")
              /\ UNCHANGED <<jobs, budget>>
           \/ /\ Mishap
              /\ ReaderSays("journal_error")
              /\ jobs' = IF InMemory(j) THEN [jobs EXCEPT ![j].lossy = TRUE] ELSE jobs
    /\ ReaderKeeps

StreamAnswerRaw == reader.st
StreamAnswer == IF reader.st = "interrupted" THEN "error" ELSE reader.st

\* The run was over at the snapshot: the cutoff is read again, and the stream
\* ends once the cursor has reached it.
RecheckEndsAtOnce ==
    /\ reader.pc = "recheck"
    /\ ReaderSays(StreamAnswer)
    /\ UNCHANGED <<jobs, budget>>
    /\ ReaderKeeps
Recheck ==
    /\ reader.pc = "recheck"
    /\ \/ /\ Saved(reader.run)
          /\ IF reader.cursor >= Cutoff(reader.run) THEN ReaderSays(StreamAnswer)
             ELSE reader' = [reader EXCEPT !.pc = "read"]
          /\ UNCHANGED budget
       \/ ~Saved(reader.run) /\ ReaderSays("journal_error") /\ UNCHANGED budget
       \/ Mishap /\ ReaderSays("journal_error")
    /\ UNCHANGED jobs
    /\ ReaderKeeps

----------------------------------------------------------------------------
(* The process. *)

Crash ==
    /\ journal # "down"
    /\ Mishap
    /\ journal' = "down"
    /\ jobs' = [j \in Runs |-> NoJob]
    /\ thread' = [j \in Runs |-> IF thread[j] = "none" THEN "none" ELSE "end"]
    /\ locked' = {}
    /\ reader' = IF reader.pc \in {"closed", "ended"} THEN reader
                 ELSE [reader EXCEPT !.pc = "cut"]
    /\ KillCopiers
    /\ UNCHANGED <<jobOf, missed, journalVars>>

\* lifespan opens the journal and recovers it; when either fails, the process
\* serves without a journal until it is started again.
Restart ==
    /\ journal = "down"
    /\ \/ journal' = "open" /\ Recover /\ UNCHANGED budget
       \/ journal' = "unavailable" /\ Mishap /\ UNCHANGED journalVars
    /\ UNCHANGED <<jobOf, jobs, thread, locked, missed, reader, copyVars>>

----------------------------------------------------------------------------
JobStep(j) == Start(j) \/ Finish(j) \/ Complete(j)
StreamStep == ReopenStream \/ ReadPage \/ Snapshot \/ Recheck

Next ==
    \/ \E j \in Runs :
         \/ JobStep(j) \/ StartWithoutThread(j) \/ OpenStream(j)
         \/ \E enabled \in BOOLEAN : SetRetries(j, enabled)
    \/ \E c \in Copiers : StartCopier(c) \/ Copy(c)
    \/ Cleanup \/ StreamStep \/ Crash \/ Restart

Spec == Init /\ [][Next]_vars

\* Threads and streams run, and every request to a server returns in the end.
\* No client has to come back and nobody has to start the process again.
Fairness ==
    /\ \A j \in Runs : WF_vars(Finish(j)) /\ WF_vars(Complete(j))
    /\ \A c \in Copiers : WF_vars(StartCopier(c)) /\ WF_vars(Copy(c))
    /\ WF_vars(ReadPage \/ Snapshot \/ Recheck)

FairSpec == Spec /\ Fairness

----------------------------------------------------------------------------
(* What the application promises about its runs. *)

\* A run ends at most once and nothing is written after its end, the row of a
\* finished run tells that events are missing, and the row of a job at work is
\* a running row: a cleanup finds it and leaves it alone.
RunEndsOnce ==
    \A j \in Runs :
        /\ EndsOnce(j)
        /\ rows[j].st \in {"done", "error"} /\ j \in missed => rows[j].lossy
        /\ thread[j] = "run" => rows[j].st = "running"

\* A stream that reports the end of a run has delivered every event up to the
\* final one, and reports that end, although pages are read without the lock
\* under which the run ends, over a crash and a reconnection too.
StreamIsComplete ==
    reader.said \in {"done", "error"} /\ Saved(reader.run) =>
        /\ reader.cursor = Cutoff(reader.run)
        /\ Last(events[reader.run]) \in Finished
        /\ reader.said = "done" <=> rows[reader.run].st = "done"

\* A client that follows a stream is told how the run ended, or that the journal
\* cannot tell, unless the process dies, and so is one that comes back after it.
StreamEnds == reader.pc = "read" ~> reader.pc \in {"ended", "cut"}

=============================================================================
