-------------------------- MODULE DirectJobsProofs --------------------------
(* Proofs about the direct copies of main.py, for any sets of jobs, copiers *)
(* and resources, any number of lanes, any page limit and any scenarios.    *)
EXTENDS DirectJobs, DirectCopyProofs, SequenceTheorems

----------------------------------------------------------------------------
(* The runs: the inductive invariant. *)

\* What the proofs need to know of the domains.
RunDomains ==
    /\ JournalTypeOK
    /\ jobs \in [Runs -> [st : {"none", "running", "done", "error"}, lossy : BOOLEAN]]
    /\ thread \in [Runs -> {"none", "run", "finished", "end"}]

\* Nothing is known of a run that no request has started.
FreshIsUnknown(j) ==
    thread[j] = "none" =>
        /\ rows[j] = NoRow /\ events[j] = <<>>
        /\ jobs[j].st = "none" /\ j \notin missed

\* A thread at work has a running row and a running job, which remembers that
\* events are missing; it works in a process that is up.
WorkIsRunning(j) ==
    /\ thread[j] = "run" =>
         /\ rows[j].st = "running" /\ jobs[j].st = "running"
         /\ j \in missed => jobs[j].lossy
    /\ thread[j] \in {"run", "finished"} => journal # "down"

\* A running job has a thread, the thread that is about to complete it holds
\* JOBS_LOCK alone, and a copier at work belongs to a thread at work.
RunningHasThread(j) ==
    /\ jobs[j].st = "running" => thread[j] \in {"run", "finished"}
    /\ thread[j] = "finished" => locked = {j}
    /\ \A c \in CopiersOf(j) : pc[c] \notin Rest => thread[j] = "run"

RowTellsMissing(j) ==
    rows[j].st \in {"done", "error"} /\ j \in missed => rows[j].lossy

RunStory(j) ==
    /\ EndsOnce(j) /\ FreshIsUnknown(j) /\ WorkIsRunning(j) /\ RunningHasThread(j)
    /\ RowTellsMissing(j)

RunIInv == RunDomains /\ \A j \in Runs : RunStory(j)
----------------------------------------------------------------------------
(* The employee is left as blocked as before. *)

LEMMA OwnerNext ==
    ASSUME OwnerIInv, [Next]_vars
    PROVE  OwnerIInv'
<1>1. ASSUME UNCHANGED <<given, pc, owner, banNeed, warned, patchLost>>
      PROVE  OwnerIInv'
  BY <1>1 DEF OwnerIInv, OwnerDomains, BlockIsGiven, LiftedIsOwed
<1>2. ASSUME UNCHANGED copyVars
      PROVE  OwnerIInv'
  BY <1>1, <1>2 DEF copyVars, copier, servers
<1>3. CASE \E j \in Runs : JobStep(j) \/ StartWithoutThread(j) \/ OpenStream(j)
  BY <1>2, <1>3 DEF JobStep, Start, StartWithoutThread, Finish, Complete, OpenStream,
                    ReaderKeeps
<1>4. CASE \E j \in Runs, enabled \in BOOLEAN : SetRetries(j, enabled)
  BY <1>1, <1>4 DEF SetRetries, SwitchRetries, servers
<1>5. CASE \E c \in Copiers : StartCopier(c)
  <2>1. PICK c \in Copiers : Begin(c)
    BY <1>5 DEF StartCopier
  <2>2. pc' = [pc EXCEPT ![c] = "token"] /\ pc[c] = "idle"
    BY <2>1 DEF Begin, Goto
  <2>3. "token" \in CopyStates \ Restoring
    BY DEF CopyStates, Restoring
  <2>4. pc[c] \notin Transferring \cup Restoring /\ pc[c] # "dead"
    BY <2>2 DEF Transferring, Restoring
  <2>5. UNCHANGED <<given, owner, banNeed, warned, patchLost>>
    BY <2>1 DEF Begin, servers
  <2> QED BY <2>2, <2>3, <2>4, <2>5, MovesKeepOwner
<1>6. CASE \E c \in Copiers : Copy(c)
  BY <1>6, CopierKeepsOwner DEF Copy
<1>7. CASE Cleanup \/ StreamStep \/ Restart
  BY <1>2, <1>7 DEF Cleanup, StreamStep, Restart, ReopenStream, ReadPage, Snapshot,
                    Recheck, ReaderKeeps
<1>8. CASE Crash
  BY <1>8, KillKeepsOwner DEF Crash
<1>9. CASE UNCHANGED vars
  BY <1>2, <1>9 DEF vars
<1> QED BY <1>3, <1>4, <1>5, <1>6, <1>7, <1>8, <1>9 DEF Next

LEMMA OwedIsRestored ==
    ASSUME OwnerIInv
    PROVE  OwnerRestored
<1> SUFFICES ASSUME \A c \in Copiers : pc[c] \in Rest,
                    warned = {}, ~patchLost, \A c \in Copiers : pc[c] # "dead"
             PROVE  owner = given.active
  BY DEF OwnerRestored
<1>1. \A c \in Copiers : pc[c] \notin Transferring \cup Restoring
  BY DEF Rest, Transferring, Restoring
<1>2. owner => given.active
  BY <1>1 DEF OwnerIInv, LiftedIsOwed
<1>3. given.active => owner
  BY DEF OwnerIInv, BlockIsGiven
<1>4. owner \in BOOLEAN /\ given.active \in BOOLEAN
  BY DEF OwnerIInv, OwnerDomains
<1> QED BY <1>2, <1>3, <1>4

\* However many copiers of one employee run at once, whatever they copy and
\* whichever requests to the servers fail: when none of them is at work, the
\* employee is as blocked as before, unless a journal asks for the block by
\* hand, an answer about it was lost or the process died under a copy
\* (DiskCopier.run, disk_copy.py).
THEOREM EmployeeIsRestored == Spec => []OwnerRestored
<1>1. Init => OwnerIInv
  BY OwnerInit DEF Init
<1>2. OwnerIInv /\ [Next]_vars => OwnerIInv'
  BY OwnerNext
<1>3. OwnerIInv => OwnerRestored
  BY OwedIsRestored
<1> QED BY <1>1, <1>2, <1>3, PTL DEF Spec
----------------------------------------------------------------------------
(* A run ends once. *)

LEMMA OwnerInvariant == Spec => []OwnerIInv
<1>1. Init => OwnerIInv
  BY OwnerInit DEF Init
<1>2. OwnerIInv /\ [Next]_vars => OwnerIInv'
  BY OwnerNext
<1> QED BY <1>1, <1>2, PTL DEF Spec

LEMMA RunInit ==
    ASSUME Init
    PROVE  RunIInv
<1>1. RunDomains
  <2>1. JournalTypeOK
    BY DEF Init, JournalInit, JournalTypeOK, NoRow, Row
  <2> QED BY <2>1 DEF Init, RunDomains, NoJob
<1>2. ASSUME NEW j \in Runs
      PROVE  RunStory(j)
  <2>1. rows[j] = NoRow /\ events[j] = <<>> /\ jobs[j] = NoJob /\ thread[j] = "none"
    BY DEF Init, JournalInit
  <2>2. j \notin missed /\ \A c \in Copiers : pc[c] \in Rest
    BY DEF Init, CopyInit, Rest
  <2>3. EndsOnce(j)
    BY <2>1 DEF EndsOnce
  <2> QED BY <2>1, <2>2, <2>3 DEF RunStory, FreshIsUnknown, WorkIsRunning,
             RunningHasThread, RowTellsMissing, NoRow, Row, NoJob, CopiersOf
<1> QED BY <1>1, <1>2 DEF RunIInv

\* A running run has no final event, so that one more event is the only one
\* that may be final.
LEMMA OneMoreEvent ==
    ASSUME NEW j \in Runs, RunDomains, EndsOnce(j), rows[j].st = "running",
           NEW kind \in Kinds,
           events'[j] = Append(events[j], kind),
           kind \in Finished => rows'[j].st = kind
    PROVE  EndsOnce(j)'
<1>1. events[j] \in Seq(Kinds)
  BY DEF RunDomains, JournalTypeOK
<1>2. \A i \in 1..Len(events[j]) : events[j][i] \notin Finished
  BY DEF EndsOnce, Finished
<1>3. Len(events'[j]) = Len(events[j]) + 1
  BY <1>1
<1>4. ASSUME NEW i \in 1..Len(events'[j])
      PROVE  events'[j][i] = IF i = Len(events'[j]) THEN kind ELSE events[j][i]
  BY <1>1, <1>3
<1> QED BY <1>1, <1>2, <1>3, <1>4 DEF EndsOnce

\* What a step leaves alone keeps its story.
LEMMA UntouchedRun ==
    ASSUME NEW j \in Runs, RunStory(j),
           rows'[j] = rows[j], events'[j] = events[j], jobs'[j].st = jobs[j].st,
           jobs[j].lossy => jobs'[j].lossy,
           thread'[j] = thread[j], j \in missed' <=> j \in missed,
           thread[j] = "finished" => locked' = locked,
           UNCHANGED jobOf,
           \A c \in CopiersOf(j) : pc'[c] \notin Rest => thread[j] = "run",
           thread[j] \in {"run", "finished"} => journal' # "down"
    PROVE  RunStory(j)'
<1>1. EndsOnce(j)'
  BY DEF RunStory, EndsOnce
<1>2. FreshIsUnknown(j)' /\ WorkIsRunning(j)' /\ RowTellsMissing(j)'
  BY DEF RunStory, FreshIsUnknown, WorkIsRunning, RowTellsMissing
<1>3. RunningHasThread(j)'
  BY DEF RunStory, RunningHasThread, CopiersOf
<1> QED BY <1>1, <1>2, <1>3 DEF RunStory

\* The copiers of a run whose thread is not at work are at rest.
LEMMA RestWithoutWork ==
    ASSUME NEW j \in Runs, RunStory(j), thread[j] # "run"
    PROVE  \A c \in CopiersOf(j) : pc[c] \in Rest
BY DEF RunStory, RunningHasThread

LEMMA CopiersStay ==
    ASSUME NEW j \in Runs, RunStory(j), UNCHANGED pc
    PROVE  \A c \in CopiersOf(j) : pc'[c] \notin Rest => thread[j] = "run"
BY DEF RunStory, RunningHasThread

LEMMA WorkNeedsProcess ==
    ASSUME NEW j \in Runs, RunStory(j), UNCHANGED journal
    PROVE  thread[j] \in {"run", "finished"} => journal' # "down"
BY DEF RunStory, WorkIsRunning

LEMMA StartKeepsRuns ==
    ASSUME RunIInv, NEW j \in Runs, Start(j)
    PROVE  RunIInv'
<1>1. /\ journal = "open" /\ thread[j] = "none"
      /\ UNCHANGED <<jobOf, locked, journal, pc>>
  BY DEF Start, CreateJob, copyVars, copier
<1>2. PICK lossy \in BOOLEAN, more \in {<<>>, <<"log">>} :
        /\ jobs' = [jobs EXCEPT ![j] = [st |-> "running", lossy |-> lossy]]
        /\ rows' = [rows EXCEPT ![j] = Row("running", FALSE)]
        /\ events' = [events EXCEPT ![j] = <<"running">> \o more]
        /\ missed' = IF lossy THEN missed \cup {j} ELSE missed
        /\ thread' = [thread EXCEPT ![j] = "run"]
  BY DEF Start, CreateJob, Create
<1>3. <<"running">> \o more \in Seq(Kinds)
  <2>1. <<"running">> \in Seq(Kinds) /\ <<"log">> \in Seq(Kinds)
    BY DEF Kinds, Statuses
  <2>2. <<>> \in Seq(Kinds)
    BY EmptySeq
  <2> QED BY <2>1, <2>2, ConcatProperties
<1>4. Row("running", FALSE) \in [st : Statuses \cup {"none"}, lossy : BOOLEAN]
  BY DEF Row, Statuses
<1>5. RunDomains'
  <2>1. JournalTypeOK'
    BY <1>2, <1>3, <1>4 DEF RunIInv, RunDomains, JournalTypeOK
  <2>2. jobs' \in [Runs -> [st : {"none", "running", "done", "error"}, lossy : BOOLEAN]]
    BY <1>2 DEF RunIInv, RunDomains
  <2>3. thread' \in [Runs -> {"none", "run", "finished", "end"}]
    BY <1>2 DEF RunIInv, RunDomains
  <2> QED BY <2>1, <2>2, <2>3 DEF RunDomains
<1>6. ASSUME NEW k \in Runs, k # j
      PROVE  RunStory(k)'
  <2>1. RunStory(k)
    BY DEF RunIInv
  <2>2. rows'[k] = rows[k] /\ events'[k] = events[k]
    BY <1>2, <1>6 DEF RunIInv, RunDomains, JournalTypeOK
  <2>3. jobs'[k] = jobs[k] /\ thread'[k] = thread[k]
    BY <1>2, <1>6 DEF RunIInv, RunDomains
  <2>4. k \in missed' <=> k \in missed
    BY <1>2, <1>6
  <2> QED BY <1>1, <2>1, <2>2, <2>3, <2>4, CopiersStay, WorkNeedsProcess, UntouchedRun
<1>7. RunStory(j)'
  <2>1. rows'[j] = Row("running", FALSE) /\ events'[j] = <<"running">> \o more
    BY <1>2 DEF RunIInv, RunDomains, JournalTypeOK
  <2>2. jobs'[j] = [st |-> "running", lossy |-> lossy] /\ thread'[j] = "run"
    BY <1>2 DEF RunIInv, RunDomains
  <2>3. j \in missed' => lossy
    BY <1>1, <1>2 DEF RunIInv, RunStory, FreshIsUnknown
  <2>4. EndsOnce(j)'
    <3>1. \A i \in 1..Len(events'[j]) : events'[j][i] \in {"running", "log"}
      BY <2>1
    <3> QED BY <3>1 DEF EndsOnce, Finished
  <2> QED BY <1>1, <2>1, <2>2, <2>3, <2>4 DEF RunStory, FreshIsUnknown, WorkIsRunning,
             RunningHasThread, RowTellsMissing, Row
<1> QED BY <1>5, <1>6, <1>7 DEF RunIInv

LEMMA FailedStartKeepsRuns ==
    ASSUME RunIInv, NEW j \in Runs, StartWithoutThread(j)
    PROVE  RunIInv'
<1>1. /\ journal = "open" /\ thread[j] = "none"
      /\ UNCHANGED <<jobOf, locked, journal, missed, pc>>
  BY DEF StartWithoutThread, CreateJob, copyVars, copier
<1>2. PICK lossy \in BOOLEAN, st \in {"running", "error"} :
        /\ jobs' = [jobs EXCEPT ![j] = [st |-> "error", lossy |-> lossy]]
        /\ rows' = [rows EXCEPT ![j] = Row(st, FALSE)]
        /\ events' = [events EXCEPT ![j] =
                        <<"running">> \o IF st = "error" THEN <<"log", "error">> ELSE <<"log">>]
        /\ thread' = [thread EXCEPT ![j] = "end"]
  BY DEF StartWithoutThread, CreateJob, Create
<1> DEFINE more == IF st = "error" THEN <<"log", "error">> ELSE <<"log">>
           first == <<"running">> \o more
<1>3. <<"running">> \in Seq(Kinds) /\ more \in Seq(Kinds)
  <2>1. <<"running">> \in Seq(Kinds) /\ <<"log">> \in Seq(Kinds)
    BY DEF Kinds, Statuses
  <2>2. <<"log", "error">> \in Seq(Kinds)
    BY DEF Kinds, Statuses, Finished
  <2> QED BY <2>1, <2>2
<1>4. first \in Seq(Kinds)
  BY <1>3, ConcatProperties
<1>5. Row(st, FALSE) \in [st : Statuses \cup {"none"}, lossy : BOOLEAN]
  BY DEF Row, Statuses, Finished
<1>6. RunDomains'
  <2>1. JournalTypeOK'
    BY <1>2, <1>4, <1>5 DEF RunIInv, RunDomains, JournalTypeOK
  <2>2. jobs' \in [Runs -> [st : {"none", "running", "done", "error"}, lossy : BOOLEAN]]
    BY <1>2 DEF RunIInv, RunDomains
  <2>3. thread' \in [Runs -> {"none", "run", "finished", "end"}]
    BY <1>2 DEF RunIInv, RunDomains
  <2> QED BY <2>1, <2>2, <2>3 DEF RunDomains
<1>7. ASSUME NEW k \in Runs, k # j
      PROVE  RunStory(k)'
  <2>1. RunStory(k)
    BY DEF RunIInv
  <2>2. rows'[k] = rows[k] /\ events'[k] = events[k]
    BY <1>2, <1>7 DEF RunIInv, RunDomains, JournalTypeOK
  <2>3. jobs'[k] = jobs[k] /\ thread'[k] = thread[k]
    BY <1>2, <1>7 DEF RunIInv, RunDomains
  <2> QED BY <1>1, <2>1, <2>2, <2>3, CopiersStay, WorkNeedsProcess, UntouchedRun
<1>8. RunStory(j)'
  <2>1. rows'[j] = Row(st, FALSE) /\ events'[j] = first
    BY <1>2 DEF RunIInv, RunDomains, JournalTypeOK
  <2>2. jobs'[j] = [st |-> "error", lossy |-> lossy] /\ thread'[j] = "end"
    BY <1>2 DEF RunIInv, RunDomains
  <2>3. j \notin missed' /\ \A c \in CopiersOf(j) : pc[c] \in Rest
    BY <1>1, RestWithoutWork DEF RunIInv, RunStory, FreshIsUnknown
  <2>4. EndsOnce(j)'
    <3>1. Len(events'[j]) = 1 + Len(more)
      BY <1>3, <2>1, ConcatProperties
    <3>2. events'[j][1] = "running"
      BY <1>3, <2>1, ConcatProperties
    <3>3. \A i \in 1..Len(events'[j]) : i # 1 => events'[j][i] = more[i - 1]
      BY <1>3, <2>1, ConcatProperties
    <3>4. CASE st = "error"
      <4>1. Len(more) = 2 /\ more[1] = "log" /\ more[2] = "error"
        BY <3>4
      <4> HIDE DEF more
      <4> QED BY <2>1, <3>1, <3>2, <3>3, <3>4, <4>1 DEF EndsOnce, Finished, Row
    <3>5. CASE st = "running"
      <4>1. Len(more) = 1 /\ more[1] = "log"
        BY <3>5
      <4> HIDE DEF more
      <4> QED BY <2>1, <3>1, <3>2, <3>3, <4>1 DEF EndsOnce, Finished
    <3> QED BY <3>4, <3>5
  <2> QED BY <1>1, <2>1, <2>2, <2>3, <2>4 DEF RunStory, FreshIsUnknown, WorkIsRunning,
             RunningHasThread, RowTellsMissing, Row, CopiersOf
<1> QED BY <1>6, <1>7, <1>8 DEF RunIInv

\* A job is marked by a lost event.
LEMMA MarkedJob ==
    ASSUME NEW j \in Runs, RunDomains, jobs' = [jobs EXCEPT ![j].lossy = TRUE]
    PROVE  jobs'[j] = [st |-> jobs[j].st, lossy |-> TRUE]
BY DEF RunDomains

\* One more event of a running run, of which the row stays as it is; or an
\* event that is lost and leaves a mark.
LEMMA LoggedRun ==
    ASSUME RunIInv, NEW j \in Runs, thread[j] = "run",
           \/ AppendEvent(j, "log") /\ UNCHANGED <<jobs, missed>>
           \/ Unwritten(j),
           UNCHANGED <<jobOf, thread, locked, journal>>,
           \A c \in Copiers : pc'[c] \notin Rest =>
               pc[c] \notin Rest \/ jobOf[c] \notin Runs \/ thread[jobOf[c]] = "run"
    PROVE  RunIInv'
<1>1. \A k \in Runs : \A c \in CopiersOf(k) : pc'[c] \notin Rest => thread[k] = "run"
  BY DEF RunIInv, RunStory, RunningHasThread, CopiersOf
<1>2. rows[j].st = "running" /\ jobs[j].st = "running"
  BY DEF RunIInv, RunStory, WorkIsRunning
<1>3. CASE AppendEvent(j, "log") /\ UNCHANGED <<jobs, missed>>
  <2>1. UNCHANGED rows /\ events' = [events EXCEPT ![j] = Append(events[j], "log")]
    BY <1>3 DEF AppendEvent
  <2>2. "log" \in Kinds \ Finished
    BY DEF Kinds, Finished
  <2>3. Append(events[j], "log") \in Seq(Kinds)
    BY <2>2 DEF RunIInv, RunDomains, JournalTypeOK
  <2>4. RunDomains'
    BY <1>3, <2>1, <2>3 DEF RunIInv, RunDomains, JournalTypeOK
  <2>5. ASSUME NEW k \in Runs, k # j
        PROVE  RunStory(k)'
    <3>1. events'[k] = events[k]
      BY <2>1, <2>5 DEF RunIInv, RunDomains, JournalTypeOK
    <3>2. RunStory(k)
      BY DEF RunIInv
    <3> QED BY <1>1, <1>3, <2>1, <3>1, <3>2, WorkNeedsProcess, UntouchedRun
  <2>6. RunStory(j)'
    <3>1. events'[j] = Append(events[j], "log")
      BY <2>1 DEF RunIInv, RunDomains, JournalTypeOK
    <3>2. EndsOnce(j)'
      BY <1>2, <2>2, <3>1, OneMoreEvent DEF RunIInv, RunStory
    <3>3. FreshIsUnknown(j)' /\ WorkIsRunning(j)' /\ RowTellsMissing(j)'
      BY <1>3, <2>1 DEF RunIInv, RunStory, FreshIsUnknown, WorkIsRunning, RowTellsMissing
    <3>4. RunningHasThread(j)'
      BY <1>1, <1>3 DEF RunIInv, RunStory, RunningHasThread, CopiersOf
    <3> QED BY <3>2, <3>3, <3>4 DEF RunStory
  <2> QED BY <2>4, <2>5, <2>6 DEF RunIInv
<1>4. CASE Unwritten(j)
  <2>1. /\ jobs' = [jobs EXCEPT ![j].lossy = TRUE]
        /\ missed' = missed \cup {j}
        /\ UNCHANGED <<rows, events>>
    BY <1>4 DEF Unwritten, journalVars
  <2>2. jobs'[j] = [st |-> jobs[j].st, lossy |-> TRUE]
    BY <2>1, MarkedJob DEF RunIInv
  <2>3. RunDomains'
    BY <2>1 DEF RunIInv, RunDomains, JournalTypeOK
  <2>4. ASSUME NEW k \in Runs, k # j
        PROVE  RunStory(k)'
    <3>1. jobs'[k] = jobs[k] /\ (k \in missed' <=> k \in missed)
      BY <2>1, <2>4 DEF RunIInv, RunDomains
    <3>2. RunStory(k)
      BY DEF RunIInv
    <3> QED BY <1>1, <2>1, <3>1, <3>2, WorkNeedsProcess, UntouchedRun
  <2>5. RunStory(j)'
    <3>1. EndsOnce(j)' /\ FreshIsUnknown(j)'
      BY <2>1 DEF RunIInv, RunStory, EndsOnce, FreshIsUnknown
    <3>2. WorkIsRunning(j)' /\ RowTellsMissing(j)'
      BY <1>2, <2>1, <2>2 DEF RunIInv, RunStory, WorkIsRunning, RowTellsMissing
    <3>3. RunningHasThread(j)'
      BY <1>1, <2>2 DEF RunIInv, RunStory, RunningHasThread, CopiersOf
    <3> QED BY <3>1, <3>2, <3>3 DEF RunStory
  <2> QED BY <2>3, <2>4, <2>5 DEF RunIInv
<1> QED BY <1>3, <1>4

\* The row and the last event of a run are written while it is running, with
\* the mark of its lost events.
LEMMA FinishKeepsRuns ==
    ASSUME RunIInv, NEW j \in Runs, Finish(j)
    PROVE  RunIInv'
<1>1. /\ thread[j] = "run" /\ locked = {}
      /\ thread' = [thread EXCEPT ![j] = "finished"]
      /\ locked' = {j}
      /\ \A c \in CopiersOf(j) : pc[c] \in Rest
      /\ UNCHANGED <<jobOf, journal, missed, pc>>
  BY DEF Finish, Free, Rest, copyVars, copier
<1>2. rows[j].st = "running" /\ jobs[j].st = "running" /\ (j \in missed => jobs[j].lossy)
  BY <1>1 DEF RunIInv, RunStory, WorkIsRunning
<1>3. /\ thread'[j] = "finished" /\ \A k \in Runs : k # j => thread'[k] = thread[k]
      /\ thread' \in [Runs -> {"none", "run", "finished", "end"}]
  BY <1>1 DEF RunIInv, RunDomains
<1>4. \A k \in Runs : thread[k] # "finished"
  BY <1>1 DEF RunIInv, RunStory, RunningHasThread
<1>5. Outcome(j) \in {"done", "error"}
  BY DEF Outcome
<1>6. CASE FinishRow(j, Outcome(j), jobs[j].lossy) /\ UNCHANGED jobs
  <2>1. /\ rows' = [rows EXCEPT ![j] = Row(Outcome(j), jobs[j].lossy)]
        /\ events' = [events EXCEPT ![j] = Append(events[j], Outcome(j))]
    BY <1>6 DEF FinishRow
  <2>2. Outcome(j) \in Kinds /\ Outcome(j) \in Finished
    BY <1>5 DEF Kinds, Statuses, Finished
  <2>3. Append(events[j], Outcome(j)) \in Seq(Kinds)
    BY <2>2 DEF RunIInv, RunDomains, JournalTypeOK
  <2>4. Row(Outcome(j), jobs[j].lossy) \in [st : Statuses \cup {"none"}, lossy : BOOLEAN]
    <3>1. jobs[j].lossy \in BOOLEAN
      BY DEF RunIInv, RunDomains
    <3> QED BY <2>2, <3>1 DEF Row, Statuses
  <2>5. RunDomains'
    <3>1. JournalTypeOK'
      BY <2>1, <2>3, <2>4 DEF RunIInv, RunDomains, JournalTypeOK
    <3> QED BY <1>3, <1>6, <3>1 DEF RunIInv, RunDomains
  <2>6. ASSUME NEW k \in Runs, k # j
        PROVE  RunStory(k)'
    <3>1. rows'[k] = rows[k] /\ events'[k] = events[k]
      BY <2>1, <2>6 DEF RunIInv, RunDomains, JournalTypeOK
    <3>2. RunStory(k)
      BY DEF RunIInv
    <3> QED BY <1>1, <1>3, <1>4, <1>6, <2>6, <3>1, <3>2, CopiersStay, WorkNeedsProcess,
               UntouchedRun
  <2>7. RunStory(j)'
    <3>1. /\ rows'[j] = Row(Outcome(j), jobs[j].lossy)
          /\ events'[j] = Append(events[j], Outcome(j))
      BY <2>1 DEF RunIInv, RunDomains, JournalTypeOK
    <3>2. EndsOnce(j)'
      BY <1>2, <2>2, <3>1, OneMoreEvent DEF RunIInv, RunStory, Row
    <3>3. RowTellsMissing(j)'
      BY <1>1, <1>2, <3>1 DEF RowTellsMissing, Row
    <3>4. FreshIsUnknown(j)' /\ WorkIsRunning(j)'
      BY <1>1, <1>3 DEF RunIInv, RunStory, FreshIsUnknown, WorkIsRunning
    <3>5. RunningHasThread(j)'
      BY <1>1, <1>3 DEF RunningHasThread, CopiersOf
    <3> QED BY <3>2, <3>3, <3>4, <3>5 DEF RunStory
  <2> QED BY <2>5, <2>6, <2>7 DEF RunIInv
<1>7. CASE jobs' = [jobs EXCEPT ![j].lossy = TRUE] /\ UNCHANGED journalVars
  <2>1. UNCHANGED <<rows, events>>
    BY <1>7 DEF journalVars
  <2>2. jobs'[j] = [st |-> jobs[j].st, lossy |-> TRUE]
    BY <1>7, MarkedJob DEF RunIInv
  <2>3. RunDomains'
    BY <1>3, <1>7, <2>1 DEF RunIInv, RunDomains, JournalTypeOK
  <2>4. ASSUME NEW k \in Runs, k # j
        PROVE  RunStory(k)'
    <3>1. jobs'[k] = jobs[k]
      BY <1>7, <2>4 DEF RunIInv, RunDomains
    <3>2. RunStory(k)
      BY DEF RunIInv
    <3> QED BY <1>1, <1>3, <1>4, <2>1, <2>4, <3>1, <3>2, CopiersStay, WorkNeedsProcess,
               UntouchedRun
  <2>5. RunStory(j)'
    <3>1. EndsOnce(j)' /\ RowTellsMissing(j)'
      BY <1>2, <2>1 DEF RunIInv, RunStory, EndsOnce, RowTellsMissing
    <3>2. FreshIsUnknown(j)' /\ WorkIsRunning(j)'
      BY <1>1, <1>3 DEF RunIInv, RunStory, FreshIsUnknown, WorkIsRunning
    <3>3. RunningHasThread(j)'
      BY <1>1, <1>3 DEF RunningHasThread, CopiersOf
    <3> QED BY <3>1, <3>2, <3>3 DEF RunStory
  <2> QED BY <2>3, <2>4, <2>5 DEF RunIInv
<1> QED BY <1>6, <1>7 DEF Finish

LEMMA CompleteKeepsRuns ==
    ASSUME RunIInv, NEW j \in Runs, Complete(j)
    PROVE  RunIInv'
<1>1. /\ thread[j] = "finished"
      /\ jobs' = [jobs EXCEPT ![j].st = Outcome(j)]
      /\ thread' = [thread EXCEPT ![j] = "end"]
      /\ UNCHANGED <<jobOf, journal, missed, rows, events, pc>>
  BY DEF Complete, journalVars, copyVars, copier
<1>2. Outcome(j) \in {"done", "error"}
  BY DEF Outcome
<1>3. jobs'[j] = [st |-> Outcome(j), lossy |-> jobs[j].lossy] /\ thread'[j] = "end"
  BY <1>1 DEF RunIInv, RunDomains
<1>4. RunDomains'
  <2>1. jobs' \in [Runs -> [st : {"none", "running", "done", "error"}, lossy : BOOLEAN]]
    BY <1>1, <1>2 DEF RunIInv, RunDomains
  <2>2. thread' \in [Runs -> {"none", "run", "finished", "end"}]
    BY <1>1 DEF RunIInv, RunDomains
  <2> QED BY <1>1, <2>1, <2>2 DEF RunIInv, RunDomains, JournalTypeOK
<1>5. ASSUME NEW k \in Runs, k # j
      PROVE  RunStory(k)'
  <2>1. jobs'[k] = jobs[k] /\ thread'[k] = thread[k]
    BY <1>1, <1>5 DEF RunIInv, RunDomains
  <2>2. RunStory(k) /\ thread[k] # "finished"
    BY <1>1, <1>5 DEF RunIInv, RunStory, RunningHasThread
  <2> QED BY <1>1, <2>1, <2>2, CopiersStay, WorkNeedsProcess, UntouchedRun
<1>6. RunStory(j)'
  <2>1. EndsOnce(j)' /\ RowTellsMissing(j)'
    BY <1>1 DEF RunIInv, RunStory, EndsOnce, RowTellsMissing
  <2>2. FreshIsUnknown(j)' /\ WorkIsRunning(j)'
    BY <1>3 DEF FreshIsUnknown, WorkIsRunning
  <2>3. \A c \in CopiersOf(j) : pc[c] \in Rest
    BY <1>1, RestWithoutWork DEF RunIInv
  <2>4. RunningHasThread(j)'
    BY <1>1, <1>2, <1>3, <2>3 DEF RunningHasThread, CopiersOf
  <2> QED BY <2>1, <2>2, <2>4 DEF RunStory
<1> QED BY <1>4, <1>5, <1>6 DEF RunIInv

LEMMA RetriesKeepRuns ==
    ASSUME RunIInv, NEW j \in Runs, NEW enabled \in BOOLEAN, SetRetries(j, enabled)
    PROVE  RunIInv'
<1>1. /\ locked = {} /\ jobs[j].st = "running"
      /\ (AppendEvent(j, "log") /\ UNCHANGED <<jobs, missed>>) \/ Unwritten(j)
      /\ UNCHANGED <<jobOf, thread, locked, journal, pc>>
  BY DEF SetRetries, Free, MaySwitch, SwitchRetries
<1>2. thread[j] = "run"
  BY <1>1 DEF RunIInv, RunStory, RunningHasThread
<1> QED BY <1>1, <1>2, LoggedRun

LEMMA CopyKeepsRuns ==
    ASSUME RunIInv, OwnerIInv, NEW c \in Copiers, Copy(c)
    PROVE  RunIInv'
<1>1. /\ jobOf[c] \in Runs /\ CopierStep(c)
      /\ UNCHANGED <<jobOf, thread, locked, journal>>
  BY DEF Copy
<1>2. pc[c] \notin Rest /\ \E q \in CopyStates : pc' = [pc EXCEPT ![c] = q]
  BY <1>1, StepIsOwn DEF OwnerIInv
<1>3. \A d \in Copiers : pc'[d] \notin Rest => pc[d] \notin Rest
  BY <1>2 DEF OwnerIInv, OwnerDomains
<1>4. CASE LogEvent(jobOf[c])
  <2>1. thread[jobOf[c]] = "run"
    BY <1>1, <1>2 DEF RunIInv, RunStory, RunningHasThread, CopiersOf
  <2>2. (AppendEvent(jobOf[c], "log") /\ UNCHANGED <<jobs, missed>>) \/ Unwritten(jobOf[c])
    BY <1>4 DEF LogEvent
  <2> QED BY <1>1, <1>3, <2>1, <2>2, LoggedRun
<1>5. CASE UNCHANGED <<jobs, missed, journalVars>>
  <2>1. RunDomains'
    BY <1>1, <1>5 DEF RunIInv, RunDomains, JournalTypeOK, journalVars
  <2>2. ASSUME NEW k \in Runs
        PROVE  RunStory(k)'
    <3>1. RunStory(k)
      BY DEF RunIInv
    <3>2. \A d \in CopiersOf(k) : pc'[d] \notin Rest => thread[k] = "run"
      BY <1>3, <3>1 DEF RunStory, RunningHasThread, CopiersOf
    <3>3. rows'[k] = rows[k] /\ events'[k] = events[k]
      BY <1>5 DEF journalVars
    <3> QED BY <1>1, <1>5, <3>1, <3>2, <3>3, WorkNeedsProcess, UntouchedRun
  <2> QED BY <2>1, <2>2 DEF RunIInv
<1> QED BY <1>4, <1>5 DEF Copy

LEMMA StartCopierKeepsRuns ==
    ASSUME RunIInv, OwnerIInv, NEW c \in Copiers, StartCopier(c)
    PROVE  RunIInv'
<1>1. /\ thread[jobOf[c]] = "run" /\ pc' = [pc EXCEPT ![c] = "token"]
      /\ UNCHANGED <<jobOf, jobs, thread, locked, journal, missed, rows, events>>
  BY DEF StartCopier, Begin, Goto, jobVars, journalVars
<1>2. \A d \in Copiers : d # c => pc'[d] = pc[d]
  BY <1>1 DEF OwnerIInv, OwnerDomains
<1>3. RunDomains'
  BY <1>1 DEF RunIInv, RunDomains, JournalTypeOK
<1>4. ASSUME NEW k \in Runs
      PROVE  RunStory(k)'
  <2>1. RunStory(k)
    BY DEF RunIInv
  <2>2. \A d \in CopiersOf(k) : pc'[d] \notin Rest => thread[k] = "run"
    BY <1>1, <1>2, <2>1 DEF RunStory, RunningHasThread, CopiersOf
  <2> QED BY <1>1, <2>1, <2>2, WorkNeedsProcess, UntouchedRun
<1> QED BY <1>3, <1>4 DEF RunIInv

\* A cleanup finds no thread at work: the rows it deletes have no writer left.
LEMMA CleanupKeepsRuns ==
    ASSUME RunIInv, Cleanup
    PROVE  RunIInv'
<1>1. /\ locked = {} /\ \A j \in Runs : jobs[j].st # "running"
      /\ rows' = [j \in Runs |-> NoRow] /\ events' = [j \in Runs |-> <<>>]
      /\ jobs' = [j \in Runs |-> NoJob] \/ UNCHANGED jobs
      /\ UNCHANGED <<jobOf, thread, locked, journal, missed, pc>>
  BY DEF Cleanup, Free, DeleteAll, copyVars, copier
<1>2. RunDomains'
  <2>1. NoRow \in [st : Statuses \cup {"none"}, lossy : BOOLEAN]
    BY DEF NoRow, Row
  <2>2. NoJob \in [st : {"none", "running", "done", "error"}, lossy : BOOLEAN]
    BY DEF NoJob
  <2>3. <<>> \in Seq(Kinds)
    BY EmptySeq
  <2>4. JournalTypeOK'
    BY <1>1, <2>1, <2>3 DEF JournalTypeOK
  <2> QED BY <1>1, <2>2, <2>4 DEF RunIInv, RunDomains
<1>3. ASSUME NEW k \in Runs
      PROVE  RunStory(k)'
  <2>1. thread[k] \in {"none", "end"}
    BY <1>1 DEF RunIInv, RunDomains, RunStory, RunningHasThread, WorkIsRunning
  <2>2. jobs'[k].st = jobs[k].st \/ jobs'[k].st = "none"
    BY <1>1 DEF NoJob
  <2>3. rows'[k] = NoRow /\ events'[k] = <<>> /\ thread'[k] = thread[k]
    BY <1>1
  <2>4. EndsOnce(k)' /\ RowTellsMissing(k)'
    BY <2>3 DEF EndsOnce, RowTellsMissing, NoRow, Row
  <2>5. FreshIsUnknown(k)' /\ WorkIsRunning(k)'
    BY <1>1, <2>1, <2>2, <2>3 DEF RunIInv, RunStory, FreshIsUnknown, WorkIsRunning
  <2>6. RunningHasThread(k)'
    BY <1>1, <2>1, <2>2, <2>3 DEF RunIInv, RunStory, RunningHasThread, CopiersOf
  <2> QED BY <2>4, <2>5, <2>6 DEF RunStory
<1> QED BY <1>2, <1>3 DEF RunIInv

\* A stream changes nothing of a run but the mark in memory.
LEMMA StreamKeepsRuns ==
    ASSUME RunIInv, StreamStep \/ \E j \in Runs : OpenStream(j)
    PROVE  RunIInv'
<1>1. UNCHANGED <<jobOf, thread, locked, journal, missed, rows, events, pc>>
  BY DEF StreamStep, OpenStream, ReopenStream, ReadPage, Snapshot, Recheck, ReaderKeeps,
         journalVars, copyVars, copier
<1>2. UNCHANGED jobs \/ \E j : jobs' = [jobs EXCEPT ![j].lossy = TRUE]
  BY DEF StreamStep, OpenStream, ReopenStream, ReadPage, Snapshot, Recheck
<1>3. /\ jobs' \in [Runs -> [st : {"none", "running", "done", "error"}, lossy : BOOLEAN]]
      /\ \A k \in Runs : jobs'[k].st = jobs[k].st /\ (jobs[k].lossy => jobs'[k].lossy)
  <2>1. CASE UNCHANGED jobs
    BY <2>1 DEF RunIInv, RunDomains
  <2>2. ASSUME NEW j, jobs' = [jobs EXCEPT ![j].lossy = TRUE]
        PROVE  <1>3!:
    BY <2>2 DEF RunIInv, RunDomains
  <2> QED BY <1>2, <2>1, <2>2
<1>4. RunDomains'
  BY <1>1, <1>3 DEF RunIInv, RunDomains, JournalTypeOK
<1>5. ASSUME NEW k \in Runs
      PROVE  RunStory(k)'
  <2>1. RunStory(k)
    BY DEF RunIInv
  <2> QED BY <1>1, <1>3, <2>1, CopiersStay, WorkNeedsProcess, UntouchedRun
<1> QED BY <1>4, <1>5 DEF RunIInv

LEMMA CrashKeepsRuns ==
    ASSUME RunIInv, Crash
    PROVE  RunIInv'
<1>1. /\ jobs' = [j \in Runs |-> NoJob]
      /\ thread' = [j \in Runs |-> IF thread[j] = "none" THEN "none" ELSE "end"]
      /\ pc' = [c \in Copiers |-> IF pc[c] \in Rest THEN pc[c] ELSE "dead"]
      /\ UNCHANGED <<jobOf, missed, rows, events>>
  BY DEF Crash, KillCopiers, journalVars
<1>2. RunDomains'
  BY <1>1 DEF RunIInv, RunDomains, JournalTypeOK, NoJob
<1>3. ASSUME NEW k \in Runs
      PROVE  RunStory(k)'
  <2>1. thread'[k] \in {"none", "end"} /\ (thread'[k] = "none" => thread[k] = "none")
    BY <1>1
  <2>2. jobs'[k] = NoJob /\ \A c \in Copiers : pc'[c] \in Rest
    BY <1>1 DEF Rest
  <2>3. EndsOnce(k)' /\ RowTellsMissing(k)'
    BY <1>1 DEF RunIInv, RunStory, EndsOnce, RowTellsMissing
  <2>4. FreshIsUnknown(k)' /\ WorkIsRunning(k)'
    BY <1>1, <2>1, <2>2 DEF RunIInv, RunStory, FreshIsUnknown, WorkIsRunning, NoJob
  <2>5. RunningHasThread(k)'
    BY <2>1, <2>2 DEF RunningHasThread, CopiersOf, NoJob
  <2> QED BY <2>3, <2>4, <2>5 DEF RunStory
<1> QED BY <1>2, <1>3 DEF RunIInv

\* The recovery ends the runs that nobody ended.
LEMMA RestartKeepsRuns ==
    ASSUME RunIInv, Restart
    PROVE  RunIInv'
<1>1. journal = "down" /\ UNCHANGED <<jobOf, jobs, thread, locked, missed, pc>>
  BY DEF Restart, copyVars, copier
<1>2. \A k \in Runs : thread[k] \in {"none", "end"}
  BY <1>1 DEF RunIInv, RunDomains, RunStory, WorkIsRunning
<1>3. \A k \in Runs : \A c \in CopiersOf(k) : pc[c] \in Rest
  BY <1>2, RestWithoutWork DEF RunIInv
<1>4. CASE UNCHANGED journalVars
  <2>1. RunDomains'
    BY <1>1, <1>4 DEF RunIInv, RunDomains, JournalTypeOK, journalVars
  <2>2. ASSUME NEW k \in Runs
        PROVE  RunStory(k)'
    <3>1. RunStory(k) /\ thread[k] \notin {"run", "finished"}
      BY <1>2 DEF RunIInv
    <3>2. rows'[k] = rows[k] /\ events'[k] = events[k]
      BY <1>4 DEF journalVars
    <3> QED BY <1>1, <3>1, <3>2, CopiersStay, UntouchedRun
  <2> QED BY <2>1, <2>2 DEF RunIInv
<1>5. CASE Recover
  <2>1. ASSUME NEW k \in Runs
        PROVE  /\ RunStory(k)'
               /\ rows'[k] \in [st : Statuses \cup {"none"}, lossy : BOOLEAN]
               /\ events'[k] \in Seq(Kinds)
    <3>1. RunStory(k) /\ thread[k] \notin {"run", "finished"}
      BY <1>2 DEF RunIInv
    <3>2. /\ rows[k] \in [st : Statuses \cup {"none"}, lossy : BOOLEAN]
          /\ events[k] \in Seq(Kinds)
      BY DEF RunIInv, RunDomains, JournalTypeOK
    <3>3. CASE rows[k].st # "running"
      <4>1. rows'[k] = rows[k] /\ events'[k] = events[k]
        BY <1>5, <3>3 DEF Recover, Recoverable
      <4>2. RunStory(k)'
        BY <1>1, <3>1, <4>1, CopiersStay, UntouchedRun
      <4> QED BY <3>2, <4>1, <4>2
    <3>4. CASE rows[k].st = "running"
      <4>1. /\ rows'[k] = [rows[k] EXCEPT !.st = "interrupted"]
            /\ events'[k] = Append(events[k], "interrupted")
        BY <1>5, <3>4 DEF Recover, Recoverable
      <4>2. rows'[k] = [st |-> "interrupted", lossy |-> rows[k].lossy]
        BY <3>2, <4>1
      <4>3. "interrupted" \in Kinds /\ "interrupted" \in Statuses
        BY DEF Kinds, Statuses, Finished
      <4>4. events'[k] \in Seq(Kinds)
        BY <3>2, <4>1, <4>3
      <4>5. EndsOnce(k)'
        BY <3>1, <3>4, <4>1, <4>2, <4>3, OneMoreEvent DEF RunIInv, RunStory
      <4>6. thread'[k] = "end" /\ RowTellsMissing(k)'
        BY <1>1, <1>2, <3>1, <3>4, <4>2
           DEF RunStory, FreshIsUnknown, RowTellsMissing, NoRow, Row
      <4>7. FreshIsUnknown(k)' /\ WorkIsRunning(k)'
        BY <4>6 DEF FreshIsUnknown, WorkIsRunning
      <4>8. RunningHasThread(k)'
        BY <1>1, <1>3, <3>1, <4>6 DEF RunStory, RunningHasThread, CopiersOf
      <4>9. RunStory(k)'
        BY <4>5, <4>6, <4>7, <4>8 DEF RunStory
      <4> QED BY <3>2, <4>2, <4>3, <4>4, <4>9
    <3> QED BY <3>3, <3>4
  <2>2. JournalTypeOK'
    <3>1. rows' = [k \in Runs |-> rows'[k]] /\ events' = [k \in Runs |-> events'[k]]
      BY <1>5 DEF Recover
    <3> QED BY <2>1, <3>1 DEF JournalTypeOK
  <2> QED BY <1>1, <2>1, <2>2 DEF RunIInv, RunDomains
<1> QED BY <1>4, <1>5 DEF Restart

LEMMA RunNext ==
    ASSUME OwnerIInv, RunIInv, [Next]_vars
    PROVE  RunIInv'
<1>1. CASE \E j \in Runs : JobStep(j) \/ StartWithoutThread(j)
  BY <1>1, StartKeepsRuns, FailedStartKeepsRuns, FinishKeepsRuns, CompleteKeepsRuns
     DEF JobStep
<1>2. CASE \E j \in Runs, enabled \in BOOLEAN : SetRetries(j, enabled)
  BY <1>2, RetriesKeepRuns
<1>3. CASE \E c \in Copiers : StartCopier(c) \/ Copy(c)
  BY <1>3, StartCopierKeepsRuns, CopyKeepsRuns
<1>4. CASE Cleanup
  BY <1>4, CleanupKeepsRuns
<1>5. CASE StreamStep \/ \E j \in Runs : OpenStream(j)
  BY <1>5, StreamKeepsRuns
<1>6. CASE Crash
  BY <1>6, CrashKeepsRuns
<1>7. CASE Restart
  BY <1>7, RestartKeepsRuns
<1>8. CASE UNCHANGED vars
  <2>1. UNCHANGED <<jobOf, jobs, thread, locked, journal, missed, rows, events, pc>>
    BY <1>8 DEF vars, jobVars, journalVars, copyVars, copier
  <2>2. RunDomains'
    BY <2>1 DEF RunIInv, RunDomains, JournalTypeOK
  <2>3. ASSUME NEW k \in Runs
        PROVE  RunStory(k)'
    <3>1. RunStory(k)
      BY DEF RunIInv
    <3> QED BY <2>1, <3>1, CopiersStay, WorkNeedsProcess, UntouchedRun
  <2> QED BY <2>2, <2>3 DEF RunIInv
<1> QED BY <1>1, <1>2, <1>3, <1>4, <1>5, <1>6, <1>7, <1>8 DEF Next

LEMMA RunInvariant == Spec => []RunIInv
<1>1. Init => RunIInv
  BY RunInit
<1>2. OwnerIInv /\ RunIInv /\ [Next]_vars => RunIInv'
  BY RunNext
<1> QED BY <1>1, <1>2, OwnerInvariant, PTL DEF Spec

\* Whatever the requests, the threads, the failures of the journal and the
\* crashes, and however many jobs run: a run has at most one final event, it is
\* the last and the row agrees with it, the row of a finished run tells that
\* events are missing, and a thread at work has a running row, which a cleanup
\* leaves alone (_complete_job and cleanup_history, main.py; finish and recover,
\* run_journal.py).
THEOREM RunsEndOnce == Spec => []RunEndsOnce
<1>1. RunIInv => RunEndsOnce
  BY DEF RunIInv, RunStory, RunEndsOnce, RowTellsMissing, WorkIsRunning
<1> QED BY <1>1, RunInvariant, PTL

----------------------------------------------------------------------------
(* Every resource is accounted for. *)

LEMMA AccountNext ==
    ASSUME AccountIInv, OwnerIInv, [Next]_vars
    PROVE  AccountIInv'
<1>1. CASE \E j \in Runs : JobStep(j) \/ StartWithoutThread(j) \/ OpenStream(j)
  BY <1>1, StillKeepsAccounts
     DEF JobStep, Start, StartWithoutThread, Finish, Complete, OpenStream, ReaderKeeps
<1>2. CASE \E j \in Runs, enabled \in BOOLEAN : SetRetries(j, enabled)
  BY <1>2, SwitchKeepsAccounts DEF SetRetries, CopiersOf
<1>3. CASE \E c \in Copiers : StartCopier(c) \/ Copy(c)
  BY <1>3, BeginKeepsAccounts, CopierKeepsAccounts DEF StartCopier, Copy
<1>4. CASE Cleanup \/ StreamStep \/ Restart
  BY <1>4, StillKeepsAccounts
     DEF Cleanup, StreamStep, Restart, ReopenStream, ReadPage, Snapshot, Recheck, ReaderKeeps
<1>5. CASE Crash
  BY <1>5, KillKeepsAccounts DEF Crash
<1>6. CASE UNCHANGED vars
  BY <1>6, StillKeepsAccounts DEF vars
<1> QED BY <1>1, <1>2, <1>3, <1>4, <1>5, <1>6 DEF Next

LEMMA AccountInvariant == Spec => []AccountIInv
<1>1. Init => AccountIInv
  BY AccountInit DEF Init
<1>2. AccountIInv /\ OwnerIInv /\ [Next]_vars => AccountIInv'
  BY AccountNext
<1> QED BY <1>1, <1>2, OwnerInvariant, PTL DEF Spec

\* However many resources there are and however many copiers share them: a copy
\* that returns a result accounts for every resource exactly once, and what it
\* calls saved or skipped is at the destination (make_links, get_links,
\* save_links, save_to_shared and save_local, disk_copy.py).
THEOREM FilesAreAccounted == Spec => []FilesAccounted
<1>1. AccountIInv => FilesAccounted
  BY AccountsAreComplete
<1> QED BY <1>1, AccountInvariant, PTL

----------------------------------------------------------------------------
(* The stream of a run is complete: the inductive invariant. *)

\* A job that is over in memory, and whose events are all written, is over in
\* its row, already when its thread is about to complete it; and a row that is
\* over has its final event.
MemoryIsWritten(j) ==
    /\ thread[j] = "finished" /\ ~jobs[j].lossy => rows[j].st = Outcome(j)
    /\ jobs[j].st \in {"done", "error"} /\ ~jobs[j].lossy /\ Saved(j) =>
         rows[j].st = jobs[j].st
    /\ rows[j].st \in Finished => Len(events[j]) > 0 /\ Last(events[j]) \in Finished

\* The reader follows a run that was started, has not read past its end, and
\* what it has seen of the end is the end.
Follows ==
    /\ reader.pc = "closed" => reader = NoReader
    /\ reader.pc # "closed" =>
        /\ reader.run \in Runs /\ thread[reader.run] # "none"
        /\ Saved(reader.run) => reader.cursor <= Cutoff(reader.run)
SawTheEnd ==
    reader.pc = "recheck" =>
        /\ reader.st \in Finished
        /\ Saved(reader.run) => rows[reader.run].st = reader.st
SaidTheEnd ==
    /\ reader.said \in {"done", "error"} => reader.pc = "ended"
    /\ StreamIsComplete
    /\ reader.said \in {"done", "error"} /\ Saved(reader.run) => rows[reader.run].st \in Finished

StreamDomains ==
    /\ reader \in [pc : ReaderStates, run : Runs \cup {"none"}, cursor : Nat,
                   st : Statuses \cup {"none"}, said : Answers]
    /\ reader.said # "none" => reader.pc = "ended"

StreamIInv ==
    /\ StreamDomains
    /\ \A j \in Runs : MemoryIsWritten(j)
    /\ Follows /\ SawTheEnd /\ SaidTheEnd

----------------------------------------------------------------------------
(* The stream of a run is complete: the steps. *)

\* One more event is the last one.
LEMMA LastOfAppend ==
    ASSUME NEW s \in Seq(Kinds), NEW kind \in Kinds
    PROVE  /\ Len(Append(s, kind)) = Len(s) + 1 /\ Len(Append(s, kind)) > 0
           /\ Last(Append(s, kind)) = kind
BY DEF Last

\* What a step may do to a run that was started: forget its row, or add to its
\* events while it is running.
Moves(j) ==
    /\ thread[j] # "none" => thread'[j] # "none"
    /\ thread[j] # "none" /\ Saved(j)' =>
         Saved(j) /\ Len(events'[j]) >= Len(events[j])
    /\ thread[j] # "none" /\ Saved(j)' /\ rows[j].st \in Finished =>
         rows'[j] = rows[j] /\ events'[j] = events[j]

LEMMA UntouchedMoves ==
    ASSUME RunIInv, NEW j \in Runs, rows'[j] = rows[j], events'[j] = events[j],
           thread[j] # "none" => thread'[j] # "none"
    PROVE  Moves(j)
<1>1. Len(events[j]) \in Nat
  BY DEF RunIInv, RunDomains, JournalTypeOK
<1> QED BY <1>1 DEF Moves, Saved

LEMMA GrowingMoves ==
    ASSUME RunIInv, NEW j \in Runs, rows[j].st = "running",
           NEW kind \in Kinds, events'[j] = Append(events[j], kind),
           thread[j] # "none" => thread'[j] # "none"
    PROVE  Moves(j)
<1>1. events[j] \in Seq(Kinds)
  BY DEF RunIInv, RunDomains, JournalTypeOK
<1>2. Len(events'[j]) >= Len(events[j])
  BY <1>1, LastOfAppend
<1>3. Saved(j) /\ rows[j].st \notin Finished
  BY DEF Saved, Finished
<1> QED BY <1>2, <1>3 DEF Moves

\* A lost event, an event and a job that stays as it is.
LEMMA LogMoves ==
    ASSUME RunIInv, NEW j \in Runs, thread[j] = "run",
           \/ AppendEvent(j, "log") /\ UNCHANGED jobs
           \/ Unwritten(j),
           UNCHANGED thread
    PROVE  \A k \in Runs : Moves(k)
<1>1. rows[j].st = "running"
  BY DEF RunIInv, RunStory, WorkIsRunning
<1>2. CASE AppendEvent(j, "log")
  <2>1. rows' = rows /\ events' = [events EXCEPT ![j] = Append(events[j], "log")]
    BY <1>2 DEF AppendEvent
  <2>2. events'[j] = Append(events[j], "log")
    BY <2>1 DEF RunIInv, RunDomains, JournalTypeOK
  <2>3. \A k \in Runs : k # j => events'[k] = events[k]
    BY <2>1 DEF RunIInv, RunDomains, JournalTypeOK
  <2>4. "log" \in Kinds
    BY DEF Kinds
  <2>5. Moves(j)
    BY <1>1, <2>2, <2>4, GrowingMoves
  <2>6. \A k \in Runs : k # j => Moves(k)
    BY <2>1, <2>3, UntouchedMoves
  <2> QED BY <2>5, <2>6
<1>3. CASE Unwritten(j)
  BY <1>3, UntouchedMoves DEF Unwritten, journalVars
<1> QED BY <1>2, <1>3

LEMMA StepMoves ==
    ASSUME OwnerIInv, RunIInv, [Next]_vars, NEW k \in Runs
    PROVE  Moves(k)
<1>1. ASSUME UNCHANGED <<rows, events, thread>>
      PROVE  Moves(k)
  BY <1>1, UntouchedMoves
<1>2. ASSUME NEW j \in Runs, Start(j) \/ StartWithoutThread(j)
      PROVE  Moves(k)
  <2>1. /\ thread[j] = "none"
        /\ \E t \in {"run", "end"} : thread' = [thread EXCEPT ![j] = t]
        /\ \E row : rows' = [rows EXCEPT ![j] = row]
        /\ \E first : events' = [events EXCEPT ![j] = first]
    BY <1>2 DEF Start, StartWithoutThread, CreateJob, Create
  <2>2. CASE k = j
    BY <2>1, <2>2 DEF Moves
  <2>3. CASE k # j
    <3>1. rows'[k] = rows[k] /\ events'[k] = events[k] /\ thread'[k] = thread[k]
      BY <2>1, <2>3 DEF RunIInv, RunDomains, JournalTypeOK
    <3> QED BY <3>1, UntouchedMoves
  <2> QED BY <2>2, <2>3
<1>3. ASSUME NEW j \in Runs, Finish(j)
      PROVE  Moves(k)
  <2>1. thread[j] = "run" /\ thread' = [thread EXCEPT ![j] = "finished"]
    BY <1>3 DEF Finish
  <2>2. thread[k] # "none" => thread'[k] # "none"
    BY <2>1 DEF RunIInv, RunDomains
  <2>3. CASE UNCHANGED journalVars
    BY <2>2, <2>3, UntouchedMoves DEF journalVars
  <2>4. CASE FinishRow(j, Outcome(j), jobs[j].lossy)
    <3>1. /\ rows' = [rows EXCEPT ![j] = Row(Outcome(j), jobs[j].lossy)]
          /\ events' = [events EXCEPT ![j] = Append(events[j], Outcome(j))]
      BY <2>4 DEF FinishRow
    <3>2. Outcome(j) \in Kinds
      BY DEF Outcome, Kinds, Statuses, Finished
    <3>3. rows[j].st = "running"
      BY <2>1 DEF RunIInv, RunStory, WorkIsRunning
    <3>4. CASE k = j
      <4>1. events'[k] = Append(events[k], Outcome(k))
        BY <3>1, <3>4 DEF RunIInv, RunDomains, JournalTypeOK
      <4> QED BY <2>2, <3>2, <3>3, <3>4, <4>1, GrowingMoves
    <3>5. CASE k # j
      <4>1. rows'[k] = rows[k] /\ events'[k] = events[k]
        BY <3>1, <3>5 DEF RunIInv, RunDomains, JournalTypeOK
      <4> QED BY <2>2, <4>1, UntouchedMoves
    <3> QED BY <3>4, <3>5
  <2> QED BY <1>3, <2>3, <2>4 DEF Finish
<1>4. ASSUME NEW j \in Runs, Complete(j)
      PROVE  Moves(k)
  <2>1. /\ thread' = [thread EXCEPT ![j] = "end"] /\ UNCHANGED <<rows, events>>
    BY <1>4 DEF Complete, journalVars
  <2>2. thread[k] # "none" => thread'[k] # "none"
    BY <2>1 DEF RunIInv, RunDomains
  <2> QED BY <2>1, <2>2, UntouchedMoves
<1>5. ASSUME NEW j \in Runs, NEW enabled \in BOOLEAN, SetRetries(j, enabled)
      PROVE  Moves(k)
  <2>1. /\ locked = {} /\ jobs[j].st = "running"
        /\ (AppendEvent(j, "log") /\ UNCHANGED jobs) \/ Unwritten(j)
        /\ UNCHANGED thread
    BY <1>5 DEF SetRetries, Free, MaySwitch
  <2>2. thread[j] = "run"
    BY <2>1 DEF RunIInv, RunStory, RunningHasThread
  <2> QED BY <2>1, <2>2, LogMoves
<1>6. ASSUME NEW c \in Copiers, Copy(c)
      PROVE  Moves(k)
  <2>1. jobOf[c] \in Runs /\ CopierStep(c) /\ UNCHANGED thread
    BY <1>6 DEF Copy
  <2>2. thread[jobOf[c]] = "run"
    BY <2>1, StepIsOwn DEF OwnerIInv, RunIInv, RunStory, RunningHasThread, CopiersOf
  <2>3. CASE LogEvent(jobOf[c])
    <3>1. (AppendEvent(jobOf[c], "log") /\ UNCHANGED jobs) \/ Unwritten(jobOf[c])
      BY <2>3 DEF LogEvent
    <3> QED BY <2>1, <2>2, <3>1, LogMoves
  <2>4. CASE UNCHANGED journalVars
    BY <1>1, <2>1, <2>4 DEF journalVars
  <2> QED BY <1>6, <2>3, <2>4 DEF Copy
<1>7. CASE Cleanup
  <2>1. rows'[k] = NoRow /\ UNCHANGED thread
    BY <1>7 DEF Cleanup, DeleteAll
  <2> QED BY <2>1 DEF Moves, Saved, NoRow, Row
<1>8. CASE Crash
  <2>1. UNCHANGED <<rows, events>> /\ (thread[k] # "none" => thread'[k] # "none")
    BY <1>8 DEF Crash, journalVars
  <2> QED BY <2>1, UntouchedMoves
<1>9. CASE Restart
  <2>1. CASE UNCHANGED journalVars
    BY <1>1, <1>9, <2>1 DEF Restart, journalVars
  <2>2. CASE Recover
    <3>1. CASE rows[k].st = "running"
      <4>1. events'[k] = Append(events[k], "interrupted") /\ UNCHANGED thread
        BY <1>9, <2>2, <3>1 DEF Restart, Recover, Recoverable
      <4>2. "interrupted" \in Kinds
        BY DEF Kinds, Statuses, Finished
      <4> QED BY <3>1, <4>1, <4>2, GrowingMoves
    <3>2. CASE rows[k].st # "running"
      <4>1. rows'[k] = rows[k] /\ events'[k] = events[k] /\ UNCHANGED thread
        BY <1>9, <2>2, <3>2 DEF Restart, Recover, Recoverable
      <4> QED BY <4>1, UntouchedMoves
    <3> QED BY <3>1, <3>2
  <2> QED BY <1>9, <2>1, <2>2 DEF Restart
<1>10. CASE StreamStep \/ \E j \in Runs : OpenStream(j)
  BY <1>1, <1>10
     DEF StreamStep, OpenStream, ReopenStream, ReadPage, Snapshot, Recheck, ReaderKeeps,
         journalVars
<1>11. CASE \E c \in Copiers : StartCopier(c)
  BY <1>1, <1>11 DEF StartCopier, jobVars, journalVars
<1>12. CASE UNCHANGED vars
  BY <1>1, <1>12 DEF vars, jobVars, journalVars
<1> QED BY <1>2, <1>3, <1>4, <1>5, <1>6, <1>7, <1>8, <1>9, <1>10, <1>11, <1>12
        DEF Next, JobStep

\* What a step leaves alone of a run, of its job and of its resting copiers
\* stays written.
LEMMA StaysWritten ==
    ASSUME NEW k \in Runs, MemoryIsWritten(k), UNCHANGED jobOf,
           rows'[k] = rows[k], events'[k] = events[k], jobs'[k].st = jobs[k].st,
           jobs[k].lossy => jobs'[k].lossy, thread'[k] = thread[k],
           thread[k] = "finished" => \A c \in CopiersOf(k) : pc'[c] = pc[c]
    PROVE  MemoryIsWritten(k)'
<1>1. CopiersOf(k)' = CopiersOf(k)
  BY DEF CopiersOf
<1>2. thread[k] = "finished" => Outcome(k)' = Outcome(k)
  BY <1>1 DEF Outcome
<1> QED BY <1>2 DEF MemoryIsWritten, Saved, Last

\* A running run has nothing to be written yet.
LEMMA RunningIsWritten ==
    ASSUME NEW k \in Runs, rows'[k].st = "running", jobs'[k].st \in {"running", "none"},
           thread'[k] # "finished"
    PROVE  MemoryIsWritten(k)'
BY DEF MemoryIsWritten, Finished

LEMMA LogStaysWritten ==
    ASSUME RunIInv, NEW j \in Runs, thread[j] = "run",
           \/ AppendEvent(j, "log") /\ UNCHANGED jobs
           \/ Unwritten(j),
           UNCHANGED <<jobOf, thread>>,
           \A k \in Runs : MemoryIsWritten(k),
           \A k \in Runs : thread[k] = "finished" => \A c \in CopiersOf(k) : pc'[c] = pc[c]
    PROVE  \A k \in Runs : MemoryIsWritten(k)'
<1>1. rows[j].st = "running" /\ jobs[j].st = "running" /\ UNCHANGED rows
  BY DEF RunIInv, RunStory, WorkIsRunning, AppendEvent, Unwritten, journalVars
<1>2. \A k \in Runs : /\ k # j => events'[k] = events[k] /\ jobs'[k] = jobs[k]
                      /\ jobs'[k].st = jobs[k].st
  <2>1. CASE AppendEvent(j, "log") /\ UNCHANGED jobs
    BY <2>1 DEF AppendEvent, RunIInv, RunDomains, JournalTypeOK
  <2>2. CASE jobs' = [jobs EXCEPT ![j].lossy = TRUE] /\ UNCHANGED events
    BY <2>2, MarkedJob DEF RunIInv, RunDomains
  <2> QED BY <2>1, <2>2 DEF Unwritten, journalVars
<1>3. MemoryIsWritten(j)'
  BY <1>1, <1>2, RunningIsWritten
<1>4. ASSUME NEW k \in Runs, k # j
      PROVE  MemoryIsWritten(k)'
  BY <1>1, <1>2, <1>4, StaysWritten
<1> QED BY <1>3, <1>4

LEMMA StartStaysWritten ==
    ASSUME RunIInv, \A k \in Runs : MemoryIsWritten(k), NEW j \in Runs,
           Start(j) \/ StartWithoutThread(j)
    PROVE  \A k \in Runs : MemoryIsWritten(k)'
<1>1. /\ \E t \in {"run", "end"} : thread' = [thread EXCEPT ![j] = t]
      /\ \E row : rows' = [rows EXCEPT ![j] = row]
      /\ \E first : events' = [events EXCEPT ![j] = first]
      /\ \E job : jobs' = [jobs EXCEPT ![j] = job]
      /\ UNCHANGED <<jobOf, pc>>
  BY DEF Start, StartWithoutThread, CreateJob, Create, copyVars, copier
<1>2. thread'[j] \in {"run", "end"}
  BY <1>1 DEF RunIInv, RunDomains
<1>3. ASSUME NEW k \in Runs, k # j
      PROVE  MemoryIsWritten(k)'
  <2>1. rows'[k] = rows[k] /\ events'[k] = events[k]
    BY <1>1, <1>3 DEF RunIInv, RunDomains, JournalTypeOK
  <2>2. jobs'[k] = jobs[k] /\ thread'[k] = thread[k]
    BY <1>1, <1>3 DEF RunIInv, RunDomains
  <2> QED BY <1>1, <2>1, <2>2, StaysWritten
<1>4. CASE Start(j)
  <2>1. rows' = [rows EXCEPT ![j] = Row("running", FALSE)]
    BY <1>4 DEF Start, Create
  <2>2. \E lossy \in BOOLEAN : jobs' = [jobs EXCEPT ![j] = [st |-> "running", lossy |-> lossy]]
    BY <1>4 DEF Start, CreateJob
  <2>3. rows'[j].st = "running" /\ jobs'[j].st = "running"
    BY <2>1, <2>2 DEF RunIInv, RunDomains, JournalTypeOK, Row
  <2>4. MemoryIsWritten(j)'
    BY <1>2, <2>3, RunningIsWritten
  <2> QED BY <1>3, <2>4
<1>5. CASE StartWithoutThread(j)
  <2>1. CASE /\ jobs' = [jobs EXCEPT ![j] = [st |-> "error", lossy |-> FALSE]]
             /\ rows' = [rows EXCEPT ![j] = Row("error", FALSE)]
             /\ events' = [events EXCEPT ![j] = <<"running">> \o <<"log", "error">>]
    <3>1. /\ jobs'[j].st = "error" /\ rows'[j].st = "error"
          /\ events'[j] = <<"running">> \o <<"log", "error">>
      BY <2>1 DEF RunIInv, RunDomains, JournalTypeOK, Row
    <3>2. Len(events'[j]) = 3 /\ events'[j][3] = "error"
      <4>1. <<"running">> \in Seq(Kinds) /\ <<"log", "error">> \in Seq(Kinds)
        BY DEF Kinds, Statuses, Finished
      <4> QED BY <3>1, <4>1, ConcatProperties
    <3>3. MemoryIsWritten(j)'
      BY <1>2, <3>1, <3>2 DEF MemoryIsWritten, Last, Finished
    <3> QED BY <1>3, <3>3
  <2>2. CASE /\ jobs' = [jobs EXCEPT ![j] = [st |-> "error", lossy |-> TRUE]]
             /\ rows' = [rows EXCEPT ![j] = Row("running", FALSE)]
    <3>1. jobs'[j].lossy /\ rows'[j].st = "running"
      BY <2>2 DEF RunIInv, RunDomains, JournalTypeOK, Row
    <3>2. MemoryIsWritten(j)'
      BY <1>2, <3>1 DEF MemoryIsWritten, Finished
    <3> QED BY <1>3, <3>2
  <2> QED BY <1>5, <2>1, <2>2 DEF StartWithoutThread, CreateJob, Create
<1> QED BY <1>4, <1>5

LEMMA FinishStaysWritten ==
    ASSUME RunIInv, \A k \in Runs : MemoryIsWritten(k), NEW j \in Runs, Finish(j)
    PROVE  \A k \in Runs : MemoryIsWritten(k)'
<1>1. /\ thread[j] = "run" /\ thread' = [thread EXCEPT ![j] = "finished"]
      /\ UNCHANGED <<jobOf, pc>>
  BY DEF Finish, copyVars, copier
<1>2. thread'[j] = "finished" /\ \A k \in Runs : k # j => thread'[k] = thread[k]
  BY <1>1 DEF RunIInv, RunDomains
<1>3. rows[j].st = "running" /\ jobs[j].st = "running"
  BY <1>1 DEF RunIInv, RunStory, WorkIsRunning
<1>4. Outcome(j)' = Outcome(j)
  BY <1>1 DEF Outcome, CopiersOf
<1>5. CASE FinishRow(j, Outcome(j), jobs[j].lossy) /\ UNCHANGED jobs
  <2>1. /\ rows' = [rows EXCEPT ![j] = Row(Outcome(j), jobs[j].lossy)]
        /\ events' = [events EXCEPT ![j] = Append(events[j], Outcome(j))]
    BY <1>5 DEF FinishRow
  <2>2. rows'[j].st = Outcome(j) /\ events'[j] = Append(events[j], Outcome(j))
    BY <2>1 DEF RunIInv, RunDomains, JournalTypeOK, Row
  <2>3. Outcome(j) \in Kinds /\ Outcome(j) \in Finished
    BY DEF Outcome, Kinds, Statuses, Finished
  <2>4. Len(events'[j]) > 0 /\ Last(events'[j]) = Outcome(j)
    BY <2>2, <2>3, LastOfAppend DEF RunIInv, RunDomains, JournalTypeOK
  <2>5. MemoryIsWritten(j)'
    BY <1>3, <1>4, <1>5, <2>2, <2>3, <2>4 DEF MemoryIsWritten, Last
  <2>6. ASSUME NEW k \in Runs, k # j
        PROVE  MemoryIsWritten(k)'
    <3>1. rows'[k] = rows[k] /\ events'[k] = events[k]
      BY <2>1, <2>6 DEF RunIInv, RunDomains, JournalTypeOK
    <3> QED BY <1>1, <1>2, <1>5, <2>6, <3>1, StaysWritten
  <2> QED BY <2>5, <2>6
<1>6. CASE jobs' = [jobs EXCEPT ![j].lossy = TRUE] /\ UNCHANGED journalVars
  <2>1. jobs'[j] = [st |-> "running", lossy |-> TRUE] /\ UNCHANGED <<rows, events>>
    BY <1>3, <1>6, MarkedJob DEF RunIInv, journalVars
  <2>2. MemoryIsWritten(j)'
    BY <1>3, <2>1 DEF MemoryIsWritten, Finished
  <2>3. ASSUME NEW k \in Runs, k # j
        PROVE  MemoryIsWritten(k)'
    <3>1. jobs'[k] = jobs[k]
      BY <1>6, <2>3 DEF RunIInv, RunDomains
    <3> QED BY <1>1, <1>2, <2>1, <2>3, <3>1, StaysWritten
  <2> QED BY <2>2, <2>3
<1> QED BY <1>5, <1>6 DEF Finish

LEMMA CompleteStaysWritten ==
    ASSUME RunIInv, \A k \in Runs : MemoryIsWritten(k), NEW j \in Runs, Complete(j)
    PROVE  \A k \in Runs : MemoryIsWritten(k)'
<1>1. /\ thread[j] = "finished"
      /\ jobs' = [jobs EXCEPT ![j].st = Outcome(j)]
      /\ thread' = [thread EXCEPT ![j] = "end"]
      /\ UNCHANGED <<jobOf, rows, events, pc>>
  BY DEF Complete, journalVars, copyVars, copier
<1>2. jobs'[j] = [st |-> Outcome(j), lossy |-> jobs[j].lossy] /\ thread'[j] = "end"
  BY <1>1 DEF RunIInv, RunDomains
<1>3. MemoryIsWritten(j)'
  <2>1. MemoryIsWritten(j)
    OBVIOUS
  <2> QED BY <1>1, <1>2, <2>1 DEF MemoryIsWritten, Saved, Last
<1>4. ASSUME NEW k \in Runs, k # j
      PROVE  MemoryIsWritten(k)'
  <2>1. jobs'[k] = jobs[k] /\ thread'[k] = thread[k]
    BY <1>1, <1>4 DEF RunIInv, RunDomains
  <2> QED BY <1>1, <2>1, StaysWritten
<1> QED BY <1>3, <1>4

LEMMA WrittenNext ==
    ASSUME OwnerIInv, RunIInv, \A k \in Runs : MemoryIsWritten(k), [Next]_vars
    PROVE  \A k \in Runs : MemoryIsWritten(k)'
<1>1. CASE \E j \in Runs : Start(j) \/ StartWithoutThread(j)
  BY <1>1, StartStaysWritten
<1>2. CASE \E j \in Runs : Finish(j)
  BY <1>2, FinishStaysWritten
<1>3. CASE \E j \in Runs : Complete(j)
  BY <1>3, CompleteStaysWritten
<1>4. ASSUME NEW j \in Runs, NEW enabled \in BOOLEAN, SetRetries(j, enabled)
      PROVE  \A k \in Runs : MemoryIsWritten(k)'
  <2>1. /\ locked = {} /\ jobs[j].st = "running"
        /\ (AppendEvent(j, "log") /\ UNCHANGED jobs) \/ Unwritten(j)
        /\ UNCHANGED <<jobOf, thread, pc>>
    BY <1>4 DEF SetRetries, Free, MaySwitch, SwitchRetries
  <2>2. thread[j] = "run"
    BY <2>1 DEF RunIInv, RunStory, RunningHasThread
  <2> QED BY <2>1, <2>2, LogStaysWritten
<1>5. ASSUME NEW c \in Copiers, Copy(c)
      PROVE  \A k \in Runs : MemoryIsWritten(k)'
  <2>1. jobOf[c] \in Runs /\ CopierStep(c) /\ UNCHANGED <<jobOf, thread>>
    BY <1>5 DEF Copy
  <2>2. pc[c] \notin Rest /\ \E q \in CopyStates : pc' = [pc EXCEPT ![c] = q]
    BY <2>1, StepIsOwn DEF OwnerIInv
  <2>3. thread[jobOf[c]] = "run"
    BY <2>1, <2>2 DEF RunIInv, RunStory, RunningHasThread, CopiersOf
  <2>4. \A k \in Runs : thread[k] = "finished" => \A d \in CopiersOf(k) : pc'[d] = pc[d]
    BY <2>2, <2>3 DEF CopiersOf, OwnerIInv, OwnerDomains
  <2>5. CASE LogEvent(jobOf[c])
    <3>1. (AppendEvent(jobOf[c], "log") /\ UNCHANGED jobs) \/ Unwritten(jobOf[c])
      BY <2>5 DEF LogEvent
    <3> QED BY <2>1, <2>3, <2>4, <3>1, LogStaysWritten
  <2>6. CASE UNCHANGED <<jobs, journalVars>>
    <3>1. UNCHANGED <<jobs, rows, events>>
      BY <2>6 DEF journalVars
    <3> QED BY <2>1, <2>4, <3>1, StaysWritten
  <2> QED BY <1>5, <2>5, <2>6 DEF Copy
<1>6. ASSUME NEW c \in Copiers, StartCopier(c)
      PROVE  \A k \in Runs : MemoryIsWritten(k)'
  <2>1. /\ thread[jobOf[c]] = "run" /\ pc' = [pc EXCEPT ![c] = "token"]
        /\ UNCHANGED <<jobOf, jobs, thread, rows, events>>
    BY <1>6 DEF StartCopier, Begin, Goto, jobVars, journalVars
  <2>2. \A k \in Runs : thread[k] = "finished" => \A d \in CopiersOf(k) : pc'[d] = pc[d]
    BY <2>1 DEF CopiersOf, OwnerIInv, OwnerDomains
  <2> QED BY <2>1, <2>2, StaysWritten
<1>7. CASE Cleanup
  <2>1. /\ locked = {} /\ rows' = [k \in Runs |-> NoRow] /\ UNCHANGED thread
    BY <1>7 DEF Cleanup, DeleteAll, Free
  <2>2. \A k \in Runs : thread[k] # "finished"
    BY <2>1 DEF RunIInv, RunStory, RunningHasThread
  <2> QED BY <2>1, <2>2 DEF MemoryIsWritten, Saved, NoRow, Row, Finished
<1>8. CASE Crash
  <2>1. /\ jobs' = [k \in Runs |-> NoJob] /\ UNCHANGED <<rows, events>>
        /\ \A k \in Runs : thread'[k] # "finished"
    BY <1>8 DEF Crash, journalVars
  <2> QED BY <2>1 DEF MemoryIsWritten, NoJob, Saved, Last
<1>9. CASE Restart
  <2>1. journal = "down" /\ UNCHANGED <<jobOf, jobs, thread, pc>>
    BY <1>9 DEF Restart, copyVars, copier
  <2>2. \A k \in Runs : thread[k] # "finished"
    BY <2>1 DEF RunIInv, RunStory, WorkIsRunning
  <2>3. CASE UNCHANGED journalVars
    BY <2>1, <2>3, StaysWritten DEF journalVars
  <2>4. CASE Recover
    <3>1. ASSUME NEW k \in Runs, rows[k].st = "running"
          PROVE  MemoryIsWritten(k)'
      <4>1. /\ rows'[k] = [rows[k] EXCEPT !.st = "interrupted"]
            /\ events'[k] = Append(events[k], "interrupted")
        BY <2>4, <3>1 DEF Recover, Recoverable
      <4>2. "interrupted" \in Kinds /\ "interrupted" \in Finished
        BY DEF Kinds, Statuses, Finished
      <4>3. Len(events'[k]) > 0 /\ Last(events'[k]) \in Finished
        BY <4>1, <4>2, LastOfAppend DEF RunIInv, RunDomains, JournalTypeOK
      <4>4. ~(jobs[k].st \in {"done", "error"} /\ ~jobs[k].lossy)
        BY <3>1 DEF MemoryIsWritten, Saved
      <4> QED BY <2>1, <2>2, <4>3, <4>4 DEF MemoryIsWritten, Last
    <3>2. ASSUME NEW k \in Runs, rows[k].st # "running"
          PROVE  MemoryIsWritten(k)'
      <4>1. rows'[k] = rows[k] /\ events'[k] = events[k]
        BY <2>4, <3>2 DEF Recover, Recoverable
      <4> QED BY <2>1, <4>1, StaysWritten
    <3> QED BY <3>1, <3>2
  <2> QED BY <1>9, <2>3, <2>4 DEF Restart
<1>10. CASE StreamStep \/ \E j \in Runs : OpenStream(j)
  <2>1. UNCHANGED <<jobOf, thread, rows, events, pc>>
    BY <1>10
       DEF StreamStep, OpenStream, ReopenStream, ReadPage, Snapshot, Recheck, ReaderKeeps,
           journalVars, copyVars, copier
  <2>2. UNCHANGED jobs \/ \E j : jobs' = [jobs EXCEPT ![j].lossy = TRUE]
    BY <1>10 DEF StreamStep, OpenStream, ReopenStream, ReadPage, Snapshot, Recheck
  <2>3. \A k \in Runs : jobs'[k].st = jobs[k].st /\ (jobs[k].lossy => jobs'[k].lossy)
    <3>1. CASE UNCHANGED jobs
      BY <3>1
    <3>2. ASSUME NEW j, jobs' = [jobs EXCEPT ![j].lossy = TRUE]
          PROVE  <2>3!:
      BY <3>2 DEF RunIInv, RunDomains
    <3> QED BY <2>2, <3>1, <3>2
  <2> QED BY <2>1, <2>3, StaysWritten
<1>11. CASE UNCHANGED vars
  <2>1. UNCHANGED <<jobOf, jobs, thread, rows, events, pc>>
    BY <1>11 DEF vars, jobVars, journalVars, copyVars, copier
  <2> QED BY <2>1, StaysWritten
<1> QED BY <1>1, <1>2, <1>3, <1>4, <1>5, <1>6, <1>7, <1>8, <1>9, <1>10, <1>11
        DEF Next, JobStep

\* While the client waits, its run may only go on as far as it may, or be
\* forgotten.
LEMMA ReaderStill ==
    ASSUME RunIInv, StreamIInv, UNCHANGED reader, \A k \in Runs : Moves(k)
    PROVE  StreamDomains' /\ Follows' /\ SawTheEnd' /\ SaidTheEnd'
<1>1. StreamDomains'
  BY DEF StreamIInv, StreamDomains
<1>2. CASE reader.pc = "closed"
  <2>1. reader = NoReader
    BY <1>2 DEF StreamIInv, Follows
  <2> QED BY <1>1, <2>1 DEF Follows, SawTheEnd, SaidTheEnd, StreamIsComplete, NoReader
<1>3. CASE reader.pc # "closed"
  <2>1. PICK j \in Runs : j = reader.run
    BY <1>3 DEF StreamIInv, Follows
  <2>2. thread[j] # "none" /\ Moves(j)
    BY <1>3, <2>1 DEF StreamIInv, Follows
  <2>3. /\ thread'[j] # "none"
        /\ Saved(j)' => Saved(j) /\ Len(events'[j]) >= Len(events[j])
        /\ Saved(j)' /\ rows[j].st \in Finished => rows'[j] = rows[j] /\ events'[j] = events[j]
    BY <2>2 DEF Moves
  <2>4. Follows'
    <3>1. Saved(j)' => reader.cursor <= Len(events'[j])
      <4>1. Len(events[j]) \in Nat /\ reader.cursor \in Nat
        BY DEF RunIInv, RunDomains, JournalTypeOK, StreamIInv, StreamDomains
      <4>2. Saved(j) => reader.cursor <= Len(events[j])
        BY <1>3, <2>1 DEF StreamIInv, Follows, Cutoff
      <4>3. Saved(j)' => Len(events'[j]) >= Len(events[j])
        BY <2>3
      <4> QED BY <4>1, <4>2, <4>3, <2>3
    <3> QED BY <1>3, <2>1, <2>3, <3>1 DEF Follows, Saved, Cutoff
  <2>5. SawTheEnd'
    BY <2>1, <2>3 DEF StreamIInv, SawTheEnd, Saved
  <2>6. SaidTheEnd'
    BY <2>1, <2>3 DEF StreamIInv, SaidTheEnd, StreamIsComplete, Saved, Cutoff, Last
  <2> QED BY <1>1, <2>4, <2>5, <2>6
<1> QED BY <1>2, <1>3

\* A stream that has ended with an answer that is not the end of the run, or
\* that was cut, or goes on reading, claims nothing.
LEMMA ReaderClaimsNothing ==
    ASSUME RunIInv, StreamIInv, UNCHANGED <<rows, events, thread>>,
           NEW j \in Runs, thread[j] # "none",
           reader'.run = j, reader'.pc \in ReaderStates \ {"closed", "recheck"},
           reader'.said \in {"none", "journal_error"},
           reader'.said # "none" => reader'.pc = "ended",
           reader' \in [pc : ReaderStates, run : Runs \cup {"none"}, cursor : Nat,
                        st : Statuses \cup {"none"}, said : Answers],
           Saved(j) => reader'.cursor <= Cutoff(j)
    PROVE  StreamDomains' /\ Follows' /\ SawTheEnd' /\ SaidTheEnd'
<1>1. Saved(j)' = Saved(j) /\ Cutoff(j)' = Cutoff(j)
  BY DEF Saved, Cutoff
<1>2. StreamDomains'
  BY DEF StreamDomains
<1>3. Follows'
  <2>1. Saved(reader.run)' => (reader.cursor <= Cutoff(reader.run))'
    BY DEF Saved, Cutoff
  <2> QED BY <2>1 DEF Follows
<1>4. SawTheEnd' /\ SaidTheEnd'
  BY DEF SawTheEnd, SaidTheEnd, StreamIsComplete
<1> QED BY <1>2, <1>3, <1>4

LEMMA StreamStepFollows ==
    ASSUME RunIInv, StreamIInv, StreamStep
    PROVE  StreamDomains' /\ Follows' /\ SawTheEnd' /\ SaidTheEnd'
<1>1. UNCHANGED <<rows, events, thread>>
  BY DEF StreamStep, ReopenStream, ReadPage, Snapshot, Recheck, ReaderKeeps, journalVars
<1>2. reader.pc \notin {"closed", "ended"}
  BY DEF StreamStep, ReopenStream, ReadPage, Snapshot, Recheck
<1>3. PICK j \in Runs : j = reader.run /\ thread[j] # "none"
  BY <1>2 DEF StreamIInv, Follows
<1>4. /\ reader \in [pc : ReaderStates, run : Runs \cup {"none"}, cursor : Nat,
                     st : Statuses \cup {"none"}, said : Answers]
      /\ reader.said = "none"
      /\ Saved(j) => reader.cursor <= Cutoff(j)
  BY <1>2, <1>3 DEF StreamIInv, StreamDomains, Follows
<1>5. Cutoff(j) \in Nat
  BY DEF RunIInv, RunDomains, JournalTypeOK, Cutoff
<1>6. CASE ReaderSays("journal_error")
  <2>1. reader' = [reader EXCEPT !.pc = "ended", !.said = "journal_error"]
    BY <1>6 DEF ReaderSays
  <2>2. "ended" \in ReaderStates \ {"closed", "recheck"} /\ "journal_error" \in Answers
    BY DEF ReaderStates, Answers
  <2> QED BY <1>1, <1>3, <1>4, <2>1, <2>2, ReaderClaimsNothing
<1>7. CASE reader' = [reader EXCEPT !.pc = "read"]
  <2>1. "read" \in ReaderStates \ {"closed", "recheck"}
    BY DEF ReaderStates
  <2> QED BY <1>1, <1>3, <1>4, <1>7, <2>1, ReaderClaimsNothing
<1>8. CASE ReadPage /\ ~ReaderSays("journal_error")
  <2>1. PICK n : n = PageEnd(j, reader.cursor, PageLimit)
    OBVIOUS
  <2>2. Saved(j) /\ reader' = [reader EXCEPT !.pc = "snapshot", !.cursor = n]
    BY <1>3, <1>8, <2>1 DEF ReadPage
  <2>3. n \in Nat /\ n <= Cutoff(j)
    BY <1>4, <1>5, <2>1, <2>2, DirectAssumption DEF PageEnd
  <2>4. "snapshot" \in ReaderStates \ {"closed", "recheck"}
    BY DEF ReaderStates
  <2> QED BY <1>1, <1>3, <1>4, <2>2, <2>3, <2>4, ReaderClaimsNothing
<1>9. CASE Snapshot /\ ~ReaderSays("journal_error")
  <2>1. /\ Known(j) /\ ~Lossy(j)
        /\ reader' = [reader EXCEPT !.st = Status(j),
                        !.pc = IF Status(j) = "running" THEN "read" ELSE "recheck"]
    BY <1>3, <1>9 DEF Snapshot
  <2>2. /\ Status(j) \in Statuses
        /\ Status(j) # "running" => Status(j) \in Finished
        /\ Status(j) # "running" /\ Saved(j) => rows[j].st = Status(j)
    <3>1. /\ jobs[j].st \in {"none", "running", "done", "error"}
          /\ rows[j].st \in Statuses \cup {"none"}
      BY DEF RunIInv, RunDomains, JournalTypeOK
    <3>2. MemoryIsWritten(j)
      BY DEF StreamIInv
    <3> QED BY <2>1, <3>1, <3>2
            DEF Known, Status, Lossy, InMemory, Saved, MemoryIsWritten, Statuses, Finished
  <2>3. PICK st \in Statuses : st = Status(j)
    BY <2>2
  <2>4. CASE st = "running"
    <3>1. reader' = [reader EXCEPT !.st = st, !.pc = "read"]
      BY <2>1, <2>3, <2>4
    <3>2. "read" \in ReaderStates \ {"closed", "recheck"}
      BY DEF ReaderStates
    <3> QED BY <1>1, <1>3, <1>4, <3>1, <3>2, ReaderClaimsNothing
  <2>5. CASE st # "running"
    <3>1. reader' = [reader EXCEPT !.st = st, !.pc = "recheck"]
      BY <2>1, <2>3, <2>5
    <3>2. /\ reader'.pc = "recheck" /\ reader'.st = st /\ reader'.run = j
          /\ reader'.said = "none" /\ reader'.cursor = reader.cursor
          /\ reader' \in [pc : ReaderStates, run : Runs \cup {"none"}, cursor : Nat,
                          st : Statuses \cup {"none"}, said : Answers]
      BY <1>3, <1>4, <3>1 DEF ReaderStates
    <3>3. st \in Finished /\ (Saved(j) => rows[j].st = st)
      BY <2>2, <2>3, <2>5
    <3>4. StreamDomains' /\ SaidTheEnd'
      BY <3>2 DEF StreamDomains, SaidTheEnd, StreamIsComplete
    <3>5. Follows'
      BY <1>1, <1>3, <1>4, <3>2 DEF Follows, Saved, Cutoff
    <3>6. SawTheEnd'
      BY <1>1, <3>2, <3>3 DEF SawTheEnd, Saved
    <3> QED BY <3>4, <3>5, <3>6
  <2> QED BY <2>4, <2>5
<1>10. CASE Recheck /\ ~ReaderSays("journal_error") /\ reader' # [reader EXCEPT !.pc = "read"]
  <2>1. /\ reader.pc = "recheck" /\ Saved(j) /\ reader.cursor >= Cutoff(j)
        /\ ReaderSays(StreamAnswer)
    BY <1>3, <1>10 DEF Recheck
  <2>2. rows[j].st = reader.st /\ reader.st \in Finished
    BY <1>3, <2>1 DEF StreamIInv, SawTheEnd
  <2>3. Len(events[j]) > 0 /\ Last(events[j]) \in Finished
    BY <2>2 DEF StreamIInv, MemoryIsWritten
  <2>4. reader.cursor = Cutoff(j)
    BY <1>4, <1>5, <2>1
  <2>5. StreamAnswer \in {"done", "error"} /\ (StreamAnswer = "done" <=> rows[j].st = "done")
    BY <2>2 DEF StreamAnswer, Finished
  <2>6. PICK answer \in {"done", "error"} :
          answer = StreamAnswer /\ (answer = "done" <=> rows[j].st = "done")
    BY <2>5
  <2>7. reader' = [reader EXCEPT !.pc = "ended", !.said = answer]
    BY <2>1, <2>6 DEF ReaderSays
  <2>8. /\ reader'.pc = "ended" /\ reader'.said = answer /\ reader'.run = j
        /\ reader'.cursor = reader.cursor
        /\ reader' \in [pc : ReaderStates, run : Runs \cup {"none"}, cursor : Nat,
                        st : Statuses \cup {"none"}, said : Answers]
    BY <1>3, <1>4, <2>7 DEF ReaderStates, Answers
  <2>9. StreamDomains' /\ SawTheEnd'
    BY <2>8 DEF StreamDomains, SawTheEnd
  <2>10. Follows'
    BY <1>1, <1>3, <1>4, <2>8 DEF Follows, Saved, Cutoff
  <2>11. SaidTheEnd'
    BY <1>1, <2>2, <2>3, <2>4, <2>6, <2>8
       DEF SaidTheEnd, StreamIsComplete, Saved, Cutoff, Last
  <2> QED BY <2>9, <2>10, <2>11
<1> QED BY <1>6, <1>7, <1>8, <1>9, <1>10 DEF StreamStep, ReopenStream

LEMMA OpenFollows ==
    ASSUME RunIInv, StreamIInv, NEW j \in Runs, OpenStream(j)
    PROVE  StreamDomains' /\ Follows' /\ SawTheEnd' /\ SaidTheEnd'
<1>1. /\ UNCHANGED <<rows, events, thread>> /\ Known(j) /\ reader.pc = "closed"
      /\ reader' = [reader EXCEPT !.pc = "read", !.run = j]
  BY DEF OpenStream, ReaderKeeps, journalVars
<1>2. reader = NoReader
  BY <1>1 DEF StreamIInv, Follows
<1>3. reader' = [pc |-> "read", run |-> j, cursor |-> 0, st |-> "none", said |-> "none"]
  BY <1>1, <1>2 DEF NoReader
<1>4. thread[j] # "none"
  BY <1>1 DEF Known, InMemory, Saved, RunIInv, RunStory, FreshIsUnknown, NoRow, Row
<1>5. Cutoff(j) \in Nat
  BY DEF RunIInv, RunDomains, JournalTypeOK, Cutoff
<1>6. /\ "read" \in ReaderStates \ {"closed", "recheck"} /\ "none" \in Answers
  BY DEF ReaderStates, Answers
<1>7. /\ reader'.run = j /\ reader'.pc \in ReaderStates \ {"closed", "recheck"}
      /\ reader'.said = "none" /\ reader'.cursor = 0
  BY <1>3, <1>6
<1>8. reader' \in [pc : ReaderStates, run : Runs \cup {"none"}, cursor : Nat,
                  st : Statuses \cup {"none"}, said : Answers]
  BY <1>3, <1>6
<1>9. reader'.cursor <= Cutoff(j)
  BY <1>5, <1>7
<1> QED BY <1>1, <1>4, <1>7, <1>8, <1>9, ReaderClaimsNothing

LEMMA CrashFollows ==
    ASSUME OwnerIInv, RunIInv, StreamIInv, Crash
    PROVE  StreamDomains' /\ Follows' /\ SawTheEnd' /\ SaidTheEnd'
<1>0. \A k \in Runs : Moves(k)
  BY StepMoves DEF Next
<1>1. CASE UNCHANGED reader
  BY <1>0, <1>1, ReaderStill
<1>2. CASE reader.pc \notin {"closed", "ended"} /\ reader' = [reader EXCEPT !.pc = "cut"]
  <2>1. PICK j \in Runs : j = reader.run /\ thread[j] # "none"
    BY <1>2 DEF StreamIInv, Follows
  <2>2. UNCHANGED <<rows, events>> /\ thread'[j] # "none"
    BY <2>1 DEF Crash, journalVars
  <2>3. /\ reader'.pc = "cut" /\ reader'.said = "none" /\ reader'.run = j
        /\ reader'.cursor = reader.cursor
        /\ reader' \in [pc : ReaderStates, run : Runs \cup {"none"}, cursor : Nat,
                        st : Statuses \cup {"none"}, said : Answers]
    BY <1>2, <2>1 DEF StreamIInv, StreamDomains, ReaderStates
  <2>4. StreamDomains' /\ SawTheEnd' /\ SaidTheEnd'
    BY <2>3 DEF StreamDomains, SawTheEnd, SaidTheEnd, StreamIsComplete
  <2>5. Saved(j) => reader.cursor <= Cutoff(j)
    BY <1>2, <2>1 DEF StreamIInv, Follows
  <2>6. Follows'
    BY <2>2, <2>3, <2>5 DEF Follows, Saved, Cutoff
  <2> QED BY <2>4, <2>6
<1> QED BY <1>1, <1>2 DEF Crash

LEMMA StreamNext ==
    ASSUME OwnerIInv, RunIInv, StreamIInv, [Next]_vars
    PROVE  StreamIInv'
<1>1. \A k \in Runs : MemoryIsWritten(k)'
  BY WrittenNext DEF StreamIInv
<1>2. \A k \in Runs : Moves(k)
  BY StepMoves
<1>3. StreamDomains' /\ Follows' /\ SawTheEnd' /\ SaidTheEnd'
  <2>1. CASE StreamStep
    BY <2>1, StreamStepFollows
  <2>2. CASE \E j \in Runs : OpenStream(j)
    BY <2>2, OpenFollows
  <2>3. CASE Crash
    BY <2>3, CrashFollows
  <2>4. CASE UNCHANGED reader
    BY <1>2, <2>4, ReaderStill
  <2> QED BY <2>1, <2>2, <2>3, <2>4
          DEF Next, JobStep, Start, StartWithoutThread, Finish, Complete, SetRetries,
              StartCopier, Copy, Cleanup, Restart, vars
<1> QED BY <1>1, <1>3 DEF StreamIInv

LEMMA StreamInit ==
    ASSUME Init
    PROVE  StreamIInv
<1>1. reader = NoReader
  BY DEF Init
<1>2. StreamDomains /\ Follows /\ SawTheEnd /\ SaidTheEnd
  BY <1>1 DEF StreamDomains, Follows, SawTheEnd, SaidTheEnd, StreamIsComplete, NoReader,
              ReaderStates, Answers
<1>3. ASSUME NEW k \in Runs
      PROVE  MemoryIsWritten(k)
  <2>1. rows[k] = NoRow /\ jobs[k] = NoJob /\ thread[k] = "none"
    BY DEF Init, JournalInit
  <2> QED BY <2>1 DEF MemoryIsWritten, NoRow, Row, NoJob, Finished
<1> QED BY <1>2, <1>3 DEF StreamIInv

LEMMA StreamInvariant == Spec => []StreamIInv
<1>1. Init => StreamIInv
  BY StreamInit
<1>2. OwnerIInv /\ RunIInv /\ StreamIInv /\ [Next]_vars => StreamIInv'
  BY StreamNext
<1> QED BY <1>1, <1>2, OwnerInvariant, RunInvariant, PTL DEF Spec

\* Whatever the size of a page and of a run, and whenever the run ends, the
\* journal fails, the history is cleaned or the process dies and the client
\* comes back: a stream that reports the end of a run has delivered every event
\* up to the final one, and reports that end (_stream and _snapshot, main.py).
THEOREM StreamsAreComplete == Spec => []StreamIsComplete
<1>1. StreamIInv => StreamIsComplete
  BY DEF StreamIInv, SaidTheEnd
<1> QED BY <1>1, StreamInvariant, PTL

----------------------------------------------------------------------------
(* Type correctness. *)

\* What no other invariant says of the remaining variables.
OtherDomains ==
    /\ jobOf \in [Copiers -> Runs \cup {Unused}]
    /\ locked \subseteq Runs
    /\ journal \in {"open", "unavailable", "down"}
    /\ missed \subseteq Runs
    /\ budget \in [requests : Nat, mishaps : Nat]

LEMMA SpendTyped ==
    ASSUME budget \in [requests : Nat, mishaps : Nat],
           NEW r \in Nat, NEW m \in Nat, Spend(r, m)
    PROVE  budget' \in [requests : Nat, mishaps : Nat]
BY DEF Spend

LEMMA OtherNext ==
    ASSUME OtherDomains, [Next]_vars
    PROVE  OtherDomains'
<1>1. UNCHANGED jobOf
  BY DEF Next, JobStep, Start, StartWithoutThread, Finish, Complete, SetRetries, StartCopier,
         Copy, Cleanup, StreamStep, OpenStream, ReopenStream, ReadPage, Snapshot, Recheck,
         ReaderKeeps, Crash, Restart, vars
<1>2. locked' \subseteq Runs
  BY DEF OtherDomains, Next, JobStep, Start, StartWithoutThread, Finish, Complete, SetRetries,
         StartCopier, Copy, Cleanup, StreamStep, OpenStream, ReopenStream, ReadPage, Snapshot,
         Recheck, ReaderKeeps, Crash, Restart, vars, jobVars
<1>3. journal' \in {"open", "unavailable", "down"}
  BY DEF OtherDomains, Next, JobStep, Start, StartWithoutThread, Finish, Complete, SetRetries,
         StartCopier, Copy, Cleanup, StreamStep, OpenStream, ReopenStream, ReadPage, Snapshot,
         Recheck, ReaderKeeps, Crash, Restart, vars, jobVars
<1>4. missed' \subseteq Runs
  BY DEF OtherDomains, Next, JobStep, Start, StartWithoutThread, Finish, Complete, SetRetries,
         StartCopier, Copy, Cleanup, StreamStep, OpenStream, ReopenStream, ReadPage, Snapshot,
         Recheck, ReaderKeeps, Crash, Restart, vars, jobVars, LogEvent, Unwritten
<1>5. UNCHANGED budget \/ \E r, m \in {0, 1, 2} : Spend(r, m)
  BY DEF Next, JobStep, Start, StartWithoutThread, Finish, Complete, SetRetries, StartCopier,
         Copy, Cleanup, StreamStep, OpenStream, ReopenStream, ReadPage, Snapshot, Recheck,
         ReaderKeeps, Crash, Restart, vars, LogEvent, Mishap, Request
<1>6. budget' \in [requests : Nat, mishaps : Nat]
  BY <1>5, SpendTyped DEF OtherDomains
<1> QED BY <1>1, <1>2, <1>3, <1>4, <1>6 DEF OtherDomains

LEMMA OtherInit ==
    ASSUME Init
    PROVE  OtherDomains
<1>1. PICK s \in Scenarios : /\ jobOf = s.jobs
                            /\ budget = [requests |-> s.requests, mishaps |-> s.mishaps]
  BY DEF Init
<1>2. s \in [work : Works, listed : Listings, active : BOOLEAN,
             jobs : [Copiers -> Runs \cup {Unused}], requests : Nat, mishaps : Nat]
  BY <1>1, DirectAssumption
<1>3. jobOf \in [Copiers -> Runs \cup {Unused}] /\ budget \in [requests : Nat, mishaps : Nat]
  BY <1>1, <1>2
<1> QED BY <1>3 DEF Init, OtherDomains

\* The variables keep their types, for any number of jobs and copiers.
THEOREM DirectTypeCorrect == Spec => []TypeOK
<1>1. Init => OtherDomains
  BY OtherInit
<1>2. OtherDomains /\ [Next]_vars => OtherDomains'
  BY OtherNext
<1>3. OtherDomains /\ RunIInv /\ AccountIInv /\ StreamIInv => TypeOK
  BY DEF OtherDomains, RunIInv, RunDomains, AccountIInv, StreamIInv, StreamDomains, TypeOK
<1> QED BY <1>1, <1>2, <1>3, RunInvariant, AccountInvariant, StreamInvariant, PTL DEF Spec

=============================================================================
