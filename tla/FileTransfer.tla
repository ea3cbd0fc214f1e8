---------------------------- MODULE FileTransfer ----------------------------
(***************************************************************************)
(* One staged migration job that is past its plan: the persistent records  *)
(* of MigrationStore, the scheduling step and the file pipeline of         *)
(* MigrationRunner, the requests of the API that act on them, the process  *)
(* that may die between any two commits, and the destination server, which *)
(* is external and is modelled from the way destination.py uses it.        *)
(*                                                                         *)
(* Each action is one committed transaction or one request to a server     *)
(* together with the reads around it.  The runner holds the job guard from *)
(* the moment run.pc leaves "idle" until it is "idle" again, and so do the *)
(* API calls that need the guard.  Full stop, pause and the retry switch   *)
(* do not take the guard: they interleave with every step of the pipeline. *)
(*                                                                         *)
(* A definition just before the one its name begins like, and used nowhere *)
(* else, is a seeded defect: in its neighbour's place it must break one of *)
(* the properties.                                                         *)
(***************************************************************************)
EXTENDS Integers, FiniteSets

CONSTANTS
    Files,          \* the selected files of the frozen plan
    NoFile,         \* not a file
    MaxDownloads,   \* MAX_DOWNLOAD_ATTEMPTS
    MaxPointTries,  \* MAX_POINT_RETRY_ATTEMPTS
    MaxAttempts,    \* bound: rows of "attempts" per file
    Scenarios       \* bound: "remote_root is empty" together with how many requests
                    \* of the user, changes of others and deaths of the process

ASSUME TransferAssumption ==
    /\ NoFile \notin Files
    /\ MaxDownloads \in Nat \ {0} /\ MaxPointTries \in Nat \ {0}
    /\ MaxAttempts \in Nat \ {0}
    /\ Scenarios \subseteq [direct : BOOLEAN, user : Nat, edits : Nat, crash : Nat]

VARIABLES
    job,      \* the row of "jobs"
    ent,      \* the rows of "entries"
    att,      \* the rows of "attempts", with the state of the cached copy
    run,      \* who holds the job guard, and where it stands (volatile)
    mem,      \* credential registry and destination outage map (volatile)
    cancels,  \* point retries set_retry_enabled still has to finish (volatile)
    dest,     \* what the destination holds under the file's own name
    temp,     \* what it holds under each attempt's temporary name
    wire,     \* the last write request of each attempt, as the server sees it
    source,   \* whether the source still matches the plan
    budget    \* what the bounds leave of requests, foreign edits and crashes

store == <<job, ent, att>>
remote == <<dest, temp, wire, source>>
vars == <<job, ent, att, run, mem, cancels, dest, temp, wire, source, budget>>

Attempts == 1..MaxAttempts

\* remote_root = "": the files go under their own names, without a technical
\* root and temporary names.
Direct == job.direct

----------------------------------------------------------------------------
(* The vocabulary of the store. *)

Active == {"transferring", "waiting_operation", "verifying", "committing",
           "downloading", "staged"}
Success == {"done", "already_verified"}
EntryStates == Active \cup Success \cup
    {"planned", "outcome_unknown", "failed", "conflict", "source_changed",
     "verification_unavailable", "cancelled"}

Local == {"prepared", "downloading", "staged"}
Waiting == {"waiting_transfer", "waiting_move"}
UnknownPhases == {"transfer_intent", "move_intent", "unknown_transfer", "unknown_move"}
AbandonedPhases == {"abandoned_transfer", "abandoned_move"}
SideEffectPhases == UnknownPhases \cup Waiting \cup {"verifying", "verifying_final"}
MovePhases == {"move_intent", "waiting_move", "unknown_move", "abandoned_move"}
PointRetryPhases == {"failed"} \cup UnknownPhases \cup AbandonedPhases \cup Waiting
Phases == Local \cup SideEffectPhases \cup AbandonedPhases \cup
    {"none", "download_retry_wait", "succeeded", "failed"}

JobStates == {"running", "paused", "awaiting_credentials", "needs_attention",
              "completed", "completed_with_issues", "stopped"}

\* The classes of MigrationError the handlers tell apart.
Errors == {"dest",      \* destination_*, nothing written or certainly refused
           "destUnc",   \* destination_*, a write whose outcome is uncertain
           "destAuth",  \* destination_auth_failed
           "conflict",  \* destination_conflict
           "rejected",  \* remote_operation_failed
           "unknown",   \* uncertain, and no fault of the connection
           "srcDl",     \* DOWNLOAD_ERRORS
           "srcAuth",   \* the source refuses the credentials
           "fatal"}     \* staging_*, verification_mismatch, internal_error
DestinationErrors == {"dest", "destAuth"}

\* destination_interrupted, exc.uncertain, exc.auth
Interrupted(e) == e \in {"dest", "destUnc", "destAuth"}
Uncertain(e) == e \in {"destUnc", "unknown"}
Auth(e) == e \in {"destAuth", "srcAuth"}
PointRetryable(e) == e \in {"rejected", "srcDl"}

\* The cached copy: no name in the row, a name without a file, an incomplete
\* file, or a file whose size and MD5 match the plan.
Copies == {"none", "gone", "part", "full"}

\* "ours" matches the plan by size and MD5; "partial" is what an interrupted
\* upload of ours left; "foreign" belongs to somebody else.
Contents == {"none", "ours", "partial", "foreign"}

Requests == {"none", "late", "op", "opdone", "opfailed"}

JobRows == [st : JobStates, resume : JobStates \cup {"none"}, pause : BOOLEAN,
            stop : BOOLEAN, retry : BOOLEAN, direct : BOOLEAN,
            ns : {"unclaimed", "intent", "owned", "unknown"},
            origin : (Files \cup {NoFile}) \X (0..MaxAttempts)]
EntryRows == [st : EntryStates, at : 0..MaxAttempts, point : BOOLEAN,
              ptries : 0..MaxPointTries, dls : 0..MaxDownloads,
              timer : {"none", "future", "due"}]
AttemptRows == [ph : Phases, op : BOOLEAN, copy : Copies, err : Errors \cup {"none"}]
WireRows == [st : Requests, to : {"final", "temp", "move"}, ow : BOOLEAN]

NoAttempt == [ph |-> "none", op |-> FALSE, copy |-> "none", err |-> "none"]
NoRequest == [st |-> "none", to |-> "final", ow |-> FALSE]

----------------------------------------------------------------------------
(* Reading the store, and the volatile state of the holder of the guard. *)

PCs == {"idle", "claim", "file", "src0", "dest0", "new", "newEnt", "predest", "src1",
        "stage", "dl", "staged", "dlfail", "src2", "geturl", "intent", "put", "sent",
        "poll", "polled", "dfinal", "verify", "mkmove", "move", "moved", "final", "succ", "doneW",
        "pt", "ptconfirm", "ptnew", "ptdone", "err", "f1", "f2", "f3",
        "cancel", "bulk", "bulkEnt"}

\* point: the snapshot of point_retry_requested the step works with;
\* ow, op: the upload overwrites, and the server named an operation for it;
\* todo: the failed files a bulk retry has still to reset.
RunStates == [pc : PCs, f : Files \cup {NoFile}, err : Errors \cup {"none"},
              point : BOOLEAN, ow : BOOLEAN, op : BOOLEAN, todo : SUBSET Files]
Idle == [pc |-> "idle", f |-> NoFile, err |-> "none", point |-> FALSE, ow |-> FALSE,
         op |-> FALSE, todo |-> {}]

F == run.f
At(pc) == run.pc = pc
Go(pc) == run' = [run EXCEPT !.pc = pc]
Fail(e) == run' = [run EXCEPT !.pc = "err", !.err = e]
Return == IF run.point THEN Go("ptdone") ELSE run' = Idle

Row(f) == IF ent[f].at = 0 THEN NoAttempt ELSE att[f][ent[f].at]
Phase(f) == Row(f).ph
ActiveFiles == {f \in Files : ent[f].st \in Active}
Pointed == {f \in Files : ent[f].point}

DownloadLimitOffByOne == IF job.retry THEN MaxDownloads + 1 ELSE 1
DownloadLimit == IF job.retry THEN MaxDownloads ELSE 1
PointLimit == IF job.retry THEN MaxPointTries ELSE 1

\* Writing the current attempt of f; a row past the last attempt never exists.
SetPhase(f, p) == att' = [att EXCEPT ![f][ent[f].at].ph = p]
SetEntry(f, s) == ent' = [ent EXCEPT ![f].st = s]

\* _job_error: update_job refuses to leave a stop request, and it is swallowed.
JobError(s, r) == IF job.stop THEN job ELSE [job EXCEPT !.st = s, !.resume = r]

\* cleanup(successes_only=True): the cached copies of the settled attempts of
\* the entries that succeeded.
CleanedAnyEntry(rows, entries) ==
    [f \in Files |-> [a \in Attempts |->
        IF rows[f][a].ph \in {"succeeded", "failed"} \cup AbandonedPhases
        THEN [rows[f][a] EXCEPT !.copy = "none"] ELSE rows[f][a]]]
Cleaned(rows, entries) ==
    [f \in Files |-> [a \in Attempts |->
        IF entries[f].st \in Success
           /\ rows[f][a].ph \in {"succeeded", "failed"} \cup AbandonedPhases
        THEN [rows[f][a] EXCEPT !.copy = "none"] ELSE rows[f][a]]]

\* finish_point_retry: drop the request and let the remaining entries decide
\* the job's state.
Finished(f) == [ent EXCEPT ![f].point = FALSE, ![f].timer = "none"]
QueueStateForgetsIssues(entries) ==
    LET states == {entries[g].st : g \in Files}
    IN IF job.pause THEN "paused"
       ELSE IF states \cap (Active \cup {"planned"}) # {} THEN "running" ELSE "completed"
QueueState(entries) ==
    LET states == {entries[g].st : g \in Files}
    IN CASE job.pause -> "paused"
         [] ~job.pause /\ states \cap (Active \cup {"planned"}) # {} -> "running"
         [] ~job.pause /\ states \cap (Active \cup {"planned"}) = {} ->
              IF "outcome_unknown" \in states THEN "needs_attention"
              ELSE IF states \subseteq Success THEN "completed" ELSE "completed_with_issues"
FinishedJob(entries) ==
    IF job.stop \/ job.st = "stopped" THEN job
    ELSE IF job.st = "awaiting_credentials" THEN [job EXCEPT !.resume = QueueState(entries)]
    ELSE [job EXCEPT !.st = QueueState(entries)]

\* matching: the size and the MD5 of the plan.
MatchingBySize(c) == c \in {"ours", "foreign"}
Matching(c) == c = "ours"

\* _point_overwrite: an earlier ambiguous upload of this file by this job, the
\* attempt the user asked about included.
PointOverwriteAnyFailure(f) ==
    /\ Direct /\ run.point
    /\ \E a \in Attempts : /\ a # ent[f].at \/ job.origin = <<f, a>>
                           /\ att[f][a].ph \in PointRetryPhases
PointOverwrite(f) ==
    /\ Direct /\ run.point
    /\ \E a \in Attempts :
        /\ a # ent[f].at \/ job.origin = <<f, a>>
        /\ att[f][a].ph \in {"abandoned_transfer", "unknown_transfer",
                             "transfer_intent", "waiting_transfer"}

\* _current_or_cache: a point retry trusts a complete cached copy.
SourceMatches(f) == \/ source[f] = "same"
                    \/ ent[f].point /\ Row(f).copy = "full"

\* _logged refuses to write while an outage of the destination is on record,
\* except for a point retry and with automatic retries off.
OutageBlocks == mem.outage /\ ~run.point /\ job.retry

\* The phases from which the pipeline goes on, and where.
Underway == Local \cup Waiting \cup {"verifying", "verifying_final", "succeeded"}
After(p) == CASE p \in Local -> IF Direct THEN "predest" ELSE "src1"
              [] p \in Waiting -> "poll"
              [] p = "verifying" -> IF Direct THEN "dfinal" ELSE "verify"
              [] OTHER -> "final"
----------------------------------------------------------------------------
(* The destination server (external). *)

Applicable(f, a, to, ow) ==
    CASE to = "final" -> dest[f] = "none" \/ ow
      [] to = "temp" -> TRUE
      [] OTHER -> temp[f][a] = "ours" /\ dest[f] = "none"

\* The write takes effect with content c.
Apply(f, a, to, c) ==
    /\ dest' = IF to = "temp" THEN dest ELSE [dest EXCEPT ![f] = c]
    /\ temp' = CASE to = "temp" -> [temp EXCEPT ![f][a] = c]
                [] to = "move" -> [temp EXCEPT ![f][a] = "none"]
                [] OTHER -> temp

NoEffect == UNCHANGED <<dest, temp>>

\* A request whose answer was lost may still be carried out, or not at all.
Land(f, a) ==
    /\ wire[f][a].st = "late"
    /\ wire' = [wire EXCEPT ![f][a] = NoRequest]
    /\ \/ /\ Applicable(f, a, wire[f][a].to, wire[f][a].ow)
          /\ Apply(f, a, wire[f][a].to, "ours")
       \/ NoEffect
    /\ UNCHANGED <<job, ent, att, run, mem, cancels, source, budget>>

\* An accepted operation ends.
EndOperation(f, a) ==
    /\ wire[f][a].st = "op"
    /\ \/ /\ Applicable(f, a, wire[f][a].to, wire[f][a].ow)
          /\ Apply(f, a, wire[f][a].to, "ours")
          /\ wire' = [wire EXCEPT ![f][a].st = "opdone"]
       \/ /\ NoEffect
          /\ wire' = [wire EXCEPT ![f][a].st = "opfailed"]
    /\ UNCHANGED <<job, ent, att, run, mem, cancels, source, budget>>

\* Somebody else writes a file under the name, or changes the source.
Edit == budget.edits > 0 /\ budget' = [budget EXCEPT !.edits = @ - 1]

ForeignWrite(f) ==
    /\ Edit
    /\ dest[f] = "none"
    /\ dest' = [dest EXCEPT ![f] = "foreign"]
    /\ UNCHANGED <<job, ent, att, run, mem, cancels, temp, wire, source>>

SourceEdit(f) ==
    /\ Edit
    /\ source[f] = "same"
    /\ source' = [source EXCEPT ![f] = "changed"]
    /\ UNCHANGED <<job, ent, att, run, mem, cancels, dest, temp, wire>>

Environment ==
    \E f \in Files : \/ \E a \in Attempts : Land(f, a) \/ EndOperation(f, a)
                      \/ ForeignWrite(f) \/ SourceEdit(f)

----------------------------------------------------------------------------
(* MigrationRunner.step: what the worker finds to do under the job guard. *)

Init ==
    /\ \E s \in Scenarios :
         /\ job = [st |-> "running", resume |-> "none", pause |-> FALSE, stop |-> FALSE,
                   retry |-> TRUE, direct |-> s.direct,
                   ns |-> IF s.direct THEN "owned" ELSE "unclaimed", origin |-> <<NoFile, 0>>]
         /\ budget = [user |-> s.user, edits |-> s.edits, crash |-> s.crash]
    /\ ent = [f \in Files |-> [st |-> "planned", at |-> 0, point |-> FALSE,
                               ptries |-> 0, dls |-> 0, timer |-> "none"]]
    /\ att = [f \in Files |-> [a \in Attempts |-> NoAttempt]]
    /\ run = Idle
    /\ mem = [creds |-> TRUE, outage |-> FALSE]
    /\ cancels = {}
    /\ dest \in [Files -> {"none", "ours", "foreign"}]
    /\ temp = [f \in Files |-> [a \in Attempts |-> "none"]]
    /\ wire = [f \in Files |-> [a \in Attempts |-> NoRequest]]
    /\ source = [f \in Files |-> "same"]

RunnableStopping == At("idle") /\ job.st = "running"
Runnable == At("idle") /\ job.st = "running" /\ ~job.stop

\* The same pause is taken by the worker's _pause_idle_jobs.
ParkPaused ==
    /\ Runnable
    /\ job.pause
    /\ ActiveFiles = {} \/ Pointed # {}
    /\ job' = [job EXCEPT !.st = "paused"]
    /\ ent' = [f \in Files |->
          IF ActiveFiles # {} /\ ent[f].point /\ Phase(f) \in UnknownPhases
          THEN [ent[f] EXCEPT !.st = "outcome_unknown"] ELSE ent[f]]
    /\ UNCHANGED <<att, run, mem, cancels, dest, temp, wire, source, budget>>

ParkAwaiting ==
    /\ At("idle")
    /\ job.st = "awaiting_credentials" /\ job.resume = "running"
    /\ job.pause /\ ~job.stop
    /\ job.ns \in {"unclaimed", "owned"} /\ ActiveFiles = {}
    /\ job' = [job EXCEPT !.resume = "paused"]
    /\ UNCHANGED <<ent, att, run, mem, cancels, dest, temp, wire, source, budget>>

\* An unfinished write found under a point retry is first marked unknown; a try
\* begins when nothing of the request is under way.
BeginsTry(f) == \/ ent[f].ptries = 0
                \/ ent[f].st \in {"outcome_unknown", "failed"}
                \/ Phase(f) \in UnknownPhases \cup {"failed", "none"}
Noted(f) == IF Phase(f) \in UnknownPhases
            THEN [ent EXCEPT ![f].st = "outcome_unknown"] ELSE ent

BeginPoint(f) ==
    /\ Runnable /\ ~job.pause
    /\ f \in Pointed
    /\ IF BeginsTry(f) /\ ent[f].ptries >= PointLimit
       THEN LET entries == [Finished(f) EXCEPT ![f].st = Noted(f)[f].st]
            IN /\ ent' = entries
               /\ job' = FinishedJob(entries)
               /\ UNCHANGED run
       ELSE /\ ent[f].timer # "future"
            /\ ent' = IF BeginsTry(f)
                      THEN [Noted(f) EXCEPT ![f].ptries = @ + 1, ![f].timer = "none"]
                      ELSE ent
            /\ run' = [Idle EXCEPT !.pc = "pt", !.f = f, !.point = TRUE]
            /\ UNCHANGED job
    /\ UNCHANGED <<att, mem, cancels, dest, temp, wire, source, budget>>

\* The namespace check and the claim of the technical root come before any
\* ordinary entry.
RefuseNamespace ==
    /\ Runnable /\ Pointed = {}
    /\ job.ns \in {"intent", "unknown"}
    /\ job' = [job EXCEPT !.st = "needs_attention"]
    /\ UNCHANGED <<ent, att, run, mem, cancels, dest, temp, wire, source, budget>>

BeginClaim ==
    /\ Runnable /\ Pointed = {}
    /\ job.ns = "unclaimed"
    /\ job' = [job EXCEPT !.ns = "intent"]
    /\ run' = [Idle EXCEPT !.pc = "claim"]
    /\ UNCHANGED <<ent, att, mem, cancels, dest, temp, wire, source, budget>>

\* A refused claim releases the intent, an uncertain one keeps it for good; the
\* error then reaches the job because no entry has been chosen.
EndClaim ==
    /\ At("claim")
    /\ run' = Idle
    /\ \E ns \in {"owned", "unclaimed", "unknown"}, auth \in BOOLEAN :
        /\ OutageBlocks => ns = "unclaimed" /\ ~auth
        /\ auth => ns = "unclaimed"
        /\ job' = [(IF ns = "owned" THEN job
                    ELSE IF auth THEN JobError("awaiting_credentials", "needs_attention")
                    ELSE JobError("needs_attention", job.resume)) EXCEPT !.ns = ns]
        /\ mem' = [mem EXCEPT !.creds = @ /\ ~auth]
    /\ UNCHANGED <<ent, att, cancels, dest, temp, wire, source, budget>>

\* An active entry goes on, a scheduled retry only once its time has come and
\* not at all when automatic retries have been switched off meanwhile.
BeginActive(f) ==
    /\ Runnable /\ Pointed = {} /\ job.ns = "owned"
    /\ f \in ActiveFiles
    /\ IF ~job.retry /\ Phase(f) = "download_retry_wait"
       THEN run' = [Idle EXCEPT !.pc = "f1", !.f = f, !.err = "srcDl"]
       ELSE /\ ent[f].timer # "future"
            /\ run' = [Idle EXCEPT !.pc = "file", !.f = f]
    /\ UNCHANGED <<job, ent, att, mem, cancels, dest, temp, wire, source, budget>>

BeginPlannedAnyTime(f) ==
    /\ Runnable /\ Pointed = {} /\ job.ns = "owned" /\ ~job.pause
    /\ ent[f].st = "planned" /\ ent[f].timer # "future"
    /\ run' = [Idle EXCEPT !.pc = "file", !.f = f]
    /\ UNCHANGED <<job, ent, att, mem, cancels, dest, temp, wire, source, budget>>
BeginPlanned(f) ==
    /\ Runnable /\ Pointed = {} /\ job.ns = "owned" /\ ~job.pause
    /\ ActiveFiles = {}
    /\ ent[f].st = "planned" /\ ent[f].timer # "future"
    /\ run' = [Idle EXCEPT !.pc = "file", !.f = f]
    /\ UNCHANGED <<job, ent, att, mem, cancels, dest, temp, wire, source, budget>>

CompleteJob ==
    /\ Runnable /\ Pointed = {} /\ job.ns = "owned" /\ ~job.pause
    /\ \A f \in Files : ent[f].st \notin Active \cup {"planned"}
    /\ job' = [job EXCEPT !.st =
          IF job.retry /\ \E f \in Files : ent[f].st = "outcome_unknown"
          THEN "needs_attention"
          ELSE IF \A f \in Files : ent[f].st \in Success
          THEN "completed" ELSE "completed_with_issues"]
    /\ UNCHANGED <<ent, att, run, mem, cancels, dest, temp, wire, source, budget>>

Schedule ==
    \/ ParkPaused \/ ParkAwaiting \/ RefuseNamespace \/ BeginClaim \/ EndClaim \/ CompleteJob
    \/ \E f \in Files : BeginPoint(f) \/ BeginActive(f) \/ BeginPlanned(f)
----------------------------------------------------------------------------
(* MigrationRunner._file: from the plan's entry to a verified copy. *)

\* _checkpoint and _logged raise _StopRequested at these points.
Guarded == {"claim", "file", "src0", "dest0", "new", "predest", "src1", "stage", "dl",
            "src2", "geturl", "poll", "dfinal", "verify", "mkmove", "move", "final",
            "pt", "ptconfirm", "ptnew", "bulk"}

Interrupt ==
    /\ run.pc \in Guarded
    /\ job.stop
    /\ run' = Idle
    /\ UNCHANGED <<store, mem, cancels, remote, budget>>

Proceeds(pc) == At(pc) /\ ~job.stop

SourceErrors == {"srcDl", "srcAuth"}

\* A request that only reads fails without any other effect.
ReadFails(errors) ==
    /\ \E e \in errors : Fail(e)
    /\ UNCHANGED <<store, mem, cancels, remote, budget>>

OpenFile ==
    /\ Proceeds("file")
    /\ \/ /\ Phase(F) = "download_retry_wait"
          /\ ent' = [ent EXCEPT ![F].timer = "none"]
          /\ SetPhase(F, "prepared")
          /\ Go(After("prepared")) /\ UNCHANGED job
       \/ /\ \/ Phase(F) = "none" /\ Go("src0")
             \/ Phase(F) \in UnknownPhases /\ Fail("unknown")
             \/ /\ Phase(F) = "failed"
                \* Crash between the failure of the attempt and of the entry;
                \* the code is persisted, its flags are not.
                /\ run' = [run EXCEPT !.pc = "f1",
                           !.err = IF Row(F).err = "none" THEN "fatal"
                                   ELSE IF Interrupted(Row(F).err) THEN "dest"
                                   ELSE Row(F).err]
             \/ Phase(F) \in AbandonedPhases /\ Return
             \/ Phase(F) \in Underway /\ Go(After(Phase(F)))
          /\ UNCHANGED store
    /\ UNCHANGED <<mem, cancels, remote, budget>>

\* _current without an attempt, then the destination before the first attempt.
CheckNewSource ==
    /\ Proceeds("src0")
    /\ \/ /\ IF SourceMatches(F) THEN Go("dest0") /\ UNCHANGED ent
             ELSE SetEntry(F, "source_changed") /\ run' = Idle
          /\ UNCHANGED <<job, att, mem, cancels, remote, budget>>
       \/ ReadFails(SourceErrors)

CheckNewDestination ==
    /\ Proceeds("dest0")
    /\ \/ /\ \/ Matching(dest[F]) /\ SetEntry(F, "already_verified") /\ run' = Idle
             \/ dest[F] = "none" /\ Go("new") /\ UNCHANGED ent
             \/ ~Matching(dest[F]) /\ dest[F] # "none" /\ Fail("conflict") /\ UNCHANGED ent
          /\ UNCHANGED <<job, att, mem, cancels, remote, budget>>
       \/ ReadFails(DestinationErrors)

\* new_attempt re-reads the stop request in its own transaction.
NewAttempt ==
    /\ Proceeds("new")
    /\ ent[F].at < MaxAttempts
    /\ att' = [att EXCEPT ![F][ent[F].at + 1] = [NoAttempt EXCEPT !.ph = "prepared"]]
    /\ ent' = [ent EXCEPT ![F].at = @ + 1]
    /\ Go("newEnt")
    /\ UNCHANGED <<job, mem, cancels, remote, budget>>

MarkTransferring ==
    /\ At("newEnt")
    /\ SetEntry(F, "transferring")
    /\ Go(After("prepared"))
    /\ UNCHANGED <<job, att, mem, cancels, remote, budget>>

\* A direct upload looks at the final name first: it may be there already.
CheckDestination ==
    /\ Proceeds("predest")
    /\ \/ /\ IF Matching(dest[F]) THEN SetPhase(F, "verifying_final") /\ Go("final")
             ELSE /\ IF dest[F] = "none" \/ PointOverwrite(F) THEN Go("src1") ELSE Fail("conflict")
                  /\ UNCHANGED att
          /\ UNCHANGED <<job, ent, mem, cancels, remote, budget>>
       \/ ReadFails(DestinationErrors)

\* The source no longer matches: the entry says so, the attempt has failed.
SourceChanged ==
    /\ SetEntry(F, "source_changed")
    /\ att' = [att EXCEPT ![F][ent[F].at].ph = "failed", ![F][ent[F].at].err = "fatal"]
    /\ Return

CheckSource(pc, next) ==
    /\ Proceeds(pc)
    /\ \/ /\ IF SourceMatches(F) THEN Go(next) /\ UNCHANGED <<ent, att>> ELSE SourceChanged
          /\ UNCHANGED <<job, mem, cancels, remote, budget>>
       \/ ReadFails(SourceErrors)

\* With the parent directory, whose creation the outage map may refuse.
CheckSourceAndParent ==
    \/ ~OutageBlocks /\ CheckSource("src1", "stage")
    \/ Proceeds("src1") /\ ReadFails(DestinationErrors)

\* _stage: reuse a complete copy, or begin one of the counted downloads.
Stage ==
    /\ Proceeds("stage")
    /\ \/ /\ Row(F).copy = "full"
          /\ SetPhase(F, "staged") /\ Go("src2") /\ UNCHANGED ent
       \/ /\ Row(F).copy # "full"
          /\ LET purged == Phase(F) = "staged" /\ ~Row(F).op /\ Row(F).copy = "gone"
                 used == IF purged THEN 0 ELSE ent[F].dls
                 dropped == IF Row(F).copy = "none" THEN "none" ELSE "gone"
             IN \/ /\ used < DownloadLimit
                   /\ ent' = [ent EXCEPT ![F].dls = used + 1, ![F].timer = "none",
                                         ![F].st = "downloading"]
                   /\ att' = [att EXCEPT ![F][ent[F].at].ph = "downloading",
                                         ![F][ent[F].at].copy = "part"]
                   /\ Go("dl")
                \/ \* The budget is used up, or the cache has no room.
                   /\ ent' = [ent EXCEPT ![F].dls = used]
                   /\ att' = [att EXCEPT ![F][ent[F].at].copy = dropped]
                   /\ \/ used >= DownloadLimit
                         /\ run' = [run EXCEPT !.pc = "dlfail", !.err = "srcDl"]
                      \/ run' = [run EXCEPT !.pc = "dlfail", !.err = "fatal"]
    /\ UNCHANGED <<job, mem, cancels, remote, budget>>

\* The chunks: complete and synced, or broken off.
Download ==
    /\ At("dl")
    /\ \/ /\ source[F] = "same"
          /\ att' = [att EXCEPT ![F][ent[F].at].copy = "full"]
          /\ Go("staged")
       \/ /\ \E e \in {"srcDl", "srcAuth", "fatal"} :
                run' = [run EXCEPT !.pc = "dlfail", !.err = e]
          /\ UNCHANGED att
    /\ UNCHANGED <<job, ent, mem, cancels, remote, budget>>

MarkStaged ==
    /\ At("staged")
    /\ SetPhase(F, "staged") /\ SetEntry(F, "staged")
    /\ Go("src2")
    /\ UNCHANGED <<job, mem, cancels, remote, budget>>

\* _download_failure: only a source error outside a point retry is rescheduled,
\* in one transaction that re-reads the retry switch and the stop request.
DownloadFailed ==
    /\ At("dlfail")
    /\ IF run.err = "srcDl" /\ ~ent[F].point
       THEN IF job.stop THEN run' = Idle /\ UNCHANGED <<ent, att>>
            ELSE IF ent[F].dls < DownloadLimit /\ job.retry
            THEN /\ ent' = [ent EXCEPT ![F].st = "downloading", ![F].timer = "future"]
                 /\ att' = [att EXCEPT ![F][ent[F].at].ph = "download_retry_wait",
                                       ![F][ent[F].at].copy = "none",
                                       ![F][ent[F].at].err = "srcDl"]
                 /\ run' = Idle
            ELSE /\ att' = [att EXCEPT ![F][ent[F].at].copy = "none"]
                 /\ Go("err") /\ UNCHANGED ent
       ELSE /\ ent' = IF run.err = "srcAuth" /\ ~ent[F].point /\ ent[F].dls > 0
                      THEN [ent EXCEPT ![F].dls = @ - 1] ELSE ent
            /\ Go("err") /\ UNCHANGED att
    /\ UNCHANGED <<job, mem, cancels, remote, budget>>

Prepare ==
    \/ Interrupt \/ OpenFile \/ CheckNewSource \/ CheckNewDestination \/ NewAttempt
    \/ MarkTransferring \/ CheckDestination \/ CheckSourceAndParent \/ Stage \/ Download
    \/ MarkStaged \/ DownloadFailed \/ CheckSource("src2", "geturl")
----------------------------------------------------------------------------
(* Upload, polling, move and the final verification. *)

\* _logged records a refused submission on the attempt at once.
UploadRefused(e) ==
    /\ att' = [att EXCEPT ![F][ent[F].at].ph = "failed", ![F][ent[F].at].err = e]
    /\ Fail(e)

\* GET of the upload URL, which names the overwrite mode and perhaps the
\* operation; no write has been sent yet.
GetUploadUrl ==
    /\ Proceeds("geturl")
    /\ LET ow == PointOverwrite(F)
       IN \/ /\ ~OutageBlocks
             /\ \/ dest[F] = "none" \/ ow \/ ~Direct
             /\ \E op \in BOOLEAN :
                  run' = [run EXCEPT !.pc = "intent", !.ow = ow, !.op = op]
             /\ UNCHANGED att
          \/ /\ ~OutageBlocks /\ Direct /\ dest[F] # "none" /\ ~ow
             /\ UploadRefused("conflict")
          \/ UploadRefused("dest")
          \/ ~OutageBlocks /\ Fail("destAuth") /\ UNCHANGED att
    /\ UNCHANGED <<job, ent, mem, cancels, remote, budget>>

\* before_upload: the intent is durable before the first byte is sent, and the
\* stop request is read once more after it.
PersistIntent ==
    /\ At("intent")
    /\ att' = [att EXCEPT ![F][ent[F].at].ph = "transfer_intent",
                          ![F][ent[F].at].op = run.op]
    /\ IF job.stop THEN run' = Idle ELSE Go("put")
    /\ UNCHANGED <<job, ent, mem, cancels, remote, budget>>

\* What can become of a write request: carried out, accepted as an operation,
\* or cut off with its effect complete, partial, still to come or none.
Completed(a, to) ==
    /\ Applicable(F, a, to, run.ow)
    /\ Apply(F, a, to, "ours")
    /\ wire' = [wire EXCEPT ![F][a] = NoRequest]
Accepted(a, to) ==
    /\ wire' = [wire EXCEPT ![F][a] = [st |-> "op", to |-> to, ow |-> run.ow]]
    /\ NoEffect
CutOff(a, to) ==
    \/ Completed(a, to)
    \/ /\ Applicable(F, a, to, run.ow) /\ to # "move"
       /\ Apply(F, a, to, "partial")
       /\ wire' = [wire EXCEPT ![F][a] = NoRequest]
    \/ /\ wire' = [wire EXCEPT ![F][a] = [st |-> "late", to |-> to, ow |-> run.ow]]
       /\ NoEffect
    \/ wire' = [wire EXCEPT ![F][a] = NoRequest] /\ NoEffect

Put ==
    /\ At("put")
    /\ LET a == ent[F].at
           to == IF Direct THEN "final" ELSE "temp"
       IN \/ /\ Completed(a, to)
             /\ run' = [run EXCEPT !.pc = "sent", !.op = FALSE]
             /\ UNCHANGED att
          \/ /\ Accepted(a, to)
             /\ IF run.op THEN Go("sent") ELSE Fail("unknown")
             /\ UNCHANGED att
          \/ CutOff(a, to) /\ Fail("destUnc") /\ UNCHANGED att
          \/ /\ ~Applicable(F, a, to, run.ow)
             /\ UploadRefused("conflict") /\ UNCHANGED <<dest, temp, wire>>
          \/ UploadRefused("dest") /\ UNCHANGED <<dest, temp, wire>>
          \/ Fail("destAuth") /\ UNCHANGED <<att, dest, temp, wire>>
    /\ UNCHANGED <<job, ent, mem, cancels, source, budget>>

RecordUpload ==
    /\ At("sent")
    /\ LET p == IF run.op THEN "waiting_transfer" ELSE "verifying"
       IN /\ att' = [att EXCEPT ![F][ent[F].at].ph = p, ![F][ent[F].at].op = run.op]
          /\ SetEntry(F, IF run.op THEN "waiting_operation" ELSE "verifying")
          /\ Go(After(p))
    /\ UNCHANGED <<job, mem, cancels, remote, budget>>

\* The destination is probed before the operation is asked about.
Poll ==
    /\ Proceeds("poll")
    /\ \/ /\ mem' = [mem EXCEPT !.outage = FALSE]
          /\ IF wire[F][ent[F].at].st = "op" THEN Return ELSE Go("polled")
          /\ UNCHANGED <<store, cancels, remote, budget>>
       \/ ReadFails(DestinationErrors)

\* The answer is used after another look at the stop request.  An operation
\* the server does not know any more answers with an error.
Polled ==
    /\ At("polled")
    /\ LET a == ent[F].at
           p == IF Phase(F) = "waiting_transfer" THEN "verifying" ELSE "verifying_final"
       IN IF wire[F][a].st = "opdone"
          THEN /\ att' = [att EXCEPT ![F][a].ph = p, ![F][a].op = @ /\ job.stop]
               /\ Go(After(p))
          ELSE /\ UNCHANGED att
               /\ IF job.stop
                  THEN run' = [run EXCEPT !.pc = "f1", !.err = "rejected", !.point = FALSE]
                  ELSE Fail("rejected")
    /\ UNCHANGED <<job, ent, mem, cancels, remote, budget>>

EnterFinal ==
    /\ Proceeds("dfinal")
    /\ SetPhase(F, "verifying_final")
    /\ Go("final")
    /\ UNCHANGED <<job, ent, mem, cancels, remote, budget>>

\* A copy that is absent has no hash to compare.
Unverifiable ==
    /\ SetEntry(F, "verification_unavailable")
    /\ att' = [att EXCEPT ![F][ent[F].at].ph = "failed", ![F][ent[F].at].err = "fatal"]
    /\ Return

\* _verify of a stored copy, and _current of the source once more.
Verify(pc, content, next) ==
    /\ Proceeds(pc)
    /\ \/ /\ \/ content = "none" /\ Unverifiable
             \/ /\ Matching(content)
                /\ IF SourceMatches(F) THEN Go(next) /\ UNCHANGED <<ent, att>> ELSE SourceChanged
             \/ /\ content # "none" /\ ~Matching(content)
                /\ Fail("fatal") /\ UNCHANGED <<ent, att>>
          /\ UNCHANGED <<job, mem, cancels, remote, budget>>
       \/ ReadFails(DestinationErrors \cup SourceErrors)

\* Only a job with a technical root moves: the intent is durable first.
PersistMove ==
    /\ Proceeds("mkmove")
    /\ \/ /\ ~OutageBlocks
          /\ SetPhase(F, "move_intent") /\ SetEntry(F, "committing")
          /\ run' = [run EXCEPT !.pc = "move", !.ow = FALSE]
          /\ UNCHANGED <<job, mem, cancels, remote, budget>>
       \/ ReadFails(DestinationErrors)

Move ==
    /\ Proceeds("move")
    /\ LET a == ent[F].at
       IN \/ /\ ~OutageBlocks
             /\ \/ Completed(a, "move") /\ run' = [run EXCEPT !.pc = "moved", !.op = FALSE]
                \/ Accepted(a, "move") /\ run' = [run EXCEPT !.pc = "moved", !.op = TRUE]
                \/ Accepted(a, "move") /\ Fail("unknown")
                \/ CutOff(a, "move") /\ Fail("destUnc")
                \/ /\ ~Applicable(F, a, "move", FALSE) /\ Fail("conflict")
                   /\ UNCHANGED <<dest, temp, wire>>
          \/ \E e \in DestinationErrors : Fail(e) /\ UNCHANGED <<dest, temp, wire>>
    /\ UNCHANGED <<store, mem, cancels, source, budget>>

RecordMove ==
    /\ At("moved")
    /\ att' = [att EXCEPT ![F][ent[F].at].ph = IF run.op THEN "waiting_move"
                                               ELSE "verifying_final",
                          ![F][ent[F].at].op = run.op]
    /\ IF run.op THEN (IF job.stop THEN run' = Idle ELSE Return) ELSE Go("final")
    /\ UNCHANGED <<job, ent, mem, cancels, remote, budget>>

Succeed ==
    /\ At("succ")
    /\ att' = [att EXCEPT ![F][ent[F].at].ph = "succeeded", ![F][ent[F].at].err = "none"]
    /\ Go("doneW")
    /\ UNCHANGED <<job, ent, mem, cancels, remote, budget>>

FinishEntry ==
    /\ At("doneW")
    /\ ent' = [ent EXCEPT ![F].st = "done", ![F].timer = "none"]
    /\ att' = Cleaned(att, ent')
    /\ Return
    /\ UNCHANGED <<job, mem, cancels, remote, budget>>

Deliver ==
    \/ GetUploadUrl \/ PersistIntent \/ Put \/ RecordUpload \/ Poll \/ Polled \/ EnterFinal
    \/ Verify("verify", temp[F][ent[F].at], "mkmove") \/ PersistMove \/ Move \/ RecordMove
    \/ Verify("final", dest[F], "succ") \/ Succeed \/ FinishEntry
----------------------------------------------------------------------------
(* The point retry of one file, and what becomes of a failed step. *)

\* retry_old: nothing of the named attempt is still under way.
RetryOld == \/ Phase(F) \in UnknownPhases \cup AbandonedPhases \cup {"failed", "none"}

\* The destination decides first: our copy may be there already.
PointFile ==
    /\ Proceeds("pt")
    /\ \/ /\ ~RetryOld /\ Go("file")
          /\ UNCHANGED <<store, mem, cancels, remote, budget>>
       \/ /\ RetryOld
          /\ mem' = [mem EXCEPT !.outage = FALSE]
          /\ \/ /\ Matching(dest[F])
                /\ IF ent[F].at > 0 THEN Go("ptconfirm") /\ UNCHANGED ent
                   ELSE SetEntry(F, "already_verified") /\ Go("ptdone")
             \/ /\ ~Matching(dest[F])
                /\ IF dest[F] # "none" /\ ~PointOverwrite(F) THEN Fail("conflict")
                   ELSE IF Row(F).copy \in {"part", "gone"} /\ Row(F).err # "srcDl"
                   THEN Fail("fatal") ELSE Go("ptnew")
                /\ UNCHANGED ent
          /\ UNCHANGED <<job, att, cancels, remote, budget>>
       \/ RetryOld /\ ReadFails(DestinationErrors)

\* The retry switch has withdrawn the request meanwhile: attempt_not_retryable.
Withdrawn == /\ Fail(IF Phase(F) \in UnknownPhases THEN "unknown" ELSE "fatal")
             /\ UNCHANGED <<ent, att>>
AbandonedAs(p) == IF p \in MovePhases THEN "abandoned_move" ELSE "abandoned_transfer"

ConfirmPointCopy ==
    /\ Proceeds("ptconfirm")
    /\ IF ent[F].point /\ Phase(F) \in PointRetryPhases
       THEN /\ SetEntry(F, "already_verified")
            /\ att' = Cleaned([att EXCEPT ![F][ent[F].at].ph =
                          IF Direct THEN "succeeded" ELSE AbandonedAs(@)], ent')
            /\ Go("ptdone")
       ELSE Withdrawn
    /\ UNCHANGED <<job, mem, cancels, remote, budget>>

\* new_attempt(point_retry): the old row is closed and gives a complete copy on.
NewPointAttempt ==
    /\ Proceeds("ptnew")
    /\ LET a == ent[F].at
           reuse == Row(F).copy = "full"
           row == [NoAttempt EXCEPT !.ph = IF reuse THEN "staged" ELSE "prepared",
                                    !.copy = IF reuse THEN "full" ELSE "none"]
           old == [Row(F) EXCEPT !.ph = IF @ = "failed" THEN @ ELSE AbandonedAs(@),
                                 !.err = "none", !.copy = IF reuse THEN "none" ELSE @]
       IN IF ent[F].point /\ (a = 0 => ent[F].st = "failed")
             /\ (a > 0 => Phase(F) \in PointRetryPhases)
          THEN /\ a < MaxAttempts
               /\ att' = [att EXCEPT ![F] = [b \in Attempts |->
                     CASE b = a + 1 -> row [] b = a -> old [] OTHER -> @[b]]]
               /\ ent' = [ent EXCEPT ![F].at = a + 1, ![F].st = "transferring",
                                     ![F].dls = 0, ![F].timer = "none"]
               /\ Go("file")
          ELSE Withdrawn
    /\ UNCHANGED <<job, mem, cancels, remote, budget>>

\* _finish_point_retry at the end of a step that raised nothing.
KeepFinishedPoint ==
    /\ At("ptdone")
    /\ run' = Idle
    /\ IF job.stop \/ ~ent[F].point \/ ent[F].st \in EntryStates \ {"failed", "conflict"}
       THEN UNCHANGED <<job, ent>>
       ELSE ent' = Finished(F) /\ job' = FinishedJob(ent')
    /\ UNCHANGED <<att, mem, cancels, remote, budget>>
FinishPointStep ==
    /\ At("ptdone")
    /\ run' = Idle
    /\ IF job.stop \/ ~ent[F].point \/ ent[F].st \in Active \cup {"outcome_unknown"}
       THEN UNCHANGED <<job, ent>>
       ELSE ent' = Finished(F) /\ job' = FinishedJob(ent')
    /\ UNCHANGED <<att, mem, cancels, remote, budget>>

PointSteps == PointFile \/ ConfirmPointCopy \/ NewPointAttempt \/ FinishPointStep

\* The except clauses of step.  Refused credentials concern the job, unless
\* automatic retries are off and the answer denies this file only.
HandleError ==
    /\ At("err")
    /\ \/ /\ run.err # "srcAuth"
          /\ Go("f1") /\ UNCHANGED <<job, mem>>
       \/ /\ run.err = "srcAuth"
          /\ mem' = [mem EXCEPT !.creds = FALSE]
          /\ job' = JobError("awaiting_credentials", "running")
          /\ run' = Idle
       \/ /\ Auth(run.err) /\ ~job.retry
          /\ run' = [run EXCEPT !.pc = "f1",
                                !.err = IF @ = "srcAuth" THEN "fatal" ELSE "dest"]
          /\ UNCHANGED <<job, mem>>
    /\ UNCHANGED <<ent, att, cancels, remote, budget>>

\* _failure and _point_failure write the attempt, then the entry, then the job,
\* each in a transaction of its own.
FailedPhaseForgetful(e, p) ==
    IF Uncertain(e) /\ ~Interrupted(e)
    THEN (IF p \in MovePhases THEN "unknown_move" ELSE "unknown_transfer") ELSE "failed"
FailedPhase(e, p) ==
    CASE Interrupted(e) /\ p \in SideEffectPhases \cup AbandonedPhases -> AbandonedAs(p)
      [] Interrupted(e) /\ p \notin SideEffectPhases \cup AbandonedPhases -> "failed"
      [] ~Interrupted(e) /\ Uncertain(e) ->
           IF p \in MovePhases THEN "unknown_move" ELSE "unknown_transfer"
      [] ~Interrupted(e) /\ ~Uncertain(e) ->
           IF run.point /\ p \in MovePhases \cup SideEffectPhases \cup AbandonedPhases
           THEN AbandonedAs(p) ELSE "failed"

FailAttempt ==
    /\ At("f1")
    /\ mem' = [mem EXCEPT !.outage = @ \/ (Interrupted(run.err) /\ job.retry)]
    /\ att' = IF ent[F].at = 0 THEN att
              ELSE [att EXCEPT ![F][ent[F].at].ph = FailedPhase(run.err, @),
                               ![F][ent[F].at].err = run.err]
    /\ Go("f2")
    /\ UNCHANGED <<job, ent, cancels, remote, budget>>

FailEntry ==
    /\ At("f2")
    /\ ent' = [ent EXCEPT ![F].timer = "none", ![F].st =
          CASE run.err = "conflict" -> "conflict"
            [] run.err = "unknown" -> "outcome_unknown"
            [] OTHER -> "failed"]
    /\ Go("f3")
    /\ UNCHANGED <<job, att, mem, cancels, remote, budget>>

RetriesPoint(e) ==
    /\ run.point /\ ~job.stop /\ ent[F].at > 0
    /\ PointRetryable(e) /\ ent[F].ptries < PointLimit

FailJob ==
    /\ At("f3")
    /\ run' = Idle
    /\ LET finishes == run.point /\ ent[F].point /\ ~job.stop /\ ~RetriesPoint(run.err)
           alert == job.retry /\ (\/ Interrupted(run.err)
                                  \/ Uncertain(run.err) /\ ~run.point)
           entries == IF finishes THEN Finished(F)
                      ELSE IF RetriesPoint(run.err) THEN [ent EXCEPT ![F].timer = "future"]
                      ELSE ent
       IN /\ ent' = entries
          /\ job' = IF Auth(run.err) THEN JobError("awaiting_credentials", "needs_attention")
                    ELSE IF alert THEN JobError("needs_attention", job.resume)
                    ELSE IF finishes THEN FinishedJob(entries) ELSE job
    /\ mem' = [mem EXCEPT !.creds = @ /\ ~Auth(run.err)]
    /\ UNCHANGED <<att, cancels, remote, budget>>

Failure == HandleError \/ FailAttempt \/ FailEntry \/ FailJob
----------------------------------------------------------------------------
(* Requests that do not take the job guard. *)

Spend == budget.user > 0 /\ budget' = [budget EXCEPT !.user = @ - 1]

PauseJob ==
    /\ Spend
    /\ job.st = "running" /\ ~job.stop /\ ~job.pause
    /\ job' = [job EXCEPT !.pause = TRUE]
    /\ UNCHANGED <<ent, att, run, mem, cancels, remote>>

FullStop ==
    /\ Spend
    /\ ~job.stop /\ job.st # "completed"
    /\ job' = [job EXCEPT !.stop = TRUE]
    /\ ent' = [f \in Files |-> [ent[f] EXCEPT !.point = FALSE, !.timer = "none"]]
    /\ UNCHANGED <<att, run, mem, cancels, remote>>

\* set_retry_enabled: scheduled retries are cancelled in the transaction that
\* moves the switch, waiting point retries one by one after it.
Scheduled(f) == ent[f].at > 0 /\ (ent[f].timer # "none" \/ Phase(f) = "download_retry_wait")
Withdraws(f) == Scheduled(f) /\ ~ent[f].point /\ Phase(f) = "download_retry_wait"

EnableRetry ==
    /\ Spend
    /\ ~job.retry /\ cancels = {}
    /\ job' = [job EXCEPT !.retry = TRUE]
    /\ UNCHANGED <<ent, att, run, mem, cancels, remote>>

DisableRetry ==
    /\ Spend
    /\ job.retry /\ cancels = {}
    /\ job' = [job EXCEPT !.retry = FALSE]
    /\ cancels' = {f \in Pointed : Scheduled(f)}
    /\ ent' = [f \in Files |-> [ent[f] EXCEPT !.timer = "none",
                                              !.st = IF Withdraws(f) THEN "failed" ELSE @]]
    /\ att' = [f \in Files |-> [a \in Attempts |->
          IF a = ent[f].at /\ Withdraws(f) THEN [att[f][a] EXCEPT !.ph = "failed"]
          ELSE att[f][a]]]
    /\ UNCHANGED <<run, mem, remote>>

CancelPoint(f) ==
    /\ f \in cancels
    /\ cancels' = cancels \ {f}
    /\ IF ent[f].point THEN ent' = Finished(f) /\ job' = FinishedJob(ent')
       ELSE UNCHANGED <<job, ent>>
    /\ UNCHANGED <<att, run, mem, remote, budget>>

\* The worker stops a job as soon as it can take the guard; the local entries
\* are cancelled in a second transaction under it.
StopJob ==
    /\ At("idle") /\ job.stop /\ job.st # "stopped"
    /\ job' = [job EXCEPT !.st = "stopped", !.resume = "none", !.pause = FALSE]
    /\ run' = [Idle EXCEPT !.pc = "cancel"]
    /\ UNCHANGED <<ent, att, mem, cancels, remote, budget>>

CancelledActive == [f \in Files |->
    IF ent[f].st \in Active \cup {"planned"}
    THEN [ent[f] EXCEPT !.st = "cancelled", !.point = FALSE, !.timer = "none"] ELSE ent[f]]
Cancelled == [f \in Files |->
    IF ent[f].st \in Active \cup {"planned", "outcome_unknown"}
    THEN [ent[f] EXCEPT !.st = "cancelled", !.point = FALSE, !.timer = "none"] ELSE ent[f]]

CancelLocal ==
    /\ At("cancel")
    /\ ent' = Cancelled
    /\ run' = Idle
    /\ UNCHANGED <<job, att, mem, cancels, remote, budget>>

----------------------------------------------------------------------------
(* Requests under the job guard: they find it free or are refused. *)

Request == At("idle") /\ Spend /\ ~job.stop /\ job.st # "stopped"
WaitsFor == IF job.st = "awaiting_credentials" THEN job.resume ELSE job.st

Started == [job EXCEPT !.st = "running", !.resume = "none", !.pause = FALSE]

\* The preflight of a point retry also clears the outage.
Credentials ==
    /\ Request
    /\ job.st \in {"awaiting_credentials", "paused", "needs_attention",
                   "completed_with_issues"}
    /\ \E outage \in {mem.outage, FALSE} : mem' = [creds |-> TRUE, outage |-> outage]
    /\ UNCHANGED <<store, run, cancels, remote>>

\* Seeded defect: credentials are not asked for.
ResumeBlind ==
    /\ Request
    /\ job.st \in {"paused", "awaiting_credentials", "needs_attention"}
    /\ job.ns \notin {"intent", "unknown"}
    /\ job' = Started
    /\ UNCHANGED <<ent, att, run, mem, cancels, remote>>

Resume ==
    /\ Request /\ mem.creds
    /\ job.st \in {"paused", "awaiting_credentials", "needs_attention"}
    /\ \/ Pointed # {}
       \/ \E f \in Files : ent[f].st \in Active \cup {"planned"}
       \/ \A f \in Files : ent[f].st # "outcome_unknown"
    /\ job.ns \notin {"intent", "unknown"}
    /\ job' = Started
    /\ UNCHANGED <<ent, att, run, mem, cancels, remote>>

\* runner.retry: a new cycle for every failed file, unless some upload may
\* still be under way.  Its handler and those of the point retry and of the retry
\* switch run on one event loop and await nothing between their transactions, so
\* neither retry comes between two transactions of the switch.
BulkRetry ==
    /\ Request /\ mem.creds /\ cancels = {}
    /\ WaitsFor \in {"completed_with_issues", "needs_attention", "paused"}
    /\ Pointed = {}
    /\ \A f \in Files : ent[f].st \notin Active \cup {"outcome_unknown"}
    /\ \A f \in Files : ent[f].st = "failed" => /\ Phase(f) \notin AbandonedPhases
                                                /\ ent[f].at < MaxAttempts
    /\ mem' = [mem EXCEPT !.outage = FALSE]
    /\ run' = [Idle EXCEPT !.pc = "bulk", !.todo = {f \in Files : ent[f].st = "failed"}]
    /\ UNCHANGED <<store, cancels, remote>>

\* The new attempt takes over a complete cached copy.  In a shared destination
\* it is refused after anything but a failed attempt: the retry breaks off.
BulkAttempt(f) ==
    /\ Proceeds("bulk") /\ f \in run.todo
    /\ IF Direct /\ Phase(f) \notin {"none", "failed"}
       THEN run' = Idle /\ UNCHANGED <<ent, att>>
       ELSE LET a == ent[f].at
                full == Row(f).copy = "full"
                row == [NoAttempt EXCEPT !.ph = IF full THEN "staged" ELSE "prepared",
                                         !.copy = IF full THEN "full" ELSE "none"]
                old == [Row(f) EXCEPT !.err = "none", !.copy = IF full THEN "none" ELSE @]
            IN /\ att' = [att EXCEPT ![f] = [b \in Attempts |->
                     CASE b = a + 1 -> row [] b = a -> old [] OTHER -> @[b]]]
               /\ ent' = [ent EXCEPT ![f].at = a + 1]
               /\ run' = [run EXCEPT !.pc = "bulkEnt", !.f = f]
    /\ UNCHANGED <<job, mem, cancels, remote, budget>>

BulkEntry ==
    /\ At("bulkEnt")
    /\ ent' = [ent EXCEPT ![F].st = "planned", ![F].dls = 0, ![F].timer = "none"]
    /\ run' = [run EXCEPT !.pc = "bulk", !.f = NoFile, !.todo = @ \ {F}]
    /\ UNCHANGED <<job, att, mem, cancels, remote, budget>>

BulkStart ==
    /\ Proceeds("bulk") /\ run.todo = {}
    /\ job' = Started
    /\ run' = Idle
    /\ UNCHANGED <<ent, att, mem, cancels, remote, budget>>

\* queue_point_retry.  The last conjunct is the bound on attempts.
PointRetry(f) ==
    /\ Request /\ mem.creds /\ cancels = {}
    /\ WaitsFor \in {"needs_attention", "paused", "completed_with_issues"}
    /\ job.ns = "owned"
    /\ \/ ent[f].at = 0 /\ ent[f].st = "failed"
       \/ ent[f].at > 0 /\ ent[f].st \in {"failed", "outcome_unknown"}
                        /\ Phase(f) \in PointRetryPhases
    /\ Pointed = {} /\ ActiveFiles = {}
    /\ ent[f].at + MaxPointTries + budget.crash <= MaxAttempts
    /\ ent' = [ent EXCEPT ![f].point = TRUE, ![f].ptries = 0, ![f].timer = "none"]
    /\ job' = [Started EXCEPT !.origin = <<f, ent[f].at>>]
    /\ UNCHANGED <<att, run, mem, cancels, remote>>

\* cleanup_cache, refused while a job runs.  A death of the process after the
\* copies are gone leaves their names in the rows.
ConfirmedAnyPhase(f) == Row(f).copy = "full" /\ ~Row(f).op
Confirmed(f) == /\ Row(f).copy = "full" /\ ~Row(f).op
                /\ Phase(f) \in {"prepared", "downloading", "download_retry_wait"}
                /\ ent[f].st \in {"planned", "transferring", "downloading", "staged"}
Emptied(copy) ==
    [f \in Files |-> [a \in Attempts |->
        [att[f][a] EXCEPT !.copy = IF @ = "none" THEN @ ELSE copy,
                          !.ph = IF a = ent[f].at /\ Confirmed(f) THEN "staged" ELSE @]]]

ClearCache ==
    /\ Spend
    /\ run.pc \in {"idle", "bulk", "bulkEnt"} /\ job.st # "running"
    /\ att' = Emptied("none")
    /\ ent' = [f \in Files |->
          IF /\ Row(f).copy # "none" /\ ~Row(f).op
             /\ Phase(f) = "staged" \/ Confirmed(f)
             /\ ent[f].st \in {"planned", "transferring", "downloading", "staged"}
          THEN [ent[f] EXCEPT !.dls = 0] ELSE ent[f]]
    /\ UNCHANGED <<job, run, mem, cancels, remote>>

Bulk == BulkEntry \/ BulkStart \/ \E f \in Files : BulkAttempt(f)

User ==
    \/ PauseJob \/ FullStop \/ EnableRetry \/ DisableRetry \/ Credentials \/ Resume
    \/ BulkRetry \/ ClearCache \/ \E f \in Files : PointRetry(f)

----------------------------------------------------------------------------
(* The death of the process, and time. *)

\* The new process recovers every row of the store before it serves anything:
\* recover, cancel_local_entries, cleanup.
Recovered ==
    IF ~job.stop /\ job.st \in {"running", "paused", "needs_attention"}
    THEN [job EXCEPT !.st = "awaiting_credentials", !.resume = job.st] ELSE job

CrashRestart ==
    /\ budget.crash > 0
    /\ budget' = [budget EXCEPT !.crash = @ - 1]
    /\ run' = Idle
    /\ mem' = [creds |-> FALSE, outage |-> FALSE]
    /\ cancels' = {}
    /\ job' = Recovered
    /\ ent' = IF job.st = "stopped" /\ job.stop THEN Cancelled ELSE ent
    /\ \E rows \in {att, IF At("idle") /\ job.st # "running" THEN Emptied("gone") ELSE att} :
            att' = Cleaned(rows, ent')
    /\ UNCHANGED remote

TimerFires(f) ==
    /\ ent[f].timer = "future"
    /\ ent' = [ent EXCEPT ![f].timer = "due"]
    /\ UNCHANGED <<job, att, run, mem, cancels, remote, budget>>

\* Nothing is left to do until the user asks for something.
AwaitUser ==
    /\ At("idle") /\ job.st # "running" /\ (job.stop => job.st = "stopped")
    /\ UNCHANGED vars

Runner == \/ Schedule \/ Prepare \/ Deliver \/ PointSteps \/ Failure \/ Bulk
          \/ StopJob \/ CancelLocal

Next ==
    \/ Runner \/ User \/ Environment \/ CrashRestart \/ AwaitUser
    \/ \E f \in Files : CancelPoint(f) \/ TimerFires(f)

Spec == Init /\ [][Next]_vars

\* The worker's thread keeps stepping, an accepted operation ends, timers fire
\* and set_retry_enabled finishes.  Users, crashes and faults owe nothing.
Fairness ==
    /\ WF_vars(Runner)
    /\ \A f \in Files : /\ WF_vars(TimerFires(f)) /\ WF_vars(CancelPoint(f))
                        /\ \A a \in Attempts : WF_vars(EndOperation(f, a))

FairSpec == Spec /\ Fairness
----------------------------------------------------------------------------
(* Properties. *)

\* Every variable stays in its domain.
TypeOK ==
    /\ job \in JobRows
    /\ ent \in [Files -> EntryRows]
    /\ att \in [Files -> [Attempts -> AttemptRows]]
    /\ run \in RunStates
    /\ mem \in [creds : BOOLEAN, outage : BOOLEAN]
    /\ cancels \subseteq Files
    /\ dest \in [Files -> Contents]
    /\ temp \in [Files -> [Attempts -> Contents]]
    /\ wire \in [Files -> [Attempts -> WireRows]]
    /\ source \in [Files -> {"same", "changed"}]
    /\ budget \in [user : Nat, edits : Nat, crash : Nat]

\* A file reported as done or as already matching is at its place with the
\* plan's size and MD5, whatever late requests, point retries and crashes did
\* before (runner._file, confirm_point_copy).
Verified == \A f \in Files : ent[f].st \in Success => dest[f] = "ours"

\* A write the server may still carry out is never forgotten: its attempt keeps
\* a phase that says so, which is what every later decision reads (new_attempt,
\* runner.retry, _point_overwrite, final_pending), or it is a write to the final
\* name and the plan's file is there already.
Pending(f, a) == wire[f][a].st \in {"late", "op"}
InFlightRemembered ==
    \A f \in Files, a \in Attempts : Pending(f, a) =>
        \/ att[f][a].ph \in UnknownPhases \cup Waiting \cup AbandonedPhases
        \/ Direct /\ dest[f] = "ours"

\* A job that waits to be stepped has credentials to work with, although
\* finish_point_retry may decide its state without the guard.
CredentialsHeld == At("idle") /\ job.st = "running" /\ ~job.stop => mem.creds

\* Once a full stop is confirmed nothing local is left to do, and the worker
\* has forgotten no entry, a crash between the two transactions included.
StoppedIsQuiet ==
    job.st = "stopped" /\ At("idle") =>
        \A f \in Files : /\ ent[f].st \notin Active \cup {"planned", "outcome_unknown"}
                         /\ ~ent[f].point /\ ent[f].timer = "none"

\* An attempt sends its upload at most once: nothing ever takes an attempt whose
\* request may have left back to a phase from which it would be sent again.
AttemptSendsOnce ==
    [][\A f \in Files, a \in Attempts :
        att[f][a].ph \notin Local \cup {"none", "download_retry_wait"} =>
            att'[f][a].ph \notin Local \cup {"none", "download_retry_wait"}]_vars

\* No ordinary transfer replaces what somebody else has put under the name: only
\* a file with an interrupted upload of its own can lose a foreign one.
ForeignKeptByOrdinary ==
    [][\A f \in Files : dest[f] = "foreign" /\ dest'[f] # "foreign" =>
        \E a \in Attempts : a < ent[f].at /\ att[f][a].ph \in AbandonedPhases]_vars

\* A complete cached copy is given up only when the destination has been
\* verified, or when the user clears the cache.
HasCopy(f) == \E a \in Attempts : att[f][a].copy = "full"
CacheKept ==
    [][\A f \in Files : HasCopy(f) /\ ~HasCopy(f)' =>
        \/ ent'[f].st \in Success
        \/ budget'.user # budget.user \/ budget'.crash # budget.crash]_vars

\* What a crash between FailAttempt and FailEntry leaves: an entry under way whose
\* attempt has been abandoned, for which _file has no branch.  After a bulk retry with
\* a complete copy it is still "planned".
Stranded == \E f \in Files : /\ ent[f].st \in Active \cup {"planned"} /\ ~ent[f].point
                             /\ Phase(f) \in AbandonedPhases

\* A running job comes to rest: every retry is bounded and every wait ends, with
\* the one exception above.
RunEnds == job.st = "running" ~> (job.st # "running" \/ Stranded)

\* docs/ONPREM.md:246: after an interruption the user is offered the retry of the
\* file; a job that goes on running without an end never offers it.
RunAlwaysEnds == job.st = "running" ~> job.st # "running"

\* A full stop is always confirmed, whatever step it finds the runner in.
StopEnds == job.stop ~> job.st = "stopped" /\ At("idle")

\* docs/ONPREM.md:311: what the check of a point retry finds to be somebody
\* else's file stays (runner._point_file, _point_overwrite).
ForeignNeverReplaced ==
    \A f \in Files : [](At("pt") /\ F = f /\ dest[f] = "foreign" => [](dest[f] = "foreign"))
----------------------------------------------------------------------------
(* The abstract job of FileDelivery. *)

\* What the job knows of a file.  A file with an open point retry, or in a step
\* that began as one, is at work whatever its entry says already.
AtWork == ActiveFiles \cup Pointed \cup {f \in Files : run.point /\ f = F}
Progress(f) ==
    IF f \in AtWork THEN "working"
    ELSE IF ent[f].st \in Success THEN "delivered"
    ELSE IF ent[f].st = "planned" THEN "waiting" ELSE "settled"

\* While a step or a bulk retry is under way nothing is decided.
Verdict ==
    CASE At("idle") /\ job.st = "completed" -> "completed"
      [] At("idle") /\ job.st = "completed_with_issues" -> "ended"
      [] At("idle") /\ job.st = "stopped" -> "stopped"
      [] OTHER -> "open"

Delivery == INSTANCE FileDelivery WITH
    held <- {f \in Files : dest[f] = "ours"},
    progress <- [f \in Files |-> Progress(f)],
    verdict <- Verdict

\* The runner, the store and the requests implement the abstract job: one file
\* at work at a time, delivered means held by the destination, and a job is
\* completed, over or stopped only when its files allow it, whatever steps,
\* requests, late answers and crashes come between (step, finish_point_retry).
DeliverySpec == Delivery!Spec
=============================================================================
