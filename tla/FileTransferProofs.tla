------------------------- MODULE FileTransferProofs -------------------------
(***************************************************************************)
(* The inductive invariant IInv of FileTransfer, for any files, limits and *)
(* scenarios, and the proofs that the steps of the runner keep it.  What   *)
(* follows from it is in FileTransferTheorems.                             *)
(***************************************************************************)
EXTENDS FileTransfer, TLAPS

----------------------------------------------------------------------------
(* The inductive invariant: what the rows of a file say of each other. *)

\* The phases in which nothing has been sent, and those that tell of a write.
EarlyPhases == Local \cup {"none", "download_retry_wait"}
Remembered == UnknownPhases \cup Waiting \cup AbandonedPhases
Resting == {"none", "succeeded", "failed", "unknown_transfer", "unknown_move"} \cup AbandonedPhases
Answered == {"op", "opdone", "opfailed"}
Late == {"late", "op"}

\* A row past the last attempt was never written, an attempt under way has begun,
\* and in a shared folder the earlier attempts of a file are all given up.
RowsInOrder(f) ==
    /\ \A a \in Attempts : a > ent[f].at =>
         att[f][a].ph = "none" /\ att[f][a].copy = "none" /\ wire[f][a].st = "none"
    /\ ent[f].at > 0 => att[f][ent[f].at].ph # "none"
    /\ Direct => \A a \in Attempts : a < ent[f].at => att[f][a].ph \in {"failed"} \cup AbandonedPhases

\* The phase of an attempt and its request at the server.
RequestsKnown(f) ==
    \A a \in Attempts :
        /\ att[f][a].ph \in EarlyPhases => wire[f][a].st = "none"
        /\ att[f][a].ph \in Waiting => wire[f][a].st \in Answered
        /\ wire[f][a].st \in Late =>
             att[f][a].ph \in Remembered \/ (Direct /\ dest[f] = "ours")
        /\ wire[f][a].st \in Late /\ wire[f][a].to = "final" /\ wire[f][a].ow =>
             \E b \in Attempts : b < a /\ att[f][b].ph \in AbandonedPhases

\* The entry, its current attempt and its point retry.
EntryAgrees(f) ==
    /\ ent[f].st \in Success => /\ dest[f] = "ours"
                                /\ Phase(f) \in Resting
    /\ ent[f].point => Phase(f) # "download_retry_wait"
    /\ ent[f].point /\ ent[f].timer # "none" =>
         ent[f].st = "failed" /\ ent[f].ptries >= 1 /\ ent[f].at > 0

FileInv(f) == RowsInOrder(f) /\ RequestsKnown(f) /\ EntryAgrees(f)

(* Where the holder of the guard stands. *)

JobPCs == {"idle", "claim", "cancel", "bulk"}
PointPCs == {"pt", "ptconfirm", "ptnew", "ptdone"}
BulkPCs == {"bulk", "bulkEnt"}
StagePCs == {"predest", "src1", "stage", "dl", "staged", "dlfail", "src2", "geturl", "intent"}
UploadPCs == (StagePCs \ {"predest"}) \cup {"put"}
Busy == ActiveFiles \cup Pointed

\* Whose step it is, and that no other file is under way.
Holder ==
    /\ run.pc = "idle" => run = Idle
    /\ run.pc \in JobPCs => run.f = NoFile /\ ~run.point
    /\ run.pc \notin JobPCs => F \in Files /\ Busy \subseteq {F}
    /\ run.pc = "bulkEnt" => ~run.point
    /\ run.pc \in PointPCs => run.point
    /\ run.point /\ ~job.stop => ent[F].point /\ ent[F].ptries >= 1
    /\ run.pc \notin JobPCs /\ ~run.point => ent[F].st \notin Success
    /\ \A f, g \in Busy : f = g

\* The phase of the attempt at each point of the pipeline.
PhaseAtStep ==
    /\ run.pc \in {"src0", "dest0", "new"} => ent[F].at = 0 /\ ~run.point
    /\ run.pc = "file" /\ run.point => Phase(F) # "none"
    /\ run.pc = "newEnt" => Phase(F) = "prepared"
    /\ run.pc \in StagePCs => Phase(F) \in Local
    /\ run.pc \in {"put", "sent"} => Phase(F) = "transfer_intent"
    /\ run.pc \in {"poll", "polled"} => Phase(F) \in Waiting
    /\ run.pc = "dfinal" => Phase(F) = "verifying"
    /\ run.pc \in {"verify", "mkmove"} => Phase(F) = "verifying" /\ ~Direct
    /\ run.pc \in {"move", "moved"} => Phase(F) = "move_intent" /\ ~Direct
    /\ run.pc \in {"final", "succ"} => Phase(F) \in {"verifying_final", "succeeded"}
    /\ run.pc = "doneW" => Phase(F) = "succeeded"
    /\ run.pc \in {"ptconfirm", "ptnew"} => Phase(F) \in PointRetryPhases \cup {"none"}
    /\ run.pc = "ptconfirm" => ent[F].at > 0
    /\ run.pc \in {"succ", "doneW", "ptconfirm"} => dest[F] = "ours"
    /\ run.pc \in {"dl", "dlfail"} => Row(F).copy # "full"
    /\ run.pc = "f3" /\ PointRetryable(run.err) => ent[F].st = "failed"

\* The request of the attempt at each point of the pipeline.
RequestAtStep ==
    /\ run.pc \in {"put", "move"} => wire[F][ent[F].at].st \notin Late
    /\ run.pc \in {"sent", "moved"} => wire[F][ent[F].at].st \in
                                         (IF run.op THEN Answered ELSE {"none"})
    /\ run.pc = "polled" => wire[F][ent[F].at].st \in {"opdone", "opfailed"}
    /\ run.pc \in {"err", "f1"} /\ Phase(F) \in Remembered /\ ~run.point
         => \/ Interrupted(run.err) \/ Uncertain(run.err)
            \/ wire[F][ent[F].at].st \notin Late
    /\ run.pc \in UploadPCs /\ Direct =>
         \A a \in Attempts : wire[F][a].st \in Late => att[F][a].ph \in Remembered
    /\ run.pc \in {"intent", "put"} /\ run.ow =>
         \E b \in Attempts : b < ent[F].at /\ att[F][b].ph \in AbandonedPhases

(* The job's row and the volatile state. *)

JobInv ==
    /\ run.pc \notin {"idle", "cancel"} \cup BulkPCs => job.st = "running"
    /\ run.pc = "cancel" => job.st = "stopped"
    /\ job.st = "stopped" => job.stop /\ run.pc \in {"idle", "cancel"}
    /\ job.stop => \A f \in Files : ~ent[f].point /\ ent[f].timer = "none"
    /\ job.st = "stopped" /\ run.pc = "idle" =>
         \A f \in Files : ent[f].st \notin Active \cup {"planned", "outcome_unknown"}
    /\ job.st \in {"completed", "completed_with_issues"} => Busy = {}
    /\ job.st = "completed" => \A f \in Files : ent[f].st \in Success
    /\ ~mem.creds /\ ~job.stop =>
         job.st \in {"awaiting_credentials", "completed", "completed_with_issues"}

BulkInv ==
    run.pc \in BulkPCs =>
        /\ mem.creds /\ Busy = {} /\ cancels = {}
        /\ job.st \in {"completed_with_issues", "needs_attention", "paused",
                       "awaiting_credentials"}
        /\ \A f \in run.todo : /\ ent[f].st = "failed"
                               /\ f # F => ent[f].at < MaxAttempts
        /\ run.pc = "bulkEnt" => F \in run.todo

\* A scheduled or withdrawn point retry is not being stepped.
PointInv ==
    \A f \in Files :
        /\ ent[f].point /\ ent[f].timer # "none" => run.pc = "idle"
        /\ f \in cancels /\ ent[f].point =>
             /\ run.pc = "idle" /\ ~job.retry
             /\ ent[f].st = "failed" /\ ent[f].ptries >= 1 /\ ent[f].at > 0

IInv == /\ TypeOK /\ \A f \in Files : FileInv(f)
        /\ Holder /\ PhaseAtStep /\ RequestAtStep /\ JobInv /\ BulkInv /\ PointInv
----------------------------------------------------------------------------
(* The vocabulary. *)

AttRows == [Files -> [Attempts -> AttemptRows]]
EntRows == [Files -> EntryRows]

LEMMA PhaseWritten ==
    ASSUME att \in AttRows, NEW f \in Files, NEW a \in Attempts, NEW p \in Phases,
           att' = [att EXCEPT ![f][a].ph = p]
    PROVE  /\ att' \in AttRows
           /\ att'[f][a] = [att[f][a] EXCEPT !.ph = p]
           /\ \A g \in Files, b \in Attempts : g # f \/ b # a => att'[g][b] = att[g][b]
<1> DEFINE r == [att[f][a] EXCEPT !.ph = p]
<1>1. att[f][a] \in AttemptRows
  BY DEF AttRows
<1>2. r \in AttemptRows
  BY <1>1 DEF AttemptRows
<1>3. att' = [att EXCEPT ![f][a] = r]
  BY DEF AttRows
<1> HIDE DEF r
<1>4. /\ att' \in AttRows
      /\ att'[f][a] = r
      /\ \A g \in Files, b \in Attempts : g # f \/ b # a => att'[g][b] = att[g][b]
  BY <1>2, <1>3 DEF AttRows
<1> QED BY <1>4 DEF r

LEMMA RowFields ==
    ASSUME TypeOK, NEW f \in Files
    PROVE  /\ ent[f] \in EntryRows /\ ent[f].at \in 0..MaxAttempts
           /\ ent[f].at # 0 => ent[f].at \in Attempts /\ Row(f) = att[f][ent[f].at]
           /\ ent[f].at = 0 => Row(f) = NoAttempt
           /\ Row(f) \in AttemptRows /\ Phase(f) \in Phases
  BY TransferAssumption DEF TypeOK, EntryRows, AttemptRows, Attempts, Row, Phase, NoAttempt, Phases,
     Copies

----------------------------------------------------------------------------
(* A step of the runner that leaves the requests alone. *)

\* Of all phases only that of the attempt of f changes, to p.
OnlyPhase(f, p) ==
    \A g \in Files, b \in Attempts :
        /\ att'[g][b].ph = IF g = f /\ b = ent[f].at THEN p ELSE att[g][b].ph
        /\ att[g][b].copy = "none" /\ b > ent[g].at => att'[g][b].copy = "none"

\* The attempt of f takes the phase p and the entry the state s.
Stays(f, p, s) ==
    /\ job' = job /\ cancels' = cancels /\ dest' = dest /\ wire' = wire
    /\ mem'.creds = mem.creds
    /\ \A g \in Files : g # f => ent'[g] = ent[g]
    /\ ent'[f].at = ent[f].at /\ ent'[f].point = ent[f].point /\ ent'[f].st = s
    /\ ent'[f].ptries = ent[f].ptries
    /\ ent'[f].timer \in {"none", ent[f].timer} \/ (~ent[f].point /\ ~job.stop)
    /\ OnlyPhase(f, p)

\* What the new phase and state owe to the request and the destination.
Fits(f, p, s) ==
    /\ s \in Success => dest[f] = "ours"
    /\ ent[f].at = 0 => p = "none"
    /\ ent[f].at > 0 =>
         /\ p # "none"
         /\ p \in EarlyPhases => wire[f][ent[f].at].st = "none"
         /\ p \in Waiting => wire[f][ent[f].at].st \in Answered
         /\ wire[f][ent[f].at].st \in Late => p \in Remembered \/ (Direct /\ dest[f] = "ours")
         /\ s \in Success => p \in Resting
         /\ ent[f].point => p # "download_retry_wait"

StepPCs == PCs \ (JobPCs \cup BulkPCs)

LEMMA FileKept ==
    ASSUME NEW f \in Files, FileInv(f), job'.direct = job.direct,
           ent'[f] = ent[f], wire'[f] = wire[f], dest'[f] = dest[f],
           \A a \in Attempts : /\ att'[f][a].ph = att[f][a].ph
                               /\ a > ent[f].at => att'[f][a].copy = att[f][a].copy,
           ent[f].at \in 0..MaxAttempts
    PROVE  FileInv(f)'
<1>1. Phase(f)' = Phase(f)
  BY TransferAssumption DEF Phase, Row, Attempts, NoAttempt
<1>2. RowsInOrder(f)'
  BY TransferAssumption DEF FileInv, RowsInOrder, Attempts, Direct
<1>3. RequestsKnown(f)'
  BY DEF FileInv, RequestsKnown, Direct
<1>4. EntryAgrees(f)'
  BY <1>1 DEF FileInv, EntryAgrees
<1> QED BY <1>2, <1>3, <1>4 DEF FileInv

LEMMA StepKeeps ==
    ASSUME IInv, run.pc \in StepPCs, NEW f \in Files, F = f,
           NEW STATE p, NEW STATE s, Stays(f, p, s), Fits(f, p, s)
    PROVE  /\ \A g \in Files : FileInv(g)'
           /\ Busy' \subseteq {f} /\ Phase(f)' = p
           /\ run'.pc \notin {"cancel"} \cup BulkPCs => JobInv' /\ BulkInv' /\ PointInv'
<1> DEFINE a == ent[f].at
<1>1. Busy \subseteq {f}
  BY DEF IInv, Holder, StepPCs
<1>2. a \in 0..MaxAttempts
  BY RowFields DEF IInv
<1>3. ASSUME NEW g \in Files, g # f
      PROVE  FileInv(g)'
  <2>1. \A b \in Attempts : /\ att'[g][b].ph = att[g][b].ph
                            /\ b > ent[g].at => att'[g][b].copy = att[g][b].copy
    BY <1>3 DEF OnlyPhase, Stays, IInv, FileInv, RowsInOrder
  <2> QED BY <1>3, <2>1, FileKept, RowFields DEF OnlyPhase, Stays, IInv
<1>4. Phase(f)' = p
  BY <1>2, TransferAssumption DEF OnlyPhase, Stays, Fits, Phase, Row, Attempts, NoAttempt
<1>5. ~ent[f].point \/ ent[f].timer = "none"
  BY DEF IInv, PointInv, StepPCs, JobPCs
<1>6. FileInv(f)
  BY DEF IInv
<1>7. RowsInOrder(f)'
  BY <1>2, <1>6, TransferAssumption DEF OnlyPhase, Stays, Fits, FileInv, RowsInOrder, Attempts, Direct
<1>8. RequestsKnown(f)'
  <2> SUFFICES ASSUME NEW b \in Attempts
               PROVE /\ att'[f][b].ph \in EarlyPhases => wire[f][b].st = "none"
                     /\ att'[f][b].ph \in Waiting => wire[f][b].st \in Answered
                     /\ wire[f][b].st \in Late =>
                          att'[f][b].ph \in Remembered \/ (Direct /\ dest[f] = "ours")
                     /\ wire[f][b].st \in Late /\ wire[f][b].to = "final" /\ wire[f][b].ow =>
                          \E c \in Attempts : c < b /\ att'[f][c].ph \in AbandonedPhases
    BY DEF OnlyPhase, Stays, RequestsKnown, Direct
  <2>1. wire[f][b].st \in Late => b <= a
    BY <1>6, <1>2 DEF FileInv, RowsInOrder, Late, Attempts
  <2>2. \A c \in Attempts : c < b /\ b <= a => att'[f][c].ph = att[f][c].ph
    BY <1>2 DEF OnlyPhase, Stays, Attempts
  <2>3. b # a => att'[f][b].ph = att[f][b].ph
    BY DEF OnlyPhase, Stays
  <2>4. b = a => a > 0 /\ att'[f][b].ph = p
    BY DEF OnlyPhase, Stays, Attempts
  <2>5. CASE b = a
    BY <2>1, <2>2, <2>4, <2>5, <1>6 DEF FileInv, RequestsKnown, Fits
  <2>6. CASE b # a
    BY <2>1, <2>2, <2>3, <2>6, <1>6 DEF FileInv, RequestsKnown
  <2> QED BY <2>5, <2>6
<1>9. EntryAgrees(f)'
  BY <1>4, <1>5, <1>2 DEF OnlyPhase, Stays, Fits, EntryAgrees, Resting
<1>10. Busy' \subseteq {f}
  BY <1>1 DEF OnlyPhase, Stays, Busy, ActiveFiles, Pointed
<1>11. ASSUME run'.pc \notin {"cancel"} \cup BulkPCs
       PROVE  JobInv' /\ BulkInv' /\ PointInv'
  <2>1. job.st = "running"
    BY DEF IInv, JobInv, StepPCs, JobPCs
  <2>2. \A g \in Files : /\ ent'[g].point = ent[g].point
                         /\ \/ ent'[g].timer \in {"none", ent[g].timer}
                            \/ ~ent[g].point /\ ~job.stop
    BY DEF OnlyPhase, Stays
  <2>3. JobInv'
    BY <1>11, <2>1, <2>2 DEF IInv, JobInv, Stays, BulkPCs
  <2>4. BulkInv'
    BY <1>11 DEF BulkInv, BulkPCs
  <2>5. run.pc # "idle"
    BY DEF StepPCs, JobPCs
  <2>6. PointInv'
    BY <2>2, <2>5 DEF IInv, PointInv, Stays
  <2> QED BY <2>3, <2>4, <2>6
<1>12. \A g \in Files : FileInv(g)'
  BY <1>3, <1>7, <1>8, <1>9 DEF FileInv
<1> QED BY <1>4, <1>10, <1>11, <1>12

\* A step that gives the guard back, and one that goes on with its file.
LEMMA StepReturns ==
    ASSUME IInv, TypeOK', run.pc \in StepPCs, NEW f \in Files, F = f,
           NEW STATE p, NEW STATE s, Stays(f, p, s), Fits(f, p, s), run' = Idle
    PROVE  IInv'
<1>1. /\ \A g \in Files : FileInv(g)'
      /\ Busy' \subseteq {f}
      /\ run'.pc \notin {"cancel"} \cup BulkPCs => JobInv' /\ BulkInv' /\ PointInv'
  BY StepKeeps
<1>2. run'.pc = "idle" /\ run'.f = NoFile /\ ~run'.point
  BY DEF Idle
<1>3. JobInv' /\ BulkInv' /\ PointInv'
  BY <1>1, <1>2 DEF BulkPCs
<1>4. Holder'
  BY <1>1, <1>2 DEF Holder, JobPCs, PointPCs
<1>5. PhaseAtStep' /\ RequestAtStep'
  BY <1>2 DEF PhaseAtStep, RequestAtStep, StagePCs, UploadPCs
<1> QED BY <1>1, <1>3, <1>4, <1>5 DEF IInv

LEMMA StepContinues ==
    ASSUME IInv, TypeOK', run.pc \in StepPCs, NEW f \in Files, F = f,
           NEW STATE p, NEW STATE s, Stays(f, p, s), Fits(f, p, s),
           run'.pc \in StepPCs, run'.f = f, run'.point => run.point,
           run'.pc \in PointPCs => run'.point, s \in Success => run'.point,
           Phase(f)' = p => PhaseAtStep' /\ RequestAtStep'
    PROVE  IInv'
<1>1. /\ \A g \in Files : FileInv(g)'
      /\ Busy' \subseteq {f} /\ Phase(f)' = p
      /\ run'.pc \notin {"cancel"} \cup BulkPCs => JobInv' /\ BulkInv' /\ PointInv'
  BY StepKeeps
<1>2. JobInv' /\ BulkInv' /\ PointInv'
  BY <1>1 DEF StepPCs, JobPCs
<1>3. run.point /\ ~job.stop => ent[f].point /\ ent[f].ptries >= 1
  BY DEF IInv, Holder
<1>4. Holder'
  BY <1>1, <1>3 DEF F, Holder, JobPCs, PointPCs, BulkPCs, StepPCs, Stays
<1> QED BY <1>1, <1>2, <1>4 DEF IInv

LEMMA StepFails ==
    ASSUME IInv, TypeOK', run.pc \in StepPCs, NEW f \in Files, F = f,
           NEW STATE p, NEW STATE s, Stays(f, p, s), Fits(f, p, s),
           run'.pc \in {"err", "f1"}, run'.f = f, run'.point => run.point,
           s \in Success => run'.point,
           p \in Remembered /\ ~run'.point =>
               \/ Interrupted(run'.err) \/ Uncertain(run'.err)
               \/ wire[f][ent[f].at].st \notin Late
    PROVE  IInv'
<1>1. run'.pc \in StepPCs /\ run'.pc \notin PointPCs
  BY DEF StepPCs, PCs, JobPCs, BulkPCs, PointPCs
<1>2. ASSUME Phase(f)' = p
      PROVE  PhaseAtStep' /\ RequestAtStep'
  <2>1. PhaseAtStep'
    BY <1>2 DEF F, PhaseAtStep, StagePCs
  <2>2. RequestAtStep'
    BY <1>2 DEF F, RequestAtStep, UploadPCs, StagePCs, Stays, Interrupted, Uncertain
  <2> QED BY <2>1, <2>2
<1> QED BY <1>1, <1>2, StepContinues

LEMMA StepIsOver ==
    ASSUME IInv, TypeOK', run.pc \in StepPCs, NEW f \in Files, F = f,
           NEW STATE p, NEW STATE s, Stays(f, p, s), Fits(f, p, s), Return
    PROVE  IInv'
<1>1. CASE run.point
  <2>1. run' = [run EXCEPT !.pc = "ptdone"] /\ run \in RunStates
    BY <1>1 DEF Return, Go, IInv, TypeOK
  <2>2. run'.pc = "ptdone" /\ run'.f = f /\ run'.point = run.point
    BY <2>1 DEF F, RunStates
  <2>3. run'.pc \in StepPCs
    BY <2>2 DEF StepPCs, PCs, JobPCs, BulkPCs
  <2>4. PhaseAtStep' /\ RequestAtStep'
    BY <2>2 DEF PhaseAtStep, RequestAtStep, UploadPCs, StagePCs
  <2> QED BY <1>1, <2>2, <2>3, <2>4, StepContinues
<1>2. CASE ~run.point
  BY <1>2, StepReturns DEF Return
<1> QED BY <1>1, <1>2

LEMMA Still ==
    ASSUME IInv, NEW f \in Files, mem'.creds = mem.creds,
           UNCHANGED <<job, ent, att, cancels, dest, wire>>
    PROVE  Stays(f, Phase(f), ent[f].st) /\ Fits(f, Phase(f), ent[f].st)
<1>1. FileInv(f)
  BY DEF IInv
<1>2. /\ ent[f].at \in 0..MaxAttempts
      /\ ent[f].at # 0 => ent[f].at \in Attempts /\ Row(f) = att[f][ent[f].at]
      /\ ent[f].at = 0 => Row(f) = NoAttempt
  BY RowFields DEF IInv
<1>3. Stays(f, Phase(f), ent[f].st)
  BY <1>2 DEF OnlyPhase, Stays, Phase, Attempts
<1>4. Fits(f, Phase(f), ent[f].st)
  <2>1. CASE ent[f].at = 0
    BY <1>1, <1>2, <2>1 DEF Fits, FileInv, EntryAgrees, Phase, NoAttempt
  <2>2. CASE ent[f].at # 0
    <3>1. ent[f].at > 0 /\ ent[f].at \in Attempts /\ Phase(f) = att[f][ent[f].at].ph
      BY <1>2, <2>2 DEF Phase
    <3> QED BY <1>1, <3>1, <2>2 DEF Fits, FileInv, RowsInOrder, RequestsKnown, EntryAgrees
  <2> QED BY <2>1, <2>2
<1> QED BY <1>3, <1>4
----------------------------------------------------------------------------
(* What is common to the steps: types, moves, failures of reading requests. *)

Mems == [creds : BOOLEAN, outage : BOOLEAN]

LEMMA TypeStep ==
    ASSUME IInv, ent' \in EntRows, att' \in AttRows, run' \in RunStates, mem' \in Mems,
           UNCHANGED <<job, cancels, remote, budget>>
    PROVE  TypeOK'
  BY DEF IInv, TypeOK, EntRows, AttRows, Mems, remote

LEMMA StoreTypes ==
    ASSUME IInv
    PROVE  /\ ent \in EntRows /\ att \in AttRows /\ run \in RunStates /\ mem \in Mems
           /\ job \in JobRows
  BY DEF IInv, TypeOK, EntRows, AttRows, Mems

LEMMA RunGoes ==
    ASSUME run \in RunStates, NEW q \in PCs, Go(q)
    PROVE  /\ run' \in RunStates /\ run'.pc = q /\ run'.f = run.f /\ run'.point = run.point
           /\ run'.err = run.err /\ run'.ow = run.ow /\ run'.op = run.op
  BY DEF Go, RunStates

LEMMA RunFails ==
    ASSUME run \in RunStates, NEW e \in Errors, Fail(e)
    PROVE  /\ run' \in RunStates /\ run'.pc = "err" /\ run'.f = run.f /\ run'.point = run.point
           /\ run'.err = e
  BY DEF Fail, RunStates, PCs

LEMMA IdleState == Idle \in RunStates
  BY DEF Idle, RunStates, PCs

LEMMA RunReturns ==
    ASSUME run \in RunStates, Return
    PROVE  run' \in RunStates
  BY IdleState DEF Return, Go, RunStates, PCs

LEMMA StepFile ==
    ASSUME IInv, run.pc \in StepPCs
    PROVE  F \in Files /\ (~run.point => ent[F].st \notin Success)
  BY DEF IInv, Holder, StepPCs

LEMMA ReadFailsKeeps ==
    ASSUME IInv, run.pc \in StepPCs, NEW errors \in SUBSET (Errors \ {"unknown"}),
           ReadFails(errors),
           Phase(F) \in Remembered /\ ~run.point => errors \subseteq DestinationErrors
    PROVE  IInv'
<1> PICK f \in Files : F = f
  BY StepFile
<1>1. PICK e \in errors : Fail(e)
  BY DEF ReadFails
<1>2. /\ run' \in RunStates /\ run'.pc = "err" /\ run'.f = f /\ run'.point = run.point
      /\ run'.err = e
  BY <1>1, RunFails, StoreTypes DEF F
<1>3. UNCHANGED <<job, ent, att, mem, cancels, remote, budget>>
  BY DEF ReadFails, store
<1>4. TypeOK'
  BY <1>2, <1>3, StoreTypes, TypeStep
<1>5. Stays(f, Phase(f), ent[f].st) /\ Fits(f, Phase(f), ent[f].st)
  BY <1>3, Still DEF remote
<1>6. Phase(f) \in Remembered /\ ~run.point => Interrupted(e)
  BY DEF DestinationErrors, Interrupted
<1> QED BY <1>1, <1>2, <1>4, <1>5, <1>6, StepFails, StepFile

LEMMA StillReturns ==
    ASSUME IInv, run.pc \in StepPCs, Return \/ run' = Idle, mem' \in Mems,
           mem'.creds = mem.creds, UNCHANGED <<job, ent, att, cancels, remote, budget>>
    PROVE  IInv'
<1> PICK f \in Files : F = f
  BY StepFile
<1>1. run' \in RunStates
  BY RunReturns, StoreTypes, IdleState
<1>2. TypeOK'
  BY <1>1, StoreTypes, TypeStep
<1>3. Stays(f, Phase(f), ent[f].st) /\ Fits(f, Phase(f), ent[f].st)
  BY Still DEF remote
<1> QED BY <1>2, <1>3, StepIsOver, StepReturns

LEMMA StillGoes ==
    ASSUME IInv, run.pc \in StepPCs, NEW q \in StepPCs, Go(q), mem' \in Mems,
           mem'.creds = mem.creds, UNCHANGED <<job, ent, att, cancels, remote, budget>>,
           q \in PointPCs => run.point,
           \A f \in Files :
               /\ F = f /\ Phase(f)' = Phase(f) /\ FileInv(f)
               /\ run'.pc = q /\ run'.f = f /\ run'.point = run.point
               /\ run'.ow = run.ow /\ run'.op = run.op
               => PhaseAtStep' /\ RequestAtStep'
    PROVE  IInv'
<1> PICK f \in Files : F = f
  BY StepFile
<1>1. /\ run' \in RunStates /\ run'.pc = q /\ run'.f = f /\ run'.point = run.point
      /\ run'.ow = run.ow /\ run'.op = run.op /\ run'.err = run.err
  BY RunGoes, StoreTypes DEF F, StepPCs
<1>2. TypeOK'
  BY <1>1, StoreTypes, TypeStep
<1>3. Stays(f, Phase(f), ent[f].st) /\ Fits(f, Phase(f), ent[f].st)
  BY Still DEF remote
<1>4. FileInv(f)
  BY DEF IInv
<1>5. Phase(f)' = Phase(f) => PhaseAtStep' /\ RequestAtStep'
  BY <1>1, <1>4
<1> QED BY <1>1, <1>2, <1>3, <1>5, StepContinues, StepFile

LEMMA StillFails ==
    ASSUME IInv, run.pc \in StepPCs, NEW e \in Errors, Fail(e),
           UNCHANGED <<job, ent, att, cancels, remote, budget>>,
           mem' \in Mems, mem'.creds = mem.creds,
           Phase(F) \in Remembered /\ ~run.point => Interrupted(e) \/ Uncertain(e)
    PROVE  IInv'
<1> PICK f \in Files : F = f
  BY StepFile
<1>1. /\ run' \in RunStates /\ run'.pc = "err" /\ run'.f = f /\ run'.point = run.point
      /\ run'.err = e
  BY RunFails, StoreTypes DEF F
<1>2. TypeOK'
  BY <1>1, StoreTypes, TypeStep
<1>3. Stays(f, Phase(f), ent[f].st) /\ Fits(f, Phase(f), ent[f].st)
  BY Still DEF remote
<1> QED BY <1>1, <1>2, <1>3, StepFails, StepFile

\* The entry of f is set to s, and nothing else happens to the store.
LEMMA EntrySet ==
    ASSUME IInv, NEW f \in Files, NEW s \in EntryStates, SetEntry(f, s), mem'.creds = mem.creds,
           UNCHANGED <<job, att, cancels, remote>>
    PROVE  /\ ent' \in EntRows
           /\ Stays(f, Phase(f), s)
           /\ (s \in Success => dest[f] = "ours" /\ Phase(f) \in Resting) => Fits(f, Phase(f), s)
<1>1. ent \in EntRows
  BY StoreTypes
<1>2. /\ ent' \in EntRows
      /\ \A g \in Files : g # f => ent'[g] = ent[g]
      /\ ent'[f].at = ent[f].at /\ ent'[f].point = ent[f].point /\ ent'[f].st = s
      /\ ent'[f].timer = ent[f].timer /\ ent'[f].ptries = ent[f].ptries
  BY <1>1 DEF SetEntry, EntRows, EntryRows
<1>3. ent[f].at # 0 => ent[f].at \in Attempts /\ Phase(f) = att[f][ent[f].at].ph
  BY RowFields DEF IInv, Phase
<1>4. Stays(f, Phase(f), s)
  BY <1>2, <1>3 DEF OnlyPhase, Stays, remote, Attempts
<1>5. FileInv(f) /\ ent[f].at \in 0..MaxAttempts /\ (ent[f].at = 0 => Phase(f) = "none")
  BY RowFields DEF IInv, Phase, NoAttempt
<1>6. (s \in Success => dest[f] = "ours" /\ Phase(f) \in Resting) => Fits(f, Phase(f), s)
  BY <1>3, <1>5 DEF Fits, FileInv, RowsInOrder, RequestsKnown, EntryAgrees
<1> QED BY <1>2, <1>4, <1>6

\* What is known of the current attempt.
LEMMA CurrentRow ==
    ASSUME IInv, NEW f \in Files, ent[f].at > 0
    PROVE  /\ ent[f].at \in Attempts /\ Row(f) = att[f][ent[f].at]
           /\ att[f][ent[f].at] \in AttemptRows /\ Phase(f) = att[f][ent[f].at].ph
           /\ Phase(f) # "none"
<1>1. /\ ent[f].at \in Attempts /\ Row(f) = att[f][ent[f].at] /\ Row(f) \in AttemptRows
  BY RowFields DEF IInv
<1> QED BY <1>1 DEF IInv, FileInv, RowsInOrder, Phase

\* The current attempt of f becomes the row r.
Written(f, a, r) == att' = [att EXCEPT ![f][a] = r]

LEMMA RowSet ==
    ASSUME IInv, NEW f \in Files, NEW a \in Attempts, a = ent[f].at, NEW STATE r, r \in AttemptRows,
           Written(f, a, r)
    PROVE  /\ att' \in AttRows /\ att'[f][a] = r /\ OnlyPhase(f, r.ph)
           /\ \A g \in Files, b \in Attempts : g # f \/ b # a => att'[g][b] = att[g][b]
<1>1. att \in AttRows
  BY StoreTypes
<1>2. /\ att' \in AttRows /\ att'[f][a] = r
      /\ \A g \in Files, b \in Attempts : g # f \/ b # a => att'[g][b] = att[g][b]
  BY <1>1 DEF AttRows, Written
<1> QED BY <1>2 DEF OnlyPhase, Attempts

LEMMA PhaseSet ==
    ASSUME IInv, NEW f \in Files, ent[f].at > 0, NEW p \in Phases, SetPhase(f, p)
    PROVE  /\ att' \in AttRows /\ OnlyPhase(f, p)
           /\ att'[f][ent[f].at] = [att[f][ent[f].at] EXCEPT !.ph = p]
           /\ \A g \in Files, b \in Attempts : g # f \/ b # ent[f].at => att'[g][b] = att[g][b]
<1> PICK a \in Attempts : a = ent[f].at /\ att[f][a] \in AttemptRows
  BY CurrentRow
<1> DEFINE r == [att[f][a] EXCEPT !.ph = p]
<1>1. r \in AttemptRows /\ r.ph = p
  BY DEF AttemptRows
<1>2. Written(f, a, r)
  BY StoreTypes DEF SetPhase, AttRows, Written
<1> HIDE DEF r
<1>3. /\ att' \in AttRows /\ att'[f][a] = r /\ OnlyPhase(f, r.ph)
      /\ \A g \in Files, b \in Attempts : g # f \/ b # a => att'[g][b] = att[g][b]
  BY <1>1, <1>2, RowSet
<1> QED BY <1>1, <1>3 DEF r

LEMMA HasBegun ==
    ASSUME IInv, NEW f \in Files, Phase(f) # "none"
    PROVE  ent[f].at > 0
  BY RowFields DEF IInv, Phase, NoAttempt

----------------------------------------------------------------------------
(* The steps of Prepare. *)

LEMMA InterruptKeeps ==
    ASSUME IInv, Interrupt
    PROVE  IInv'
<1>1. run.pc \in Guarded /\ job.stop /\ run' = Idle
  BY DEF Interrupt
<1>2. UNCHANGED <<job, ent, att, mem, cancels, remote, budget>>
  BY DEF Interrupt, store
<1>3. CASE run.pc \in StepPCs
  BY <1>1, <1>2, <1>3, StillReturns, StoreTypes
<1>4. CASE run.pc \notin StepPCs
  <2>1. run.pc \in {"claim", "bulk"}
    BY <1>1, <1>4 DEF Guarded, StepPCs, JobPCs, BulkPCs, PCs
  <2>2. TypeOK'
    BY <1>1, <1>2, IdleState, StoreTypes, TypeStep
  <2>3. ASSUME NEW f \in Files
        PROVE  FileInv(f)'
    BY <1>2, FileKept, RowFields DEF IInv, remote
  <2>4. run'.pc = "idle" /\ run'.f = NoFile /\ ~run'.point
    BY <1>1 DEF Idle
  <2>5. job.st # "stopped"
    BY <2>1 DEF IInv, JobInv
  <2>6. Holder'
    BY <1>1, <1>2, <2>4 DEF IInv, Holder, JobPCs, PointPCs, Busy, ActiveFiles, Pointed
  <2>7. PhaseAtStep' /\ RequestAtStep'
    BY <2>4 DEF PhaseAtStep, RequestAtStep, StagePCs, UploadPCs
  <2>8. Busy' = Busy
    BY <1>2 DEF Busy, ActiveFiles, Pointed
  <2>9. JobInv'
    BY <1>2, <2>4, <2>5, <2>8 DEF IInv, JobInv
  <2>10. BulkInv' /\ PointInv'
    BY <1>2, <2>4, <2>1 DEF IInv, BulkInv, PointInv, BulkPCs
  <2> QED BY <2>2, <2>3, <2>6, <2>7, <2>9, <2>10 DEF IInv
<1> QED BY <1>3, <1>4

\* Where _file goes on with an attempt.
LEMMA AfterFits ==
    ASSUME IInv, NEW f \in Files, F = f, NEW p \in Underway, Phase(f)' = p,
           run'.pc = After(p), run'.f = f, UNCHANGED <<job, dest, wire>>, ent'[f].at = ent[f].at
    PROVE  PhaseAtStep' /\ RequestAtStep'
<1>1. CASE p \in Local
  <2>1. (Direct /\ run'.pc = "predest") \/ (~Direct /\ run'.pc = "src1")
    BY <1>1 DEF After, Local, Waiting
  <2>2. Direct' = Direct
    BY DEF Direct
  <2> QED BY <1>1, <2>1, <2>2 DEF PhaseAtStep, RequestAtStep, StagePCs, UploadPCs, F
<1>2. CASE p \in Waiting
  <2>1. run'.pc = "poll"
    BY <1>2 DEF After, Waiting, Local
  <2> QED BY <1>2, <2>1 DEF PhaseAtStep, RequestAtStep, StagePCs, UploadPCs, F
<1>3. CASE p = "verifying"
  <2>1. (Direct /\ run'.pc = "dfinal") \/ (~Direct /\ run'.pc = "verify")
    BY <1>3 DEF After, Waiting, Local
  <2>2. Direct' = Direct
    BY DEF Direct
  <2> QED BY <1>3, <2>1, <2>2 DEF PhaseAtStep, RequestAtStep, StagePCs, UploadPCs, F
<1>4. CASE p \in {"verifying_final", "succeeded"}
  <2>1. run'.pc = "final"
    BY <1>4 DEF After, Waiting, Local
  <2> QED BY <1>4, <2>1 DEF PhaseAtStep, RequestAtStep, StagePCs, UploadPCs, F
<1> QED BY <1>1, <1>2, <1>3, <1>4 DEF Underway

LEMMA AfterIsStep ==
    ASSUME NEW p
    PROVE  After(p) \in StepPCs /\ After(p) \notin PointPCs
<1>1. After(p) \in {"predest", "src1", "poll", "dfinal", "verify", "final"}
  BY DEF After
<1> QED BY <1>1 DEF StepPCs, PCs, JobPCs, BulkPCs, PointPCs

LEMMA OpenFileKeeps ==
    ASSUME IInv, OpenFile
    PROVE  IInv'
<1>1. run.pc = "file" /\ run.pc \in StepPCs /\ UNCHANGED <<mem, cancels, remote, budget>>
  BY DEF OpenFile, Proceeds, At, StepPCs, PCs, JobPCs, BulkPCs
<1> PICK f \in Files : F = f /\ (~run.point => ent[f].st \notin Success)
  BY <1>1, StepFile
<1> DEFINE a == ent[f].at
<1>2. /\ a \in 0..MaxAttempts /\ (a # 0 => a \in Attempts /\ Phase(f) = att[f][a].ph)
      /\ (a = 0 => Phase(f) = "none") /\ Row(f) \in AttemptRows
  BY RowFields DEF IInv, Phase, NoAttempt
<1>3. Phase(f) = "none" => a = 0
  BY <1>2 DEF IInv, FileInv, RowsInOrder
<1>4. CASE Phase(f) = "none" /\ Go("src0") /\ UNCHANGED store
  <2>1. "src0" \in StepPCs /\ "src0" \notin PointPCs
    BY DEF StepPCs, PCs, JobPCs, BulkPCs, PointPCs
  <2>3. ~run.point
    BY <1>1, <1>4 DEF IInv, PhaseAtStep
  <2>2. run'.pc = "src0" /\ run'.f = f /\ run'.point = run.point => PhaseAtStep' /\ RequestAtStep'
    BY <1>3, <1>4, <2>3 DEF PhaseAtStep, RequestAtStep, StagePCs, UploadPCs, F, store
  <2> QED BY <1>1, <1>4, <2>1, <2>2, StillGoes, StoreTypes DEF store
<1>5. CASE Phase(f) \in UnknownPhases /\ Fail("unknown") /\ UNCHANGED store
  <2>1. /\ run' \in RunStates /\ run'.pc = "err" /\ run'.f = f /\ run'.point = run.point
        /\ run'.err = "unknown"
    BY <1>5, RunFails, StoreTypes DEF F, Errors
  <2>2. TypeOK'
    BY <1>1, <1>5, <2>1, StoreTypes, TypeStep DEF store
  <2>3. Stays(f, Phase(f), ent[f].st) /\ Fits(f, Phase(f), ent[f].st)
    BY <1>1, <1>5, Still DEF remote, store
  <2> QED BY <1>1, <1>5, <2>1, <2>2, <2>3, StepFails DEF Uncertain
<1>6. CASE /\ Phase(f) = "failed"
           /\ run' = [run EXCEPT !.pc = "f1",
                      !.err = IF Row(f).err = "none" THEN "fatal"
                              ELSE IF Interrupted(Row(f).err) THEN "dest" ELSE Row(f).err]
           /\ UNCHANGED store
  <2>1. run \in RunStates /\ Row(f).err \in Errors \cup {"none"}
    BY <1>2, StoreTypes DEF AttemptRows
  <2>2. /\ run' \in RunStates /\ run'.pc = "f1" /\ run'.f = f /\ run'.point = run.point
    BY <1>6, <2>1 DEF F, RunStates, PCs, Errors
  <2>3. TypeOK'
    BY <1>1, <1>6, <2>2, StoreTypes, TypeStep DEF store
  <2>4. Stays(f, "failed", ent[f].st) /\ Fits(f, "failed", ent[f].st)
    BY <1>1, <1>6, Still DEF remote, store
  <2>5. "failed" \notin Remembered
    BY DEF Remembered, UnknownPhases, Waiting, AbandonedPhases
  <2> QED BY <1>1, <2>2, <2>3, <2>4, <2>5, StepFails
<1>7. CASE Phase(f) \in AbandonedPhases /\ Return /\ UNCHANGED store
  BY <1>1, <1>7, StillReturns, StoreTypes DEF store
<1>8. CASE Phase(f) \in Underway /\ Go(After(Phase(f))) /\ UNCHANGED store
  <2>1. Phase(f)' = Phase(f) /\ run'.pc = After(Phase(f)) /\ run'.f = f
           => PhaseAtStep' /\ RequestAtStep'
    BY <1>1, <1>8, AfterFits DEF store, remote
  <2> QED BY <1>1, <1>8, <2>1, AfterIsStep, StillGoes, StoreTypes DEF store
<1>9. CASE /\ Phase(f) = "download_retry_wait"
           /\ ent' = [ent EXCEPT ![f].timer = "none"]
           /\ SetPhase(f, "prepared")
           /\ Go(After("prepared")) /\ UNCHANGED job
  <2>1. /\ a \in Attempts /\ a > 0 /\ att[f][a].ph = "download_retry_wait"
    BY <1>2, <1>9 DEF Attempts
  <2>2. /\ att' \in AttRows
        /\ att'[f][a] = [att[f][a] EXCEPT !.ph = "prepared"]
        /\ \A g \in Files, b \in Attempts : g # f \/ b # a => att'[g][b] = att[g][b]
    BY <1>9, <2>1, PhaseWritten, StoreTypes DEF SetPhase, Phases, Local
  <2>3. ent' \in EntRows
    BY <1>9, StoreTypes DEF EntRows, EntryRows
  <2>4. /\ run' \in RunStates /\ run'.pc = After("prepared") /\ run'.f = f
        /\ run'.point = run.point
    BY <1>9, AfterIsStep, RunGoes, StoreTypes DEF F, StepPCs
  <2>5. TypeOK'
    BY <1>1, <1>9, <2>2, <2>3, <2>4, StoreTypes, TypeStep
  <2>6. Stays(f, "prepared", ent[f].st)
    BY <1>1, <1>9, <2>1, <2>2, StoreTypes DEF OnlyPhase, Stays, remote, AttRows, AttemptRows, EntRows, EntryRows
  <2>7. FileInv(f)
    BY DEF IInv
  <2>8. wire[f][a].st = "none" /\ ent[f].st \notin Success
    BY <1>9, <2>1, <2>7 DEF FileInv, RequestsKnown, EntryAgrees, EarlyPhases, Resting, AbandonedPhases
  <2>9. Fits(f, "prepared", ent[f].st)
    BY <2>1, <2>8 DEF Fits, EarlyPhases, Local, Waiting, Late
  <2>10. Phase(f)' = "prepared" => PhaseAtStep' /\ RequestAtStep'
    BY <1>1, <1>9, <2>4, <2>6, AfterFits DEF Underway, Local, Stays
  <2> QED BY <1>1, <2>4, <2>5, <2>6, <2>8, <2>9, <2>10, AfterIsStep, StepContinues
<1> QED BY <1>4, <1>5, <1>6, <1>7, <1>8, <1>9 DEF OpenFile

LEMMA CheckNewSourceKeeps ==
    ASSUME IInv, CheckNewSource
    PROVE  IInv'
<1>1. run.pc = "src0" /\ run.pc \in StepPCs
  BY DEF CheckNewSource, Proceeds, At, StepPCs, PCs, JobPCs, BulkPCs
<1> PICK f \in Files : F = f
  BY <1>1, StepFile
<1>2. ent[f].at = 0 /\ Phase(f) = "none"
  BY <1>1, RowFields DEF IInv, PhaseAtStep, Phase, NoAttempt
<1>3. CASE Go("dest0") /\ UNCHANGED <<job, ent, att, mem, cancels, remote, budget>>
  <2>1. "dest0" \in StepPCs /\ "dest0" \notin PointPCs
    BY DEF StepPCs, PCs, JobPCs, BulkPCs, PointPCs
  <2>3. ~run.point
    BY <1>1 DEF IInv, PhaseAtStep
  <2>2. run'.pc = "dest0" /\ run'.f = f /\ run'.point = run.point => PhaseAtStep' /\ RequestAtStep'
    BY <1>2, <1>3, <2>3 DEF PhaseAtStep, RequestAtStep, StagePCs, UploadPCs, F
  <2> QED BY <1>1, <1>3, <2>1, <2>2, StillGoes, StoreTypes
<1>4. CASE /\ SetEntry(f, "source_changed") /\ run' = Idle
           /\ UNCHANGED <<job, att, mem, cancels, remote, budget>>
  <2>1. "source_changed" \in EntryStates /\ "source_changed" \notin Success
    BY DEF EntryStates, Success
  <2>2. ent' \in EntRows /\ Stays(f, Phase(f), "source_changed") /\ Fits(f, Phase(f), "source_changed")
    BY <1>4, <2>1, EntrySet
  <2>3. TypeOK'
    BY <1>4, <2>2, IdleState, StoreTypes, TypeStep
  <2> QED BY <1>1, <1>4, <2>2, <2>3, StepReturns
<1>5. CASE ReadFails(SourceErrors)
  <2>1. SourceErrors \in SUBSET (Errors \ {"unknown"})
    BY DEF SourceErrors, Errors
  <2>2. "none" \notin Remembered
    BY DEF Remembered, UnknownPhases, Waiting, AbandonedPhases
  <2> QED BY <1>1, <1>2, <1>5, <2>1, <2>2, ReadFailsKeeps
<1> QED BY <1>3, <1>4, <1>5 DEF CheckNewSource

LEMMA CheckNewDestinationKeeps ==
    ASSUME IInv, CheckNewDestination
    PROVE  IInv'
<1>1. run.pc = "dest0" /\ run.pc \in StepPCs
  BY DEF CheckNewDestination, Proceeds, At, StepPCs, PCs, JobPCs, BulkPCs
<1> PICK f \in Files : F = f
  BY <1>1, StepFile
<1>2. ent[f].at = 0 /\ Phase(f) = "none" /\ "none" \notin Remembered
  BY <1>1, RowFields DEF IInv, PhaseAtStep, Phase, NoAttempt, Remembered, UnknownPhases, Waiting,
     AbandonedPhases
<1>3. CASE Go("new") /\ UNCHANGED <<job, ent, att, mem, cancels, remote, budget>>
  <2>1. "new" \in StepPCs /\ "new" \notin PointPCs
    BY DEF StepPCs, PCs, JobPCs, BulkPCs, PointPCs
  <2>3. ~run.point
    BY <1>1 DEF IInv, PhaseAtStep
  <2>2. run'.pc = "new" /\ run'.f = f /\ run'.point = run.point => PhaseAtStep' /\ RequestAtStep'
    BY <1>2, <1>3, <2>3 DEF PhaseAtStep, RequestAtStep, StagePCs, UploadPCs, F
  <2> QED BY <1>1, <1>3, <2>1, <2>2, StillGoes, StoreTypes
<1>4. CASE /\ dest[f] = "ours" /\ SetEntry(f, "already_verified") /\ run' = Idle
           /\ UNCHANGED <<job, att, mem, cancels, remote, budget>>
  <2>1. "already_verified" \in EntryStates /\ "none" \in Resting
    BY DEF EntryStates, Success, Resting
  <2>2. /\ ent' \in EntRows /\ Stays(f, Phase(f), "already_verified")
        /\ Fits(f, Phase(f), "already_verified")
    BY <1>2, <1>4, <2>1, EntrySet
  <2>3. TypeOK'
    BY <1>4, <2>2, IdleState, StoreTypes, TypeStep
  <2> QED BY <1>1, <1>4, <2>2, <2>3, StepReturns
<1>5. CASE Fail("conflict") /\ UNCHANGED <<job, ent, att, mem, cancels, remote, budget>>
  BY <1>1, <1>2, <1>5, StillFails, StoreTypes DEF Errors
<1>6. CASE ReadFails(DestinationErrors)
  BY <1>1, <1>2, <1>6, ReadFailsKeeps DEF DestinationErrors, Errors
<1> QED BY <1>3, <1>4, <1>5, <1>6 DEF CheckNewDestination, Matching

LEMMA MarkTransferringKeeps ==
    ASSUME IInv, MarkTransferring
    PROVE  IInv'
<1>1. /\ run.pc = "newEnt" /\ run.pc \in StepPCs
      /\ UNCHANGED <<job, att, mem, cancels, remote, budget>>
  BY DEF MarkTransferring, At, StepPCs, PCs, JobPCs, BulkPCs
<1> PICK f \in Files : F = f
  BY <1>1, StepFile
<1>2. Phase(f) = "prepared" /\ "prepared" \in Underway
  BY <1>1 DEF IInv, PhaseAtStep, Underway, Local
<1>3. "transferring" \in EntryStates /\ "transferring" \notin Success
  BY DEF EntryStates, Active, Success
<1>4. ent' \in EntRows /\ Stays(f, Phase(f), "transferring") /\ Fits(f, Phase(f), "transferring")
  BY <1>1, <1>3, EntrySet DEF MarkTransferring
<1>5. /\ run' \in RunStates /\ run'.pc = After("prepared") /\ run'.f = f
      /\ run'.point = run.point
  BY AfterIsStep, RunGoes, StoreTypes DEF MarkTransferring, F, StepPCs
<1>6. TypeOK'
  BY <1>1, <1>4, <1>5, StoreTypes, TypeStep
<1>7. Phase(f)' = "prepared" => PhaseAtStep' /\ RequestAtStep'
  BY <1>1, <1>2, <1>4, <1>5, AfterFits DEF OnlyPhase, Stays
<1> QED BY <1>1, <1>2, <1>3, <1>4, <1>5, <1>6, <1>7, AfterIsStep, StepContinues

\* The attempt fails for good, and the entry with it.
AttemptFails(f) ==
    att' = [att EXCEPT ![f][ent[f].at].ph = "failed", ![f][ent[f].at].err = "fatal"]

LEMMA GivesUpKeeps ==
    ASSUME IInv, run.pc \in StepPCs, NEW s \in EntryStates \ Success, SetEntry(F, s),
           Phase(F) \notin Remembered \cup {"none"},
           AttemptFails(F), Return, UNCHANGED <<job, mem, cancels, remote, budget>>
    PROVE  IInv'
<1> PICK f \in Files : F = f
  BY StepFile
<1>1. ent[f].at > 0
  BY HasBegun
<1> PICK a \in Attempts : a = ent[f].at /\ att[f][a] \in AttemptRows /\ Phase(f) = att[f][a].ph
  BY <1>1, CurrentRow
<1> DEFINE r == [att[f][a] EXCEPT !.ph = "failed", !.err = "fatal"]
<1>2. r \in AttemptRows /\ r.ph = "failed"
  BY DEF AttemptRows, Phases, Errors
<1>3. Written(f, a, r)
  BY <1>1, StoreTypes DEF AttemptFails, AttRows, Written
<1> HIDE DEF r
<1>4. att' \in AttRows /\ OnlyPhase(f, "failed")
  BY <1>1, <1>2, <1>3, RowSet
<1>5. /\ ent' \in EntRows
      /\ \A g \in Files : g # f => ent'[g] = ent[g]
      /\ ent'[f].at = ent[f].at /\ ent'[f].point = ent[f].point /\ ent'[f].st = s
      /\ ent'[f].timer = ent[f].timer /\ ent'[f].ptries = ent[f].ptries
  BY StoreTypes DEF SetEntry, EntRows, EntryRows
<1>6. Stays(f, "failed", s)
  BY <1>4, <1>5 DEF Stays, remote
<1>7. FileInv(f)
  BY DEF IInv
<1>8. Fits(f, "failed", s)
  BY <1>1, <1>7 DEF Fits, FileInv, RequestsKnown, EarlyPhases, Local, Waiting
<1>9. run' \in RunStates
  BY RunReturns, StoreTypes
<1>10. TypeOK'
  BY <1>4, <1>5, <1>9, StoreTypes, TypeStep
<1> QED BY <1>6, <1>8, <1>10, StepIsOver

LEMMA CheckDestinationKeeps ==
    ASSUME IInv, CheckDestination
    PROVE  IInv'
<1>1. run.pc = "predest" /\ run.pc \in StepPCs
  BY DEF CheckDestination, Proceeds, At, StepPCs, PCs, JobPCs, BulkPCs
<1> PICK f \in Files : F = f
  BY <1>1, StepFile
<1>2. /\ Phase(f) \in Local /\ Phase(f) \notin Remembered
  BY <1>1 DEF IInv, PhaseAtStep, StagePCs, Local, Remembered, UnknownPhases, Waiting,
     AbandonedPhases
<1>3. FileInv(f) /\ ent[f].at > 0
  BY <1>2, HasBegun DEF IInv, Local
<1>4. ent[f].at \in Attempts /\ Phase(f) = att[f][ent[f].at].ph
  BY <1>3, CurrentRow
<1>5. CASE /\ SetPhase(f, "verifying_final") /\ Go("final")
           /\ UNCHANGED <<job, ent, mem, cancels, remote, budget>>
  <2>1. att' \in AttRows /\ OnlyPhase(f, "verifying_final")
    BY <1>3, <1>5, PhaseSet DEF Phases, SideEffectPhases
  <2>2. Stays(f, "verifying_final", ent[f].st)
    BY <1>5, <2>1 DEF Stays, remote
  <2>3. ent[f].st \notin Success
    BY <1>2, <1>3 DEF FileInv, EntryAgrees, Resting, AbandonedPhases, Local
  <2>4. Fits(f, "verifying_final", ent[f].st)
    BY <1>2, <1>3, <1>4, <2>3 DEF Fits, FileInv, RequestsKnown, EarlyPhases, Local, Waiting
  <2>5. "final" \in StepPCs /\ "final" \notin PointPCs /\ "final" \in PCs
    BY DEF StepPCs, PCs, JobPCs, BulkPCs, PointPCs
  <2>6. /\ run' \in RunStates /\ run'.pc = "final" /\ run'.f = f /\ run'.point = run.point
    BY <1>5, <2>5, RunGoes, StoreTypes DEF F
  <2>7. TypeOK'
    BY <1>5, <2>1, <2>6, StoreTypes, TypeStep
  <2>8. Phase(f)' = "verifying_final" => PhaseAtStep' /\ RequestAtStep'
    BY <2>6 DEF PhaseAtStep, RequestAtStep, StagePCs, UploadPCs, F
  <2> QED BY <1>1, <2>2, <2>3, <2>4, <2>5, <2>6, <2>7, <2>8, StepContinues
<1>6. CASE /\ dest[f] # "ours" /\ Go("src1")
           /\ UNCHANGED <<job, ent, att, mem, cancels, remote, budget>>
  <2>1. "src1" \in StepPCs /\ "src1" \notin PointPCs
    BY DEF StepPCs, PCs, JobPCs, BulkPCs, PointPCs
  <2>2. \A b \in Attempts : wire[f][b].st \in Late => att[f][b].ph \in Remembered
    BY <1>3, <1>6 DEF FileInv, RequestsKnown
  <2>3. run'.pc = "src1" /\ run'.f = f /\ Phase(f)' = Phase(f) => PhaseAtStep' /\ RequestAtStep'
    BY <1>2, <1>6, <2>2 DEF PhaseAtStep, RequestAtStep, StagePCs, UploadPCs, F, remote
  <2> QED BY <1>1, <1>6, <2>1, <2>3, StillGoes, StoreTypes
<1>7. CASE Fail("conflict") /\ UNCHANGED <<job, ent, att, mem, cancels, remote, budget>>
  BY <1>1, <1>2, <1>7, StillFails, StoreTypes DEF Errors
<1>8. CASE ReadFails(DestinationErrors)
  BY <1>1, <1>2, <1>8, ReadFailsKeeps DEF DestinationErrors, Errors
<1> QED BY <1>5, <1>6, <1>7, <1>8 DEF CheckDestination, Matching

LEMMA CheckSourceKeeps ==
    ASSUME IInv, NEW pc \in {"src1", "src2"}, NEW next, CheckSource(pc, next),
           next = IF pc = "src1" THEN "stage" ELSE "geturl"
    PROVE  IInv'
<1>1. run.pc \in {"src1", "src2"} /\ run.pc \in StepPCs
  BY DEF CheckSource, Proceeds, At, StepPCs, PCs, JobPCs, BulkPCs
<1> PICK f \in Files : F = f
  BY <1>1, StepFile
<1>2. /\ Phase(f) \in Local /\ Phase(f) \notin Remembered \cup {"none"}
  BY <1>1 DEF IInv, PhaseAtStep, StagePCs, Local, Remembered, UnknownPhases, Waiting,
     AbandonedPhases
<1>3. CASE Go(next) /\ UNCHANGED <<job, ent, att, mem, cancels, remote, budget>>
  <2>1. next \in StepPCs /\ next \notin PointPCs /\ next \in {"stage", "geturl"}
    BY DEF StepPCs, PCs, JobPCs, BulkPCs, PointPCs
  <2>2. Direct => \A b \in Attempts : wire[f][b].st \in Late => att[f][b].ph \in Remembered
    BY <1>1 DEF IInv, RequestAtStep, UploadPCs, StagePCs
  <2>3. run'.pc = next /\ run'.f = f /\ Phase(f)' = Phase(f) => PhaseAtStep' /\ RequestAtStep'
    BY <1>2, <1>3, <2>1, <2>2 DEF PhaseAtStep, RequestAtStep, StagePCs, UploadPCs, F, remote, Direct
  <2> QED BY <1>1, <1>3, <2>1, <2>3, StillGoes, StoreTypes
<1>4. CASE SourceChanged /\ UNCHANGED <<job, mem, cancels, remote, budget>>
  BY <1>1, <1>2, <1>4, GivesUpKeeps DEF SourceChanged, AttemptFails, EntryStates, Success, Active
<1>5. CASE ReadFails(SourceErrors)
  BY <1>1, <1>2, <1>5, ReadFailsKeeps DEF SourceErrors, Errors
<1> QED BY <1>3, <1>4, <1>5 DEF CheckSource

LEMMA CheckSourceAndParentKeeps ==
    ASSUME IInv, CheckSourceAndParent
    PROVE  IInv'
<1>1. CASE Proceeds("src1") /\ ReadFails(DestinationErrors)
  <2>1. run.pc = "src1" /\ run.pc \in StepPCs
    BY <1>1 DEF Proceeds, At, StepPCs, PCs, JobPCs, BulkPCs
  <2> QED BY <1>1, <2>1, ReadFailsKeeps DEF DestinationErrors, Errors
<1> QED BY <1>1, CheckSourceKeeps DEF CheckSourceAndParent

LEMMA MarkStagedKeeps ==
    ASSUME IInv, MarkStaged
    PROVE  IInv'
<1>1. /\ run.pc = "staged" /\ run.pc \in StepPCs
      /\ UNCHANGED <<job, mem, cancels, remote, budget>>
  BY DEF MarkStaged, At, StepPCs, PCs, JobPCs, BulkPCs
<1> PICK f \in Files : F = f
  BY <1>1, StepFile
<1>2. Phase(f) \in Local
  BY <1>1 DEF IInv, PhaseAtStep, StagePCs
<1>3. FileInv(f) /\ ent[f].at > 0
  BY <1>2, HasBegun DEF IInv, Local
<1>4. ent[f].at \in Attempts /\ Phase(f) = att[f][ent[f].at].ph
  BY <1>3, CurrentRow
<1>5. att' \in AttRows /\ OnlyPhase(f, "staged")
  BY <1>3, PhaseSet DEF MarkStaged, Phases, Local
<1>6. /\ ent' \in EntRows
      /\ \A g \in Files : g # f => ent'[g] = ent[g]
      /\ ent'[f].at = ent[f].at /\ ent'[f].point = ent[f].point /\ ent'[f].st = "staged"
      /\ ent'[f].timer = ent[f].timer /\ ent'[f].ptries = ent[f].ptries
  BY StoreTypes DEF MarkStaged, SetEntry, EntRows, EntryRows, EntryStates, Active
<1>7. Stays(f, "staged", "staged")
  BY <1>1, <1>5, <1>6 DEF Stays, remote
<1>8. "staged" \notin Success
  BY DEF Success
<1>9. Fits(f, "staged", "staged")
  BY <1>2, <1>3, <1>4, <1>8 DEF Fits, FileInv, RequestsKnown, EarlyPhases, Local, Waiting, Late
<1>10. "src2" \in StepPCs /\ "src2" \notin PointPCs /\ "src2" \in PCs
  BY DEF StepPCs, PCs, JobPCs, BulkPCs, PointPCs
<1>11. run' \in RunStates /\ run'.pc = "src2" /\ run'.f = f /\ run'.point = run.point
  BY <1>10, RunGoes, StoreTypes DEF MarkStaged, F
<1>12. TypeOK'
  BY <1>1, <1>5, <1>6, <1>11, StoreTypes, TypeStep
<1>13. Direct => \A b \in Attempts : wire[f][b].st \in Late => b # ent[f].at /\ att[f][b].ph \in Remembered
  BY <1>1, <1>2, <1>3, <1>4 DEF IInv, RequestAtStep, UploadPCs, StagePCs, FileInv, RequestsKnown,
     EarlyPhases, Late
<1>14. Phase(f)' = "staged" => PhaseAtStep' /\ RequestAtStep'
  BY <1>1, <1>5, <1>11, <1>13 DEF PhaseAtStep, RequestAtStep, StagePCs, UploadPCs, F, Local, remote, Direct, OnlyPhase
<1> QED BY <1>1, <1>7, <1>8, <1>9, <1>10, <1>11, <1>12, <1>14, StepContinues

----------------------------------------------------------------------------
(* A step that rewrites its entry and its attempt. *)

EntryWritten(f, e) == ent' = [ent EXCEPT ![f] = e]

LEMMA EntryTo ==
    ASSUME IInv, NEW f \in Files, NEW STATE e, e \in EntryRows, EntryWritten(f, e)
    PROVE  ent' \in EntRows /\ ent'[f] = e /\ \A g \in Files : g # f => ent'[g] = ent[g]
  BY StoreTypes DEF EntryWritten, EntRows

LEMMA StepWrites ==
    ASSUME IInv, NEW f \in Files, NEW a \in Attempts, a = ent[f].at,
           NEW STATE r, r \in AttemptRows, Written(f, a, r),
           NEW STATE e, e \in EntryRows, EntryWritten(f, e),
           e.at = a, e.point = ent[f].point, e.ptries = ent[f].ptries,
           e.timer \in {"none", ent[f].timer} \/ (~ent[f].point /\ ~job.stop),
           UNCHANGED <<job, cancels, remote>>, mem'.creds = mem.creds
    PROVE  /\ att' \in AttRows /\ ent' \in EntRows /\ Stays(f, r.ph, e.st)
           /\ att'[f][a] = r /\ ent'[f] = e /\ Row(f)' = r
<1>1. ent' \in EntRows /\ ent'[f] = e /\ \A g \in Files : g # f => ent'[g] = ent[g]
  BY EntryTo
<1>2. /\ att' \in AttRows /\ att'[f][a] = r /\ OnlyPhase(f, r.ph)
      /\ \A g \in Files, b \in Attempts : g # f \/ b # a => att'[g][b] = att[g][b]
  BY RowSet
<1>3. Row(f)' = r
  BY <1>1, <1>2 DEF Row, Attempts
<1>4. Stays(f, r.ph, e.st)
  BY <1>1, <1>2 DEF Stays, remote
<1> QED BY <1>1, <1>2, <1>3, <1>4

LEMMA EntryAsWas ==
    ASSUME IInv, NEW f \in Files, ent' = ent
    PROVE  EntryWritten(f, ent[f]) /\ ent[f] \in EntryRows
  BY StoreTypes DEF EntryWritten, EntRows

\* An attempt that has sent nothing.
LEMMA QuietRow ==
    ASSUME IInv, NEW f \in Files, Phase(f) \in Local
    PROVE  /\ wire[f][ent[f].at].st = "none" /\ ent[f].st \notin Success
           /\ ent[f].at \in Attempts /\ ent[f].at > 0 /\ Phase(f) \notin Remembered
           /\ att[f][ent[f].at] \in AttemptRows /\ Row(f) = att[f][ent[f].at]
           /\ Phase(f) = Row(f).ph
<1>1. FileInv(f) /\ ent[f].at > 0
  BY HasBegun DEF IInv, Local
<1>2. /\ ent[f].at \in Attempts /\ Phase(f) = att[f][ent[f].at].ph
      /\ att[f][ent[f].at] \in AttemptRows /\ Row(f) = att[f][ent[f].at]
  BY <1>1, CurrentRow
<1>3. wire[f][ent[f].at].st = "none"
  BY <1>1, <1>2 DEF FileInv, RequestsKnown, EarlyPhases
<1>4. ent[f].st \notin Success
  BY <1>1 DEF FileInv, EntryAgrees, Resting, AbandonedPhases, Local
<1>5. Phase(f) \notin Remembered
  BY DEF Remembered, UnknownPhases, Waiting, AbandonedPhases, Local
<1> QED BY <1>1, <1>2, <1>3, <1>4, <1>5

LEMMA QuietFits ==
    ASSUME IInv, NEW f \in Files, Phase(f) \in Local,
           NEW STATE p, p \notin {"none", "download_retry_wait"} \cup Waiting,
           NEW STATE s, s \notin Success
    PROVE  Fits(f, p, s)
  BY QuietRow DEF Fits, Late

\* With its request unsent, nothing of the upload is missing from the phases.
LEMMA UploadKept ==
    ASSUME IInv, run.pc \in UploadPCs, NEW f \in Files, F = f, Phase(f) \in Local,
           UNCHANGED <<job, remote>>, NEW p, OnlyPhase(f, p)
    PROVE  Direct' => \A b \in Attempts : wire'[f][b].st \in Late => att'[f][b].ph \in Remembered
<1>1. wire[f][ent[f].at].st = "none" /\ ent[f].at \in Attempts
  BY QuietRow
<1>2. Direct => \A b \in Attempts : wire[f][b].st \in Late => att[f][b].ph \in Remembered
  BY DEF IInv, RequestAtStep
<1>3. \A b \in Attempts : b # ent[f].at => att'[f][b].ph = att[f][b].ph
  BY DEF OnlyPhase
<1> QED BY <1>1, <1>2, <1>3 DEF Direct, remote, Late

LEMMA StageKeeps ==
    ASSUME IInv, Stage
    PROVE  IInv'
<1>1. /\ run.pc = "stage" /\ run.pc \in StepPCs /\ run.pc \in UploadPCs
      /\ UNCHANGED <<job, mem, cancels, remote, budget>>
  BY DEF Stage, Proceeds, At, StepPCs, PCs, JobPCs, BulkPCs, UploadPCs, StagePCs
<1> PICK f \in Files : F = f
  BY <1>1, StepFile
<1>2. Phase(f) \in Local
  BY <1>1 DEF IInv, PhaseAtStep, StagePCs
<1> PICK a \in Attempts : /\ a = ent[f].at /\ a > 0 /\ Row(f) = att[f][a] /\ Phase(f) = att[f][a].ph
                          /\ att[f][a] \in AttemptRows
  BY <1>2, QuietRow
<1>3. ent[f] \in EntryRows
  BY StoreTypes DEF EntRows
<1>4. ASSUME NEW STATE r, r \in AttemptRows, Written(f, a, r), r.ph \in Local,
             NEW STATE e, e \in EntryRows, EntryWritten(f, e), e.at = a,
             e.point = ent[f].point, e.ptries = ent[f].ptries, e.timer \in {"none", ent[f].timer},
             e.st \notin Success,
             run' \in RunStates, run'.f = f, run'.point = run.point,
             run'.pc \in {"src2", "dl", "dlfail"}, run'.pc \in {"dl", "dlfail"} => r.copy # "full"
      PROVE  IInv'
  <2>1. /\ att' \in AttRows /\ ent' \in EntRows /\ Stays(f, r.ph, e.st) /\ Row(f)' = r
    BY <1>1, <1>4, StepWrites
  <2>2. TypeOK'
    BY <1>1, <1>4, <2>1, StoreTypes, TypeStep
  <2>3. Fits(f, r.ph, e.st)
    BY <1>2, <1>4, QuietFits DEF Local, Waiting
  <2>4. OnlyPhase(f, r.ph)
    BY <2>1 DEF Stays
  <2>5. Direct' => \A b \in Attempts : wire'[f][b].st \in Late => att'[f][b].ph \in Remembered
    BY <1>1, <1>2, <2>4, UploadKept
  <2>6. PhaseAtStep' /\ RequestAtStep'
    BY <1>4, <2>1, <2>5 DEF PhaseAtStep, RequestAtStep, StagePCs, UploadPCs, F, Phase
  <2>7. run'.pc \in StepPCs /\ run'.pc \notin PointPCs
    BY <1>4 DEF StepPCs, PCs, JobPCs, BulkPCs, PointPCs
  <2> QED BY <1>1, <1>4, <2>1, <2>2, <2>3, <2>6, <2>7, StepContinues
<1>5. CASE SetPhase(f, "staged") /\ Go("src2") /\ UNCHANGED ent
  <2> DEFINE r == [att[f][a] EXCEPT !.ph = "staged"]
  <2>1. r \in AttemptRows /\ r.ph = "staged"
    BY DEF AttemptRows, Phases, Local
  <2>2. Written(f, a, r)
    BY <1>5, StoreTypes DEF SetPhase, AttRows, Written
  <2> HIDE DEF r
  <2>3. EntryWritten(f, ent[f]) /\ ent[f].st \notin Success /\ r.ph \in Local
    BY <1>2, <1>5, <2>1, EntryAsWas, QuietRow DEF Local
  <2>4. /\ run' \in RunStates /\ run'.pc = "src2" /\ run'.f = f /\ run'.point = run.point
    BY <1>5, RunGoes, StoreTypes DEF F, PCs
  <2> QED BY <1>3, <1>4, <2>1, <2>2, <2>3, <2>4
<1> DEFINE purged == Phase(f) = "staged" /\ ~Row(f).op /\ Row(f).copy = "gone"
           used == IF purged THEN 0 ELSE ent[f].dls
           dropped == IF Row(f).copy = "none" THEN "none" ELSE "gone"
<1>6. used \in 0..MaxDownloads /\ dropped \in {"none", "gone"} /\ DownloadLimit <= MaxDownloads
  BY <1>3, TransferAssumption DEF EntryRows, DownloadLimit
<1> HIDE DEF used, dropped
<1>7. CASE /\ used < DownloadLimit
           /\ ent' = [ent EXCEPT ![f].dls = used + 1, ![f].timer = "none",
                                 ![f].st = "downloading"]
           /\ att' = [att EXCEPT ![f][ent[f].at].ph = "downloading",
                                 ![f][ent[f].at].copy = "part"]
           /\ Go("dl")
  <2> DEFINE r == [att[f][a] EXCEPT !.ph = "downloading", !.copy = "part"]
             e == [ent[f] EXCEPT !.dls = used + 1, !.timer = "none", !.st = "downloading"]
  <2>1. r \in AttemptRows /\ r.ph \in Local /\ r.copy # "full"
    BY DEF AttemptRows, Phases, Local, Copies
  <2>2. Written(f, a, r)
    BY <1>7, StoreTypes DEF AttRows, Written
  <2>3. used + 1 \in 0..MaxDownloads
    BY <1>6, <1>7, TransferAssumption DEF DownloadLimit
  <2>4. /\ e \in EntryRows /\ e.at = a /\ e.point = ent[f].point /\ e.ptries = ent[f].ptries
        /\ e.timer = "none" /\ e.st \notin Success
    BY <1>3, <2>3 DEF EntryRows, EntryStates, Active, Success
  <2>5. EntryWritten(f, e)
    BY <1>7, StoreTypes DEF EntRows, EntryRows, EntryWritten
  <2> HIDE DEF r, e
  <2>6. /\ run' \in RunStates /\ run'.pc = "dl" /\ run'.f = f /\ run'.point = run.point
    BY <1>7, RunGoes, StoreTypes DEF F, PCs
  <2> QED BY <1>4, <2>1, <2>2, <2>4, <2>5, <2>6
<1>8. CASE /\ Row(f).copy # "full"
           /\ ent' = [ent EXCEPT ![f].dls = used]
           /\ att' = [att EXCEPT ![f][ent[f].at].copy = dropped]
           /\ \E x \in {"srcDl", "fatal"} : run' = [run EXCEPT !.pc = "dlfail", !.err = x]
  <2> DEFINE r == [att[f][a] EXCEPT !.copy = dropped]
             e == [ent[f] EXCEPT !.dls = used]
  <2>1. r \in AttemptRows /\ r.ph = att[f][a].ph /\ r.copy # "full"
    BY <1>6 DEF AttemptRows, Copies
  <2>2. Written(f, a, r)
    BY <1>8, StoreTypes DEF AttRows, Written
  <2>3. ent[f].st \notin Success
    BY <1>2, QuietRow
  <2>4. /\ e \in EntryRows /\ e.at = a /\ e.point = ent[f].point /\ e.ptries = ent[f].ptries
        /\ e.timer = ent[f].timer /\ e.st \notin Success
    BY <1>3, <1>6, <2>3 DEF EntryRows
  <2>5. EntryWritten(f, e)
    BY <1>8, StoreTypes DEF EntRows, EntryRows, EntryWritten
  <2> HIDE DEF r, e
  <2>6. /\ run' \in RunStates /\ run'.pc = "dlfail" /\ run'.f = f /\ run'.point = run.point
    BY <1>8, StoreTypes DEF F, PCs, RunStates, Errors
  <2> QED BY <1>2, <1>4, <2>1, <2>2, <2>4, <2>5, <2>6
<1> QED BY <1>5, <1>7, <1>8 DEF Stage, used, dropped, purged

LEMMA DownloadKeeps ==
    ASSUME IInv, Download
    PROVE  IInv'
<1>1. /\ run.pc = "dl" /\ run.pc \in StepPCs /\ run.pc \in UploadPCs
      /\ UNCHANGED <<job, ent, mem, cancels, remote, budget>>
  BY DEF Download, At, StepPCs, PCs, JobPCs, BulkPCs, UploadPCs, StagePCs
<1> PICK f \in Files : F = f
  BY <1>1, StepFile
<1>2. Phase(f) \in Local
  BY <1>1 DEF IInv, PhaseAtStep, StagePCs
<1> PICK a \in Attempts : /\ a = ent[f].at /\ a > 0 /\ Row(f) = att[f][a] /\ Phase(f) = att[f][a].ph
                          /\ att[f][a] \in AttemptRows
  BY <1>2, QuietRow
<1>3. ent[f] \in EntryRows /\ ent[f].st \notin Success
  BY <1>2, StoreTypes, QuietRow DEF EntRows
<1>4. CASE att' = [att EXCEPT ![f][ent[f].at].copy = "full"] /\ Go("staged")
  <2> DEFINE r == [att[f][a] EXCEPT !.copy = "full"]
  <2>1. r \in AttemptRows /\ r.ph = att[f][a].ph
    BY DEF AttemptRows, Copies
  <2>2. Written(f, a, r)
    BY <1>4, StoreTypes DEF AttRows, Written
  <2> HIDE DEF r
  <2>3. EntryWritten(f, ent[f])
    BY <1>1, EntryAsWas
  <2>4. /\ run' \in RunStates /\ run'.pc = "staged" /\ run'.f = f /\ run'.point = run.point
    BY <1>4, RunGoes, StoreTypes DEF F, PCs
  <2>5. /\ att' \in AttRows /\ ent' \in EntRows /\ Stays(f, r.ph, ent[f].st) /\ Row(f)' = r
    BY <1>1, <1>3, <2>1, <2>2, <2>3, StepWrites
  <2>6. TypeOK'
    BY <1>1, <2>4, <2>5, StoreTypes, TypeStep
  <2>7. Fits(f, r.ph, ent[f].st)
    BY <1>2, <1>3, <2>1, QuietFits DEF Local, Waiting
  <2>8. OnlyPhase(f, r.ph)
    BY <2>5 DEF Stays
  <2>9. Direct' => \A b \in Attempts : wire'[f][b].st \in Late => att'[f][b].ph \in Remembered
    BY <1>1, <1>2, <2>8, UploadKept
  <2>10. PhaseAtStep' /\ RequestAtStep'
    BY <1>2, <2>1, <2>4, <2>5, <2>9 DEF PhaseAtStep, RequestAtStep, StagePCs, UploadPCs, F, Phase
  <2>11. run'.pc \in StepPCs /\ run'.pc \notin PointPCs
    BY <2>4 DEF StepPCs, PCs, JobPCs, BulkPCs, PointPCs
  <2> QED BY <1>1, <1>3, <2>4, <2>5, <2>6, <2>7, <2>10, <2>11, StepContinues
<1>5. CASE /\ \E e \in {"srcDl", "srcAuth", "fatal"} : run' = [run EXCEPT !.pc = "dlfail", !.err = e]
           /\ UNCHANGED att
  <2>1. /\ run' \in RunStates /\ run'.pc = "dlfail" /\ run'.f = f /\ run'.point = run.point
    BY <1>5, StoreTypes DEF F, PCs, RunStates, Errors
  <2>2. TypeOK'
    BY <1>1, <1>5, <2>1, StoreTypes, TypeStep
  <2>3. Stays(f, Phase(f), ent[f].st) /\ Fits(f, Phase(f), ent[f].st)
    BY <1>1, <1>5, Still DEF remote
  <2>4. OnlyPhase(f, Phase(f))
    BY <2>3 DEF Stays
  <2>5. Direct' => \A b \in Attempts : wire'[f][b].st \in Late => att'[f][b].ph \in Remembered
    BY <1>1, <1>2, <2>4, UploadKept
  <2>6. Row(f)' = Row(f) /\ Row(f).copy # "full"
    BY <1>1, <1>5 DEF Row, IInv, PhaseAtStep, NoAttempt
  <2>7. PhaseAtStep' /\ RequestAtStep'
    BY <1>2, <2>1, <2>6, <2>5 DEF PhaseAtStep, RequestAtStep, StagePCs, UploadPCs, F, Phase
  <2>8. run'.pc \in StepPCs /\ run'.pc \notin PointPCs
    BY <2>1 DEF StepPCs, PCs, JobPCs, BulkPCs, PointPCs
  <2> QED BY <1>1, <1>3, <2>1, <2>2, <2>3, <2>7, <2>8, StepContinues
<1> QED BY <1>4, <1>5 DEF Download

LEMMA DownloadFailedKeeps ==
    ASSUME IInv, DownloadFailed
    PROVE  IInv'
<1>1. /\ run.pc = "dlfail" /\ run.pc \in StepPCs
      /\ UNCHANGED <<job, mem, cancels, remote, budget>>
  BY DEF DownloadFailed, At, StepPCs, PCs, JobPCs, BulkPCs
<1> PICK f \in Files : F = f
  BY <1>1, StepFile
<1>2. Phase(f) \in Local
  BY <1>1 DEF IInv, PhaseAtStep, StagePCs
<1> PICK a \in Attempts : /\ a = ent[f].at /\ a > 0 /\ Row(f) = att[f][a] /\ Phase(f) = att[f][a].ph
                          /\ att[f][a] \in AttemptRows
  BY <1>2, QuietRow
<1>3. ent[f] \in EntryRows /\ ent[f].st \notin Success /\ Phase(f) \notin Remembered
  BY <1>2, StoreTypes, QuietRow DEF EntRows
<1>4. CASE run' = Idle /\ UNCHANGED <<ent, att>>
  BY <1>1, <1>4, StillReturns, StoreTypes
<1>5. CASE /\ ~ent[f].point /\ ~job.stop
           /\ ent' = [ent EXCEPT ![f].st = "downloading", ![f].timer = "future"]
           /\ att' = [att EXCEPT ![f][ent[f].at].ph = "download_retry_wait",
                                 ![f][ent[f].at].copy = "none",
                                 ![f][ent[f].at].err = "srcDl"]
           /\ run' = Idle
  <2> DEFINE r == [att[f][a] EXCEPT !.ph = "download_retry_wait", !.copy = "none", !.err = "srcDl"]
             e == [ent[f] EXCEPT !.st = "downloading", !.timer = "future"]
  <2>1. r \in AttemptRows /\ r.ph = "download_retry_wait"
    BY DEF AttemptRows, Phases, Copies, Errors
  <2>2. Written(f, a, r)
    BY <1>5, StoreTypes DEF AttRows, Written
  <2>3. /\ e \in EntryRows /\ e.at = a /\ e.point = ent[f].point /\ e.ptries = ent[f].ptries
        /\ e.st = "downloading"
    BY <1>3 DEF EntryRows, EntryStates, Active
  <2>4. EntryWritten(f, e)
    BY <1>5, StoreTypes DEF EntRows, EntryRows, EntryWritten
  <2> HIDE DEF r, e
  <2>5. /\ att' \in AttRows /\ ent' \in EntRows /\ Stays(f, r.ph, e.st)
    BY <1>1, <1>5, <2>1, <2>2, <2>3, <2>4, StepWrites
  <2>8. wire[f][ent[f].at].st = "none" /\ "downloading" \notin Success
    BY <1>2, QuietRow DEF Success
  <2>6. Fits(f, r.ph, e.st)
    BY <1>5, <2>1, <2>3, <2>8 DEF Fits, Late, Waiting
  <2>7. TypeOK'
    BY <1>1, <1>5, <2>5, IdleState, StoreTypes, TypeStep
  <2> QED BY <1>1, <1>5, <2>5, <2>6, <2>7, StepReturns
<1>6. CASE Go("err") /\ att' = [att EXCEPT ![f][ent[f].at].copy = "none"] /\ UNCHANGED ent
  <2> DEFINE r == [att[f][a] EXCEPT !.copy = "none"]
  <2>1. r \in AttemptRows /\ r.ph = att[f][a].ph
    BY DEF AttemptRows, Copies
  <2>2. Written(f, a, r)
    BY <1>6, StoreTypes DEF AttRows, Written
  <2> HIDE DEF r
  <2>3. EntryWritten(f, ent[f])
    BY <1>6, EntryAsWas
  <2>4. /\ run' \in RunStates /\ run'.pc = "err" /\ run'.f = f /\ run'.point = run.point
    BY <1>6, RunGoes, StoreTypes DEF F, PCs
  <2>5. /\ att' \in AttRows /\ ent' \in EntRows /\ Stays(f, r.ph, ent[f].st)
    BY <1>1, <1>3, <2>1, <2>2, <2>3, StepWrites
  <2>6. TypeOK'
    BY <1>1, <2>4, <2>5, StoreTypes, TypeStep
  <2>7. Fits(f, r.ph, ent[f].st)
    BY <1>2, <1>3, <2>1, QuietFits DEF Local, Waiting
  <2> QED BY <1>1, <1>3, <2>1, <2>4, <2>5, <2>6, <2>7, StepFails
<1>7. CASE /\ ent' = IF run.err = "srcAuth" /\ ~ent[f].point /\ ent[f].dls > 0
                     THEN [ent EXCEPT ![f].dls = @ - 1] ELSE ent
           /\ Go("err") /\ UNCHANGED att
  <2> DEFINE e == IF run.err = "srcAuth" /\ ~ent[f].point /\ ent[f].dls > 0
                  THEN [ent[f] EXCEPT !.dls = @ - 1] ELSE ent[f]
  <2>1. /\ e \in EntryRows /\ e.at = a /\ e.point = ent[f].point /\ e.ptries = ent[f].ptries
        /\ e.st = ent[f].st /\ e.timer = ent[f].timer
    <3>1. CASE ent[f].dls > 0
      <4>1. ent[f].dls - 1 \in 0..MaxDownloads
        BY <1>3, <3>1, TransferAssumption DEF EntryRows
      <4> QED BY <1>3, <4>1 DEF EntryRows
    <3>2. CASE ~(ent[f].dls > 0)
      BY <1>3, <3>2
    <3> QED BY <3>1, <3>2
  <2>2. EntryWritten(f, e)
    BY <1>7, StoreTypes DEF EntRows, EntryRows, EntryWritten
  <2> HIDE DEF e
  <2>3. Written(f, a, att[f][a])
    BY <1>7, StoreTypes DEF AttRows, Written
  <2>4. /\ run' \in RunStates /\ run'.pc = "err" /\ run'.f = f /\ run'.point = run.point
    BY <1>7, RunGoes, StoreTypes DEF F, PCs
  <2>5. /\ att' \in AttRows /\ ent' \in EntRows /\ Stays(f, Phase(f), ent[f].st)
    BY <1>1, <2>1, <2>2, <2>3, StepWrites
  <2>6. TypeOK'
    BY <1>1, <2>4, <2>5, StoreTypes, TypeStep
  <2>7. Fits(f, Phase(f), ent[f].st)
    BY <1>2, <1>3, QuietFits DEF Local, Waiting
  <2> QED BY <1>1, <1>3, <2>4, <2>5, <2>6, <2>7, StepFails
<1> QED BY <1>4, <1>5, <1>6, <1>7 DEF DownloadFailed

----------------------------------------------------------------------------
(* The steps that begin an attempt. *)

LEMMA StepOthers ==
    ASSUME IInv, run.pc \in StepPCs, NEW f \in Files, F = f, job' = job, cancels' = cancels,
           mem'.creds = mem.creds, \A g \in Files : g # f => ent'[g] = ent[g],
           ent'[f].point = ent[f].point, ent'[f].timer \in {"none", ent[f].timer}
    PROVE  /\ Busy' \subseteq {f} /\ (ent[f].point => ent[f].timer = "none")
           /\ run'.pc \notin {"cancel"} \cup BulkPCs => JobInv' /\ BulkInv' /\ PointInv'
<1>1. Busy \subseteq {f}
  BY DEF IInv, Holder, StepPCs
<1>2. Busy' \subseteq {f}
  BY <1>1 DEF Busy, ActiveFiles, Pointed
<1>3. \A g \in Files : /\ ent'[g].point = ent[g].point
                       /\ ent'[g].timer \in {"none", ent[g].timer}
  OBVIOUS
<1>4. ASSUME run'.pc \notin {"cancel"} \cup BulkPCs
      PROVE  JobInv' /\ BulkInv' /\ PointInv'
  <2>1. job.st = "running"
    BY DEF IInv, JobInv, StepPCs, JobPCs
  <2>2. JobInv'
    BY <1>3, <1>4, <2>1 DEF IInv, JobInv, BulkPCs
  <2>3. BulkInv'
    BY <1>4 DEF BulkInv, BulkPCs
  <2>4. PointInv'
    BY <1>3 DEF IInv, PointInv, StepPCs, JobPCs
  <2> QED BY <2>2, <2>3, <2>4
<1>5. ent[f].point => ent[f].timer = "none"
  BY DEF IInv, PointInv, StepPCs, JobPCs
<1> QED BY <1>2, <1>4, <1>5

\* The attempt after a begins, and the attempt a is left with the phase q.
LEMMA BegunFile ==
    ASSUME IInv, NEW f \in Files, NEW a \in 0..MaxAttempts, a = ent[f].at, a < MaxAttempts, NEW STATE q,
           job'.direct = job.direct, UNCHANGED <<dest, wire>>,
           ent'[f].at = a + 1, ent'[f].st \notin Success, ent'[f].point => ent'[f].timer = "none",
           att'[f][a + 1].ph \in Local, a > 0 => att'[f][a].ph = q,
           \A b \in Attempts : b # a /\ b # a + 1 => att'[f][b] = att[f][b],
           a > 0 => /\ q \in EarlyPhases => wire[f][a].st = "none"
                    /\ q \in Waiting => wire[f][a].st \in Answered
                    /\ wire[f][a].st \in Late => q \in Remembered \/ (Direct /\ dest[f] = "ours"),
           a > 0 /\ Direct => q \in {"failed"} \cup AbandonedPhases
    PROVE  FileInv(f)' /\ Phase(f)' \in Local /\ Row(f)' = att'[f][a + 1]
<1>1. MaxAttempts \in Nat /\ a + 1 \in Attempts /\ a + 1 > a /\ a + 1 # 0
  BY TransferAssumption DEF Attempts
<1>2. FileInv(f) /\ Direct' = Direct
  BY DEF IInv, Direct
<1>3. Phase(f)' \in Local /\ Row(f)' = att'[f][a + 1]
  BY <1>1 DEF Phase, Row
<1>4. RowsInOrder(f)'
  <2>1. ASSUME NEW b \in Attempts, b > a + 1
        PROVE  att'[f][b].ph = "none" /\ att'[f][b].copy = "none" /\ wire[f][b].st = "none"
    BY <1>1, <1>2, <2>1 DEF FileInv, RowsInOrder, Attempts
  <2>2. ASSUME Direct, NEW b \in Attempts, b < a + 1
        PROVE  att'[f][b].ph \in {"failed"} \cup AbandonedPhases
    <3>1. b <= a /\ b > 0
      BY <1>1, <2>2 DEF Attempts
    <3>2. CASE b = a
      BY <2>2, <3>1, <3>2
    <3>3. CASE b < a
      BY <1>1, <1>2, <2>2, <3>3 DEF FileInv, RowsInOrder, Attempts
    <3> QED BY <3>1, <3>2, <3>3, <1>1 DEF Attempts
  <2>3. att'[f][a + 1].ph # "none"
    BY DEF Local
  <2> QED BY <1>1, <1>2, <2>1, <2>2, <2>3 DEF RowsInOrder
<1>5. RequestsKnown(f)'
  <2> SUFFICES ASSUME NEW b \in Attempts
               PROVE /\ att'[f][b].ph \in EarlyPhases => wire[f][b].st = "none"
                     /\ att'[f][b].ph \in Waiting => wire[f][b].st \in Answered
                     /\ wire[f][b].st \in Late =>
                          att'[f][b].ph \in Remembered \/ (Direct /\ dest[f] = "ours")
                     /\ wire[f][b].st \in Late /\ wire[f][b].to = "final" /\ wire[f][b].ow =>
                          \E c \in Attempts : c < b /\ att'[f][c].ph \in AbandonedPhases
    BY <1>2 DEF RequestsKnown
  <2>1. b > a => wire[f][b].st = "none"
    BY <1>2 DEF FileInv, RowsInOrder
  <2>2. \A c \in Attempts : c < a => att'[f][c].ph = att[f][c].ph
    BY <1>1 DEF Attempts
  <2>3. CASE b = a
    BY <1>1, <1>2, <2>2, <2>3 DEF FileInv, RequestsKnown, Attempts
  <2>4. CASE b < a
    <3>1. \A c \in Attempts : c < b => att'[f][c].ph = att[f][c].ph
      BY <1>1, <2>2, <2>4 DEF Attempts
    <3>2. att'[f][b].ph = att[f][b].ph
      BY <2>2, <2>4
    <3> QED BY <1>2, <3>1, <3>2 DEF FileInv, RequestsKnown
  <2>5. CASE b > a
    <3>1. wire[f][b].st = "none"
      BY <2>1, <2>5
    <3>2. att'[f][b].ph \notin Waiting
      <4>1. CASE b = a + 1
        BY <4>1 DEF Local, Waiting
      <4>2. CASE b # a + 1
        BY <1>2, <2>5, <4>2 DEF FileInv, RowsInOrder, Waiting
      <4> QED BY <4>1, <4>2
    <3> QED BY <3>1, <3>2 DEF Late
  <2> QED BY <1>1, <2>3, <2>4, <2>5 DEF Attempts
<1>6. EntryAgrees(f)'
  BY <1>3 DEF EntryAgrees, Local
<1> QED BY <1>3, <1>4, <1>5, <1>6 DEF FileInv

\* A step of the runner that begins one.
LEMMA BeginsKeeps ==
    ASSUME IInv, TypeOK', run.pc \in StepPCs, NEW f \in Files, F = f,
           UNCHANGED <<job, cancels, dest, wire>>, mem'.creds = mem.creds,
           FileInv(f)', \A g \in Files : g # f => ent'[g] = ent[g] /\ att'[g] = att[g],
           ent'[f].point = ent[f].point, ent'[f].timer \in {"none", ent[f].timer},
           ent'[f].ptries = ent[f].ptries, ent'[f].st \notin Success,
           run'.f = f, run'.point = run.point, run'.pc \in {"newEnt", "file"},
           run'.pc = "newEnt" => Phase(f)' = "prepared", Phase(f)' \in Local
    PROVE  IInv'
<1>1. run'.pc \notin JobPCs \cup BulkPCs \cup PointPCs
  BY DEF JobPCs, BulkPCs, PointPCs
<1>2. /\ Busy' \subseteq {f} /\ JobInv' /\ BulkInv' /\ PointInv'
  BY <1>1, StepOthers DEF JobPCs
<1>3. ASSUME NEW g \in Files, g # f
      PROVE  FileInv(g)'
  BY <1>3, FileKept, RowFields DEF IInv
<1>4. run.point /\ ~job.stop => ent[f].point /\ ent[f].ptries >= 1
  BY DEF IInv, Holder
<1>5. Holder'
  BY <1>1, <1>2, <1>4 DEF Holder, F, JobPCs, PointPCs
<1>6. PhaseAtStep' /\ RequestAtStep'
  BY DEF PhaseAtStep, RequestAtStep, StagePCs, UploadPCs, F, Local
<1> QED BY <1>2, <1>3, <1>5, <1>6 DEF IInv

LEMMA NewAttemptKeeps ==
    ASSUME IInv, NewAttempt
    PROVE  IInv'
<1>1. /\ run.pc = "new" /\ run.pc \in StepPCs
      /\ UNCHANGED <<job, mem, cancels, remote, budget>>
  BY DEF NewAttempt, Proceeds, At, StepPCs, PCs, JobPCs, BulkPCs
<1> PICK f \in Files : F = f
  BY <1>1, StepFile
<1>2. ent[f].at = 0 /\ ent[f] \in EntryRows /\ MaxAttempts \in Nat /\ 1 \in Attempts /\ 0 < MaxAttempts
  BY <1>1, StoreTypes, TransferAssumption DEF IInv, PhaseAtStep, EntRows, Attempts
<1>3. "none" \notin Remembered /\ Phase(f) = "none"
  BY <1>2 DEF Remembered, UnknownPhases, Waiting, AbandonedPhases, Phase, Row, NoAttempt
<1> DEFINE r == [NoAttempt EXCEPT !.ph = "prepared"]
           e == [ent[f] EXCEPT !.at = 1]
<1>4. r \in AttemptRows /\ r.ph = "prepared"
  BY DEF AttemptRows, NoAttempt, Phases, Local, Copies, Errors
<1>5. Written(f, 1, r)
  BY <1>2, StoreTypes DEF NewAttempt, AttRows, Written
<1>6. /\ e \in EntryRows /\ e.at = 1 /\ e.point = ent[f].point /\ e.ptries = ent[f].ptries
      /\ e.timer = ent[f].timer /\ e.st = ent[f].st
  BY <1>2 DEF EntryRows, Attempts
<1>7. EntryWritten(f, e)
  BY <1>2, StoreTypes DEF NewAttempt, EntRows, EntryRows, EntryWritten
<1> HIDE DEF r, e
<1>8. ent' \in EntRows /\ ent'[f] = e /\ \A g \in Files : g # f => ent'[g] = ent[g]
  BY <1>6, <1>7, EntryTo
<1>9. /\ att' \in AttRows /\ att'[f][1] = r
      /\ \A g \in Files, b \in Attempts : g # f \/ b # 1 => att'[g][b] = att[g][b]
  BY <1>2, <1>4, <1>5, StoreTypes DEF AttRows, Written
<1>10. \A g \in Files : g # f => att'[g] = att[g]
  BY <1>5, <1>2, StoreTypes DEF AttRows, Written
<1>11. /\ run' \in RunStates /\ run'.pc = "newEnt" /\ run'.f = f /\ run'.point = run.point
  BY RunGoes, StoreTypes DEF NewAttempt, F, PCs
<1>12. TypeOK'
  BY <1>1, <1>8, <1>9, <1>11, StoreTypes, TypeStep
<1>13. ent[f].point => ent[f].timer = "none"
  BY <1>1 DEF IInv, PointInv
<1>14. ent[f].st \notin Success
  BY <1>1, StepFile DEF IInv, PhaseAtStep
<1>15. FileInv(f)' /\ Phase(f)' \in Local /\ Row(f)' = r
  BY <1>1, <1>2, <1>4, <1>6, <1>8, <1>9, <1>13, <1>14, BegunFile DEF remote, Local
<1>16. Phase(f)' = "prepared"
  BY <1>4, <1>15 DEF Phase
<1> QED BY <1>1, <1>6, <1>8, <1>10, <1>11, <1>12, <1>14, <1>15, <1>16, BeginsKeeps DEF remote

LEMMA NewPointAttemptKeeps ==
    ASSUME IInv, NewPointAttempt
    PROVE  IInv'
<1>1. /\ run.pc = "ptnew" /\ run.pc \in StepPCs /\ run.point
      /\ UNCHANGED <<job, mem, cancels, remote, budget>>
  BY DEF NewPointAttempt, Proceeds, At, StepPCs, PCs, JobPCs, BulkPCs, IInv, Holder, PointPCs
<1> PICK f \in Files : F = f
  BY <1>1, StepFile
<1> PICK a \in 0..MaxAttempts : a = ent[f].at
  BY RowFields DEF IInv
<1> DEFINE reuse == Row(f).copy = "full"
           row == [NoAttempt EXCEPT !.ph = IF reuse THEN "staged" ELSE "prepared",
                                    !.copy = IF reuse THEN "full" ELSE "none"]
           old == [Row(f) EXCEPT !.ph = IF @ = "failed" THEN @ ELSE AbandonedAs(@),
                                 !.err = "none", !.copy = IF reuse THEN "none" ELSE @]
           e == [ent[f] EXCEPT !.at = a + 1, !.st = "transferring", !.dls = 0, !.timer = "none"]
<1>2. CASE /\ (a > 0 => Phase(f) \in PointRetryPhases)
           /\ a < MaxAttempts
           /\ att' = [att EXCEPT ![f] = [b \in Attempts |->
                 CASE b = a + 1 -> row [] b = a -> old [] OTHER -> @[b]]]
           /\ ent' = [ent EXCEPT ![f].at = a + 1, ![f].st = "transferring",
                                 ![f].dls = 0, ![f].timer = "none"]
           /\ Go("file")
  <2>1. /\ ent[f] \in EntryRows /\ a \in 0..MaxAttempts /\ MaxAttempts \in Nat
        /\ a + 1 \in Attempts /\ a + 1 \in 0..MaxAttempts /\ Row(f) \in AttemptRows
        /\ (a > 0 => a \in Attempts /\ Row(f) = att[f][a])
    BY <1>2, StoreTypes, RowFields, TransferAssumption DEF EntRows, EntryRows, Attempts, IInv
  <2>2. row \in AttemptRows /\ row.ph \in Local
    BY DEF AttemptRows, NoAttempt, Phases, Local, Copies, Errors
  <2>3. AbandonedAs(Phase(f)) \in AbandonedPhases
    BY DEF AbandonedAs, AbandonedPhases
  <2>4. old \in AttemptRows /\ old.ph = (IF Phase(f) = "failed" THEN "failed" ELSE AbandonedAs(Phase(f)))
    BY <2>1, <2>3 DEF AttemptRows, Phases, AbandonedPhases, Phase, Copies
  <2>5. /\ e \in EntryRows /\ e.at = a + 1 /\ e.point = ent[f].point /\ e.ptries = ent[f].ptries
        /\ e.timer = "none" /\ e.st = "transferring"
    <3>1. 0 \in 0..MaxDownloads /\ "transferring" \in EntryStates
      BY TransferAssumption DEF EntryStates, Active
    <3> QED BY <2>1, <3>1 DEF EntryRows
  <2>6. EntryWritten(f, e)
    BY <1>2, <2>1, StoreTypes DEF EntRows, EntryRows, EntryWritten
  <2> HIDE DEF row, old, e
  <2>7. ent' \in EntRows /\ ent'[f] = e /\ \A g \in Files : g # f => ent'[g] = ent[g]
    BY <2>5, <2>6, EntryTo
  <2>8. /\ att'[f][a + 1] = row /\ (a > 0 => att'[f][a] = old)
        /\ \A b \in Attempts : b # a /\ b # a + 1 => att'[f][b] = att[f][b]
        /\ \A g \in Files : g # f => att'[g] = att[g]
    BY <1>2, <2>1, StoreTypes DEF AttRows
  <2>9. att' \in AttRows
    BY <1>2, <2>1, <2>2, <2>4, StoreTypes DEF AttRows
  <2>10. /\ run' \in RunStates /\ run'.pc = "file" /\ run'.f = f /\ run'.point = run.point
    BY <1>2, RunGoes, StoreTypes DEF F, PCs
  <2>11. TypeOK'
    BY <1>1, <2>7, <2>9, <2>10, StoreTypes, TypeStep
  <2>12. FileInv(f) /\ "transferring" \notin Success
    BY DEF IInv, Success
  <2>13. a > 0 => old.ph \in {"failed"} \cup AbandonedPhases
    BY <2>3, <2>4
  <2>14. a > 0 => (wire[f][a].st \in Late => old.ph \in Remembered \/ (Direct /\ dest[f] = "ours"))
    BY <2>1, <2>3, <2>4, <2>12 DEF FileInv, RequestsKnown, Phase, Remembered, UnknownPhases,
       Waiting, AbandonedPhases
  <2>15. {"failed"} \cup AbandonedPhases \subseteq Phases \ (EarlyPhases \cup Waiting)
    BY DEF AbandonedPhases, EarlyPhases, Local, Waiting, Phases
  <2>16. a > 0 => /\ old.ph \in EarlyPhases => wire[f][a].st = "none"
                  /\ old.ph \in Waiting => wire[f][a].st \in Answered
                  /\ old.ph \in {"failed"} \cup AbandonedPhases
    BY <2>13, <2>15
  <2>17. /\ att'[f][a + 1].ph \in Local /\ (a > 0 => att'[f][a].ph = old.ph)
         /\ ent'[f].at = a + 1 /\ ent'[f].st \notin Success /\ ent'[f].timer = "none"
    BY <2>2, <2>5, <2>7, <2>8, <2>12
  <2>18. FileInv(f)' /\ Phase(f)' \in Local
    BY <1>1, <1>2, <2>8, <2>14, <2>16, <2>17, BegunFile DEF remote
  <2> QED BY <1>1, <2>5, <2>7, <2>8, <2>10, <2>11, <2>12, <2>18, BeginsKeeps DEF remote
<1>3. CASE Withdrawn
  <2>1. PICK x \in {"unknown", "fatal"} : Fail(x) /\ UNCHANGED <<ent, att>>
    BY <1>3 DEF Withdrawn
  <2> QED BY <1>1, <2>1, StillFails, StoreTypes DEF Errors
<1> QED BY <1>2, <1>3 DEF NewPointAttempt

----------------------------------------------------------------------------
(* The steps of Deliver. *)

\* The server refuses the upload for certain.
LEMMA RefusedKeeps ==
    ASSUME IInv, run.pc \in StepPCs, NEW x \in Errors, UploadRefused(x),
           ent[F].at > 0, wire[F][ent[F].at].st \notin Late,
           UNCHANGED <<job, ent, mem, cancels, remote, budget>>
    PROVE  IInv'
<1> PICK f \in Files : F = f /\ (~run.point => ent[f].st \notin Success)
  BY StepFile
<1> PICK a \in Attempts : a = ent[f].at /\ att[f][a] \in AttemptRows
  BY CurrentRow
<1> DEFINE r == [att[f][a] EXCEPT !.ph = "failed", !.err = x]
<1>1. r \in AttemptRows /\ r.ph = "failed"
  BY DEF AttemptRows, Phases
<1>2. Written(f, a, r)
  BY StoreTypes DEF UploadRefused, AttRows, Written
<1> HIDE DEF r
<1>3. EntryWritten(f, ent[f]) /\ ent[f] \in EntryRows
  BY EntryAsWas
<1>4. /\ att' \in AttRows /\ ent' \in EntRows /\ Stays(f, r.ph, ent[f].st)
  BY <1>1, <1>2, <1>3, StepWrites
<1>5. /\ run' \in RunStates /\ run'.pc = "err" /\ run'.f = f /\ run'.point = run.point
  BY RunFails, StoreTypes DEF F, UploadRefused
<1>6. TypeOK'
  BY <1>4, <1>5, StoreTypes, TypeStep
<1>7. FileInv(f) /\ "failed" \notin EarlyPhases \cup Waiting \cup Remembered \cup {"none"}
      /\ "failed" \in Resting
  BY DEF IInv, EarlyPhases, Local, Waiting, Remembered, UnknownPhases, AbandonedPhases, Resting
<1>8. Fits(f, r.ph, ent[f].st)
  BY <1>1, <1>7 DEF Fits, FileInv, EntryAgrees
<1> QED BY <1>1, <1>4, <1>5, <1>6, <1>7, <1>8, StepFails

LEMMA OverwriteNeedsAbandoned ==
    ASSUME IInv, NEW f \in Files, Phase(f) \in Local, PointOverwrite(f)
    PROVE  Direct /\ \E b \in Attempts : b < ent[f].at /\ att[f][b].ph \in AbandonedPhases
<1>1. PICK b \in Attempts : /\ b # ent[f].at \/ job.origin = <<f, b>>
                            /\ att[f][b].ph \in {"abandoned_transfer", "unknown_transfer",
                                                 "transfer_intent", "waiting_transfer"}
  BY DEF PointOverwrite
<1>2. Direct /\ FileInv(f)
  BY DEF PointOverwrite, IInv
<1>3. b # ent[f].at
  BY <1>1, QuietRow DEF Local
<1>4. ~(b > ent[f].at)
  BY <1>1, <1>2 DEF FileInv, RowsInOrder
<1>5. b < ent[f].at
  BY <1>3, <1>4, QuietRow DEF Attempts
<1>6. att[f][b].ph \in {"failed"} \cup AbandonedPhases
  BY <1>2, <1>5 DEF FileInv, RowsInOrder
<1> QED BY <1>1, <1>2, <1>5, <1>6 DEF AbandonedPhases

LEMMA GetUploadUrlKeeps ==
    ASSUME IInv, GetUploadUrl
    PROVE  IInv'
<1>1. /\ run.pc = "geturl" /\ run.pc \in StepPCs /\ run.pc \in UploadPCs
      /\ UNCHANGED <<job, ent, mem, cancels, remote, budget>>
  BY DEF GetUploadUrl, Proceeds, At, StepPCs, PCs, JobPCs, BulkPCs, UploadPCs, StagePCs
<1> PICK f \in Files : F = f
  BY <1>1, StepFile
<1>2. Phase(f) \in Local
  BY <1>1 DEF IInv, PhaseAtStep, StagePCs
<1>3. /\ ent[f].at > 0 /\ wire[f][ent[f].at].st \notin Late /\ Phase(f) \notin Remembered
      /\ ent[f].st \notin Success
  BY <1>2, QuietRow DEF Late
<1>4. CASE /\ \E op \in BOOLEAN :
                 run' = [run EXCEPT !.pc = "intent", !.ow = PointOverwrite(f), !.op = op]
           /\ UNCHANGED att
  <2>1. PICK op \in BOOLEAN : run' = [run EXCEPT !.pc = "intent", !.ow = PointOverwrite(f), !.op = op]
    BY <1>4
  <2> DEFINE ow == PointOverwrite(f)
  <2>2. ow \in BOOLEAN
    BY DEF PointOverwrite
  <2> HIDE DEF ow
  <2>3. run' = [run EXCEPT !.pc = "intent", !.ow = ow, !.op = op]
    BY <2>1 DEF ow
  <2>4. /\ run' \in RunStates /\ run'.pc = "intent" /\ run'.f = f /\ run'.point = run.point
        /\ run'.ow = ow
    BY <2>2, <2>3, StoreTypes DEF F, PCs, RunStates
  <2>5. TypeOK'
    BY <1>1, <1>4, <2>4, StoreTypes, TypeStep
  <2>6. Stays(f, Phase(f), ent[f].st) /\ Fits(f, Phase(f), ent[f].st)
    BY <1>1, <1>4, Still DEF remote
  <2>7. OnlyPhase(f, Phase(f))
    BY <2>6 DEF Stays
  <2>8. Direct' => \A b \in Attempts : wire'[f][b].st \in Late => att'[f][b].ph \in Remembered
    BY <1>1, <1>2, <2>7, UploadKept
  <2>9. ow => \E b \in Attempts : b < ent'[f].at /\ att'[f][b].ph \in AbandonedPhases
    BY <1>1, <1>2, <1>4, OverwriteNeedsAbandoned DEF ow
  <2>10. Phase(f)' = Phase(f) => PhaseAtStep' /\ RequestAtStep'
    BY <1>2, <2>4, <2>8, <2>9 DEF PhaseAtStep, RequestAtStep, StagePCs, UploadPCs, F
  <2>11. run'.pc \in StepPCs /\ run'.pc \notin PointPCs
    BY <2>4 DEF StepPCs, PCs, JobPCs, BulkPCs, PointPCs
  <2> QED BY <1>1, <1>3, <2>4, <2>5, <2>6, <2>10, <2>11, StepContinues
<1>5. CASE \E x \in {"conflict", "dest"} : UploadRefused(x)
  BY <1>1, <1>3, <1>5, RefusedKeeps DEF Errors
<1>6. CASE Fail("destAuth") /\ UNCHANGED att
  BY <1>1, <1>3, <1>6, StillFails, StoreTypes DEF Errors
<1> QED BY <1>4, <1>5, <1>6 DEF GetUploadUrl

LEMMA PersistIntentKeeps ==
    ASSUME IInv, PersistIntent
    PROVE  IInv'
<1>1. /\ run.pc = "intent" /\ run.pc \in StepPCs /\ run.pc \in UploadPCs
      /\ UNCHANGED <<job, ent, mem, cancels, remote, budget>>
  BY DEF PersistIntent, At, StepPCs, PCs, JobPCs, BulkPCs, UploadPCs, StagePCs
<1> PICK f \in Files : F = f
  BY <1>1, StepFile
<1>2. Phase(f) \in Local /\ run.op \in BOOLEAN
  BY <1>1, StoreTypes DEF IInv, PhaseAtStep, StagePCs, RunStates
<1> PICK a \in Attempts : /\ a = ent[f].at /\ a > 0 /\ att[f][a] \in AttemptRows
                          /\ wire[f][a].st = "none" /\ ent[f].st \notin Success
  BY <1>2, QuietRow
<1> DEFINE r == [att[f][a] EXCEPT !.ph = "transfer_intent", !.op = run.op]
<1>3. r \in AttemptRows /\ r.ph = "transfer_intent"
  BY <1>2 DEF AttemptRows, Phases, SideEffectPhases, UnknownPhases
<1>4. Written(f, a, r)
  BY StoreTypes DEF PersistIntent, AttRows, Written
<1> HIDE DEF r
<1>5. EntryWritten(f, ent[f]) /\ ent[f] \in EntryRows
  BY <1>1, EntryAsWas
<1>6. /\ att' \in AttRows /\ ent' \in EntRows /\ Stays(f, r.ph, ent[f].st)
      /\ att'[f][a] = r
  BY <1>1, <1>3, <1>4, <1>5, StepWrites
<1>7. Fits(f, r.ph, ent[f].st)
  BY <1>2, <1>3, QuietFits DEF Waiting
<1>8. CASE run' = Idle
  <2>1. TypeOK'
    BY <1>1, <1>6, <1>8, IdleState, StoreTypes, TypeStep
  <2> QED BY <1>1, <1>6, <1>7, <1>8, <2>1, StepReturns
<1>9. CASE Go("put")
  <2>1. /\ run' \in RunStates /\ run'.pc = "put" /\ run'.f = f /\ run'.point = run.point
        /\ run'.ow = run.ow
    BY <1>9, RunGoes, StoreTypes DEF F, PCs
  <2>2. TypeOK'
    BY <1>1, <1>6, <2>1, StoreTypes, TypeStep
  <2>3. OnlyPhase(f, "transfer_intent")
    BY <1>3, <1>6 DEF Stays
  <2>4. Direct' => \A b \in Attempts : wire'[f][b].st \in Late => att'[f][b].ph \in Remembered
    BY <1>1, <1>2, <2>3, UploadKept
  <2>5. run.ow => \E b \in Attempts : b < ent[f].at /\ att[f][b].ph \in AbandonedPhases
    BY <1>1 DEF IInv, RequestAtStep
  <2>6. run.ow => \E b \in Attempts : b < ent'[f].at /\ att'[f][b].ph \in AbandonedPhases
    BY <1>1, <2>3, <2>5 DEF OnlyPhase, Attempts
  <2>7. Phase(f)' = r.ph => PhaseAtStep' /\ RequestAtStep'
    BY <1>1, <1>3, <2>1, <2>4, <2>6 DEF PhaseAtStep, RequestAtStep, StagePCs, UploadPCs, F, remote, Late
  <2>8. run'.pc \in StepPCs /\ run'.pc \notin PointPCs
    BY <2>1 DEF StepPCs, PCs, JobPCs, BulkPCs, PointPCs
  <2> QED BY <1>1, <1>6, <1>7, <2>1, <2>2, <2>7, <2>8, StepContinues
<1> QED BY <1>8, <1>9 DEF PersistIntent

LEMMA RecordUploadKeeps ==
    ASSUME IInv, RecordUpload
    PROVE  IInv'
<1>1. /\ run.pc = "sent" /\ run.pc \in StepPCs
      /\ UNCHANGED <<job, mem, cancels, remote, budget>>
  BY DEF RecordUpload, At, StepPCs, PCs, JobPCs, BulkPCs
<1> PICK f \in Files : F = f
  BY <1>1, StepFile
<1>2. Phase(f) = "transfer_intent" /\ run.op \in BOOLEAN
  BY <1>1, StoreTypes DEF IInv, PhaseAtStep, RunStates
<1> PICK a \in Attempts : a = ent[f].at /\ a > 0 /\ att[f][a] \in AttemptRows
  BY <1>2, HasBegun, CurrentRow
<1>3. wire[f][a].st \in (IF run.op THEN Answered ELSE {"none"})
  BY <1>1 DEF IInv, RequestAtStep
<1> DEFINE p == IF run.op THEN "waiting_transfer" ELSE "verifying"
           s == IF run.op THEN "waiting_operation" ELSE "verifying"
           r == [att[f][a] EXCEPT !.ph = p, !.op = run.op]
           e == [ent[f] EXCEPT !.st = s]
<1>4. r \in AttemptRows /\ r.ph = p
  BY <1>2 DEF AttemptRows, Phases, SideEffectPhases, Waiting
<1>5. Written(f, a, r)
  BY StoreTypes DEF RecordUpload, AttRows, Written
<1>6. s \in EntryStates /\ s \notin Success /\ ent[f] \in EntryRows
  BY StoreTypes DEF EntryStates, Active, Success, EntRows
<1>7. /\ e \in EntryRows /\ e.at = a /\ e.point = ent[f].point /\ e.ptries = ent[f].ptries
      /\ e.timer = ent[f].timer /\ e.st = s
  BY <1>6 DEF EntryRows
<1>8. EntryWritten(f, e)
  BY StoreTypes DEF RecordUpload, SetEntry, EntRows, EntryRows, EntryWritten
<1>9. p \in Underway /\ run'.pc = After(p) /\ run' \in RunStates /\ run'.f = f /\ run'.point = run.point
  BY AfterIsStep, RunGoes, StoreTypes DEF RecordUpload, Underway, Waiting, F, StepPCs
<1>10. /\ p = "waiting_transfer" => wire[f][a].st \in Answered
       /\ p # "waiting_transfer" => p = "verifying" /\ wire[f][a].st = "none"
  BY <1>3
<1> HIDE DEF r, e, p, s
<1>11. /\ att' \in AttRows /\ ent' \in EntRows /\ Stays(f, p, s)
  BY <1>1, <1>4, <1>5, <1>7, <1>8, StepWrites
<1>12. TypeOK'
  BY <1>1, <1>9, <1>11, StoreTypes, TypeStep
<1>13. Fits(f, p, s)
  BY <1>6, <1>10 DEF Fits, EarlyPhases, Local, Waiting, Late, Remembered
<1>14. Phase(f)' = p => PhaseAtStep' /\ RequestAtStep'
  BY <1>1, <1>7, <1>9, <1>11, AfterFits DEF remote, Stays
<1> QED BY <1>1, <1>6, <1>9, <1>11, <1>12, <1>13, <1>14, AfterIsStep, StepContinues

LEMMA PollKeeps ==
    ASSUME IInv, Poll
    PROVE  IInv'
<1>1. run.pc = "poll" /\ run.pc \in StepPCs
  BY DEF Poll, Proceeds, At, StepPCs, PCs, JobPCs, BulkPCs
<1> PICK f \in Files : F = f
  BY <1>1, StepFile
<1>2. Phase(f) \in Waiting /\ FileInv(f)
  BY <1>1 DEF IInv, PhaseAtStep
<1>3. ent[f].at > 0 /\ ent[f].at \in Attempts /\ Phase(f) = att[f][ent[f].at].ph
  BY <1>2, HasBegun, CurrentRow DEF Waiting
<1>4. wire[f][ent[f].at].st \in Answered
  BY <1>2, <1>3 DEF FileInv, RequestsKnown
<1>5. CASE /\ mem' = [mem EXCEPT !.outage = FALSE] /\ wire[f][ent[f].at].st = "op" /\ Return
           /\ UNCHANGED <<store, cancels, remote, budget>>
  <2>1. mem' \in Mems /\ mem'.creds = mem.creds
    BY <1>5, StoreTypes DEF Mems
  <2> QED BY <1>1, <1>5, <2>1, StillReturns DEF store
<1>6. CASE /\ mem' = [mem EXCEPT !.outage = FALSE] /\ wire[f][ent[f].at].st # "op" /\ Go("polled")
           /\ UNCHANGED <<store, cancels, remote, budget>>
  <2>1. mem' \in Mems /\ mem'.creds = mem.creds
    BY <1>6, StoreTypes DEF Mems
  <2>2. "polled" \in StepPCs /\ "polled" \notin PointPCs
    BY DEF StepPCs, PCs, JobPCs, BulkPCs, PointPCs
  <2>3. run'.pc = "polled" /\ run'.f = f /\ Phase(f)' = Phase(f) => PhaseAtStep' /\ RequestAtStep'
    BY <1>2, <1>4, <1>6 DEF PhaseAtStep, RequestAtStep, StagePCs, UploadPCs, F, store, remote, Answered
  <2> QED BY <1>1, <1>6, <2>1, <2>2, <2>3, StillGoes DEF store
<1>7. CASE ReadFails(DestinationErrors)
  BY <1>1, <1>7, ReadFailsKeeps DEF DestinationErrors, Errors
<1> QED BY <1>5, <1>6, <1>7 DEF Poll

LEMMA PolledKeeps ==
    ASSUME IInv, Polled
    PROVE  IInv'
<1>1. /\ run.pc = "polled" /\ run.pc \in StepPCs
      /\ UNCHANGED <<job, ent, mem, cancels, remote, budget>>
  BY DEF Polled, At, StepPCs, PCs, JobPCs, BulkPCs
<1> PICK f \in Files : F = f
  BY <1>1, StepFile
<1>2. Phase(f) \in Waiting /\ FileInv(f)
  BY <1>1 DEF IInv, PhaseAtStep
<1> PICK a \in Attempts : a = ent[f].at /\ a > 0 /\ att[f][a] \in AttemptRows /\ Phase(f) = att[f][a].ph
  BY <1>2, HasBegun, CurrentRow DEF Waiting
<1>3. wire[f][a].st \in {"opdone", "opfailed"}
  BY <1>1 DEF IInv, RequestAtStep
<1>4. ent[f].st \notin Success /\ "opdone" \notin Late /\ "opfailed" \notin Late
  BY <1>2 DEF FileInv, EntryAgrees, Resting, AbandonedPhases, Waiting, Late
<1> DEFINE p == IF Phase(f) = "waiting_transfer" THEN "verifying" ELSE "verifying_final"
<1>5. CASE /\ att' = [att EXCEPT ![f][a].ph = p, ![f][a].op = @ /\ job.stop]
           /\ Go(After(p))
  <2> DEFINE r == [att[f][a] EXCEPT !.ph = p, !.op = @ /\ job.stop]
  <2>1. r \in AttemptRows /\ r.ph = p
    <3>1. (att[f][a].op /\ job.stop) \in BOOLEAN
      OBVIOUS
    <3>2. p \in Phases
      BY DEF Phases, SideEffectPhases
    <3> HIDE DEF p
    <3> QED BY <3>1, <3>2 DEF AttemptRows
  <2>2. Written(f, a, r)
    BY <1>5, StoreTypes DEF AttRows, Written
  <2>3. p \in Underway /\ p \in {"verifying", "verifying_final"}
    BY DEF Underway
  <2> HIDE DEF r, p
  <2>4. run'.pc = After(p) /\ run' \in RunStates /\ run'.f = f /\ run'.point = run.point
    BY <1>5, AfterIsStep, RunGoes, StoreTypes DEF F, StepPCs
  <2>5. EntryWritten(f, ent[f]) /\ ent[f] \in EntryRows
    BY <1>1, EntryAsWas
  <2>6. /\ att' \in AttRows /\ ent' \in EntRows /\ Stays(f, p, ent[f].st)
    BY <1>1, <2>1, <2>2, <2>5, StepWrites
  <2>7. TypeOK'
    BY <1>1, <2>4, <2>6, StoreTypes, TypeStep
  <2>8. Fits(f, p, ent[f].st)
    BY <1>3, <1>4, <2>3 DEF Fits, EarlyPhases, Local, Waiting
  <2>9. Phase(f)' = p => PhaseAtStep' /\ RequestAtStep'
    BY <1>1, <2>3, <2>4, AfterFits DEF remote
  <2> QED BY <1>1, <1>4, <2>4, <2>6, <2>7, <2>8, <2>9, AfterIsStep, StepContinues
<1>6. CASE UNCHANGED att /\ run' = [run EXCEPT !.pc = "f1", !.err = "rejected", !.point = FALSE]
  <2>1. run' \in RunStates /\ run'.pc = "f1" /\ run'.f = f /\ ~run'.point
    BY <1>6, StoreTypes DEF F, PCs, RunStates, Errors
  <2>2. TypeOK'
    BY <1>1, <1>6, <2>1, StoreTypes, TypeStep
  <2>3. Stays(f, Phase(f), ent[f].st) /\ Fits(f, Phase(f), ent[f].st)
    BY <1>1, <1>6, Still DEF remote
  <2> QED BY <1>1, <1>3, <1>4, <2>1, <2>2, <2>3, StepFails
<1>7. CASE UNCHANGED att /\ Fail("rejected")
  <2>1. run' \in RunStates /\ run'.pc = "err" /\ run'.f = f /\ run'.point = run.point
    BY <1>7, RunFails, StoreTypes DEF F, Errors
  <2>2. TypeOK'
    BY <1>1, <1>7, <2>1, StoreTypes, TypeStep
  <2>3. Stays(f, Phase(f), ent[f].st) /\ Fits(f, Phase(f), ent[f].st)
    BY <1>1, <1>7, Still DEF remote
  <2> QED BY <1>1, <1>3, <1>4, <2>1, <2>2, <2>3, StepFails
<1> QED BY <1>5, <1>6, <1>7 DEF Polled

\* An attempt between its write and its success: whatever of it is still under
\* way, the plan's file is there.
LEMMA WrittenRow ==
    ASSUME IInv, NEW f \in Files, Phase(f) \in {"verifying", "verifying_final", "succeeded"}
    PROVE  /\ ent[f].at > 0 /\ ent[f].at \in Attempts /\ att[f][ent[f].at] \in AttemptRows
           /\ Phase(f) = att[f][ent[f].at].ph /\ Phase(f) \notin Remembered \cup {"none"}
           /\ wire[f][ent[f].at].st \in Late => Direct /\ dest[f] = "ours"
           /\ ent[f].st \in Success => Phase(f) = "succeeded" /\ dest[f] = "ours"
<1>1. Phase(f) \notin Remembered \cup {"none"} /\ FileInv(f)
  BY DEF Remembered, UnknownPhases, Waiting, AbandonedPhases, IInv
<1>2. /\ ent[f].at > 0 /\ ent[f].at \in Attempts /\ att[f][ent[f].at] \in AttemptRows
      /\ Phase(f) = att[f][ent[f].at].ph
  BY <1>1, HasBegun, CurrentRow
<1>3. wire[f][ent[f].at].st \in Late => Direct /\ dest[f] = "ours"
  BY <1>1, <1>2 DEF FileInv, RequestsKnown
<1>4. ent[f].st \in Success => Phase(f) = "succeeded" /\ dest[f] = "ours"
  BY <1>1 DEF FileInv, EntryAgrees, Resting, AbandonedPhases
<1> QED BY <1>1, <1>2, <1>3, <1>4

\* Only the phase moves on.
LEMMA PhaseStep ==
    ASSUME IInv, run.pc \in StepPCs, NEW f \in Files, F = f, NEW p \in Phases,
           Phase(f) # "none", SetPhase(f, p), NEW q \in StepPCs, q \notin PointPCs, Go(q),
           UNCHANGED <<job, ent, mem, cancels, remote, budget>>,
           Fits(f, p, ent[f].st),
           Phase(f)' = p /\ run'.pc = q /\ run'.f = f => PhaseAtStep' /\ RequestAtStep'
    PROVE  IInv'
<1>1. ent[f].at > 0
  BY HasBegun
<1>2. att' \in AttRows /\ OnlyPhase(f, p)
  BY <1>1, PhaseSet
<1>3. Stays(f, p, ent[f].st)
  BY <1>2 DEF Stays, remote
<1>4. /\ run' \in RunStates /\ run'.pc = q /\ run'.f = f /\ run'.point = run.point
  BY RunGoes, StoreTypes DEF F, StepPCs
<1>5. TypeOK'
  BY <1>2, <1>4, StoreTypes, TypeStep
<1>6. ent[f].st \in Success => run.point
  BY StepFile
<1> QED BY <1>3, <1>4, <1>5, <1>6, StepContinues

LEMMA EnterFinalKeeps ==
    ASSUME IInv, EnterFinal
    PROVE  IInv'
<1>1. /\ run.pc = "dfinal" /\ run.pc \in StepPCs /\ SetPhase(F, "verifying_final") /\ Go("final")
      /\ UNCHANGED <<job, ent, mem, cancels, remote, budget>>
  BY DEF EnterFinal, Proceeds, At, StepPCs, PCs, JobPCs, BulkPCs
<1> PICK f \in Files : F = f
  BY <1>1, StepFile
<1>2. Phase(f) = "verifying"
  BY <1>1 DEF IInv, PhaseAtStep
<1>3. "verifying_final" \in Phases /\ "final" \in StepPCs /\ "final" \notin PointPCs
  BY DEF Phases, SideEffectPhases, StepPCs, PCs, JobPCs, BulkPCs, PointPCs
<1>4. Fits(f, "verifying_final", ent[f].st)
  BY <1>2, WrittenRow DEF Fits, EarlyPhases, Local, Waiting
<1>5. run'.pc = "final" /\ run'.f = f /\ Phase(f)' = "verifying_final" => PhaseAtStep' /\ RequestAtStep'
  BY DEF PhaseAtStep, RequestAtStep, StagePCs, UploadPCs, F
<1> QED BY <1>1, <1>2, <1>3, <1>4, <1>5, PhaseStep

LEMMA VerifyKeeps ==
    ASSUME IInv, NEW pc \in {"verify", "final"}, NEW STATE content, NEW next,
           Verify(pc, content, next),
           pc = "verify" => next = "mkmove",
           pc = "final" => next = "succ" /\ content = dest[F]
    PROVE  IInv'
<1>1. run.pc = pc /\ run.pc \in StepPCs
  BY DEF Verify, Proceeds, At, StepPCs, PCs, JobPCs, BulkPCs
<1> PICK f \in Files : F = f
  BY <1>1, StepFile
<1>2. Phase(f) \in {"verifying", "verifying_final", "succeeded"}
  BY <1>1 DEF IInv, PhaseAtStep
<1>3. Phase(f) \notin Remembered \cup {"none"}
  BY <1>2, WrittenRow
<1>4. CASE Unverifiable /\ UNCHANGED <<job, mem, cancels, remote, budget>>
  BY <1>1, <1>3, <1>4, GivesUpKeeps DEF Unverifiable, AttemptFails, EntryStates, Success, Active
<1>5. CASE Matching(content) /\ Go(next) /\ UNCHANGED <<job, ent, att, mem, cancels, remote, budget>>
  <2>1. next \in StepPCs /\ next \notin PointPCs /\ next \in {"mkmove", "succ"}
    BY DEF StepPCs, PCs, JobPCs, BulkPCs, PointPCs
  <2>2. CASE pc = "verify"
    <3>1. Phase(f) = "verifying" /\ ~Direct
      BY <1>1, <2>2 DEF IInv, PhaseAtStep
    <3>2. run'.pc = "mkmove" /\ run'.f = f /\ Phase(f)' = Phase(f) => PhaseAtStep' /\ RequestAtStep'
      BY <1>5, <3>1 DEF PhaseAtStep, RequestAtStep, StagePCs, UploadPCs, F, Direct
    <3> QED BY <1>1, <1>5, <2>1, <2>2, <3>2, StillGoes, StoreTypes
  <2>3. CASE pc = "final"
    <3>1. Phase(f) \in {"verifying_final", "succeeded"} /\ dest[f] = "ours"
      BY <1>1, <1>5, <2>3 DEF IInv, PhaseAtStep, Matching
    <3>2. run'.pc = "succ" /\ run'.f = f /\ Phase(f)' = Phase(f) => PhaseAtStep' /\ RequestAtStep'
      BY <1>5, <3>1 DEF PhaseAtStep, RequestAtStep, StagePCs, UploadPCs, F, remote
    <3> QED BY <1>1, <1>5, <2>1, <2>3, <3>2, StillGoes, StoreTypes
  <2> QED BY <2>2, <2>3
<1>6. CASE SourceChanged /\ UNCHANGED <<job, mem, cancels, remote, budget>>
  BY <1>1, <1>3, <1>6, GivesUpKeeps DEF SourceChanged, AttemptFails, EntryStates, Success, Active
<1>7. CASE Fail("fatal") /\ UNCHANGED <<job, ent, att, mem, cancels, remote, budget>>
  BY <1>1, <1>3, <1>7, StillFails, StoreTypes DEF Errors
<1>8. CASE ReadFails(DestinationErrors \cup SourceErrors)
  BY <1>1, <1>3, <1>8, ReadFailsKeeps DEF DestinationErrors, SourceErrors, Errors
<1> QED BY <1>4, <1>5, <1>6, <1>7, <1>8 DEF Verify

LEMMA PersistMoveKeeps ==
    ASSUME IInv, PersistMove
    PROVE  IInv'
<1>1. run.pc = "mkmove" /\ run.pc \in StepPCs
  BY DEF PersistMove, Proceeds, At, StepPCs, PCs, JobPCs, BulkPCs
<1> PICK f \in Files : F = f
  BY <1>1, StepFile
<1>2. Phase(f) = "verifying" /\ ~Direct
  BY <1>1 DEF IInv, PhaseAtStep
<1>3. /\ ent[f].at > 0 /\ Phase(f) \notin Remembered /\ wire[f][ent[f].at].st \notin Late
      /\ ent[f].st \notin Success
  BY <1>2, WrittenRow
<1>4. CASE /\ SetPhase(f, "move_intent") /\ SetEntry(f, "committing")
           /\ run' = [run EXCEPT !.pc = "move", !.ow = FALSE]
           /\ UNCHANGED <<job, mem, cancels, remote, budget>>
  <2>1. att' \in AttRows /\ OnlyPhase(f, "move_intent")
    BY <1>3, <1>4, PhaseSet DEF Phases, SideEffectPhases, UnknownPhases
  <2>2. /\ ent' \in EntRows
        /\ \A g \in Files : g # f => ent'[g] = ent[g]
        /\ ent'[f].at = ent[f].at /\ ent'[f].point = ent[f].point /\ ent'[f].st = "committing"
        /\ ent'[f].timer = ent[f].timer /\ ent'[f].ptries = ent[f].ptries
    BY <1>4, StoreTypes DEF SetEntry, EntRows, EntryRows, EntryStates, Active
  <2>3. Stays(f, "move_intent", "committing")
    BY <1>4, <2>1, <2>2 DEF Stays, remote
  <2>4. Fits(f, "move_intent", "committing") /\ "committing" \notin Success
    BY <1>3 DEF Fits, EarlyPhases, Local, Waiting, Success
  <2>5. run' \in RunStates /\ run'.pc = "move" /\ run'.f = f /\ run'.point = run.point
    BY <1>4, StoreTypes DEF F, PCs, RunStates
  <2>6. TypeOK'
    BY <1>4, <2>1, <2>2, <2>5, StoreTypes, TypeStep
  <2>7. run'.pc \in StepPCs /\ run'.pc \notin PointPCs
    BY <2>5 DEF StepPCs, PCs, JobPCs, BulkPCs, PointPCs
  <2>8. Phase(f)' = "move_intent" => PhaseAtStep' /\ RequestAtStep'
    BY <1>2, <1>3, <1>4, <2>2, <2>5 DEF PhaseAtStep, RequestAtStep, StagePCs, UploadPCs, F, remote, Direct
  <2> QED BY <1>1, <2>3, <2>4, <2>5, <2>6, <2>7, <2>8, StepContinues
<1>5. CASE ReadFails(DestinationErrors)
  BY <1>1, <1>5, ReadFailsKeeps DEF DestinationErrors, Errors
<1> QED BY <1>4, <1>5 DEF PersistMove

LEMMA RecordMoveKeeps ==
    ASSUME IInv, RecordMove
    PROVE  IInv'
<1>1. /\ run.pc = "moved" /\ run.pc \in StepPCs
      /\ UNCHANGED <<job, ent, mem, cancels, remote, budget>>
  BY DEF RecordMove, At, StepPCs, PCs, JobPCs, BulkPCs
<1> PICK f \in Files : F = f
  BY <1>1, StepFile
<1>2. Phase(f) = "move_intent" /\ run.op \in BOOLEAN /\ FileInv(f)
  BY <1>1, StoreTypes DEF IInv, PhaseAtStep, RunStates
<1> PICK a \in Attempts : a = ent[f].at /\ a > 0 /\ att[f][a] \in AttemptRows
  BY <1>2, HasBegun, CurrentRow
<1>3. wire[f][a].st \in (IF run.op THEN Answered ELSE {"none"})
  BY <1>1 DEF IInv, RequestAtStep
<1>4. ent[f].st \notin Success
  BY <1>2 DEF FileInv, EntryAgrees, Resting, AbandonedPhases
<1> DEFINE p == IF run.op THEN "waiting_move" ELSE "verifying_final"
           r == [att[f][a] EXCEPT !.ph = p, !.op = run.op]
<1>5. r \in AttemptRows /\ r.ph = p
  BY <1>2 DEF AttemptRows, Phases, SideEffectPhases, Waiting
<1>6. Written(f, a, r)
  BY StoreTypes DEF RecordMove, AttRows, Written
<1>7. /\ p = "waiting_move" => wire[f][a].st \in Answered
      /\ p # "waiting_move" => p = "verifying_final" /\ wire[f][a].st = "none"
      /\ ~run.op => p = "verifying_final"
  BY <1>3
<1> HIDE DEF r, p
<1>8. EntryWritten(f, ent[f]) /\ ent[f] \in EntryRows
  BY <1>1, EntryAsWas
<1>9. /\ att' \in AttRows /\ ent' \in EntRows /\ Stays(f, p, ent[f].st)
  BY <1>1, <1>5, <1>6, <1>8, StepWrites
<1>10. Fits(f, p, ent[f].st)
  BY <1>4, <1>7 DEF Fits, EarlyPhases, Local, Waiting, Late, Remembered
<1>11. run' \in RunStates
  BY IdleState, RunReturns, RunGoes, StoreTypes DEF RecordMove, PCs
<1>12. TypeOK'
  BY <1>1, <1>9, <1>11, StoreTypes, TypeStep
<1>13. CASE run' = Idle
  BY <1>1, <1>9, <1>10, <1>12, <1>13, StepReturns
<1>14. CASE Return
  BY <1>1, <1>9, <1>10, <1>12, <1>14, StepIsOver
<1>15. CASE Go("final") /\ ~run.op
  <2>1. run'.pc = "final" /\ run'.f = f /\ run'.point = run.point
    BY <1>15, RunGoes, StoreTypes DEF F, PCs
  <2>2. "final" \in StepPCs /\ "final" \notin PointPCs
    BY DEF StepPCs, PCs, JobPCs, BulkPCs, PointPCs
  <2>3. Phase(f)' = p => PhaseAtStep' /\ RequestAtStep'
    BY <1>7, <1>15, <2>1 DEF PhaseAtStep, RequestAtStep, StagePCs, UploadPCs, F
  <2> QED BY <1>1, <1>4, <1>9, <1>10, <1>12, <2>1, <2>2, <2>3, StepContinues
<1> QED BY <1>13, <1>14, <1>15 DEF RecordMove

LEMMA SucceedKeeps ==
    ASSUME IInv, Succeed
    PROVE  IInv'
<1>1. /\ run.pc = "succ" /\ run.pc \in StepPCs /\ Go("doneW")
      /\ UNCHANGED <<job, ent, mem, cancels, remote, budget>>
  BY DEF Succeed, At, StepPCs, PCs, JobPCs, BulkPCs
<1> PICK f \in Files : F = f /\ (~run.point => ent[f].st \notin Success)
  BY <1>1, StepFile
<1>2. Phase(f) \in {"verifying_final", "succeeded"} /\ dest[f] = "ours"
  BY <1>1 DEF IInv, PhaseAtStep
<1> PICK a \in Attempts : /\ a = ent[f].at /\ a > 0 /\ att[f][a] \in AttemptRows
                          /\ (wire[f][a].st \in Late => Direct)
  BY <1>2, WrittenRow
<1> DEFINE r == [att[f][a] EXCEPT !.ph = "succeeded", !.err = "none"]
<1>3. r \in AttemptRows /\ r.ph = "succeeded"
  BY DEF AttemptRows, Phases
<1>4. Written(f, a, r)
  BY StoreTypes DEF Succeed, AttRows, Written
<1> HIDE DEF r
<1>5. EntryWritten(f, ent[f]) /\ ent[f] \in EntryRows
  BY <1>1, EntryAsWas
<1>6. /\ att' \in AttRows /\ ent' \in EntRows /\ Stays(f, "succeeded", ent[f].st)
  BY <1>1, <1>3, <1>4, <1>5, StepWrites
<1>7. Fits(f, "succeeded", ent[f].st)
  BY <1>2 DEF Fits, EarlyPhases, Local, Waiting, Resting
<1>8. /\ run' \in RunStates /\ run'.pc = "doneW" /\ run'.f = f /\ run'.point = run.point
  BY <1>1, RunGoes, StoreTypes DEF F, PCs
<1>9. TypeOK'
  BY <1>1, <1>6, <1>8, StoreTypes, TypeStep
<1>10. "doneW" \in StepPCs /\ "doneW" \notin PointPCs
  BY DEF StepPCs, PCs, JobPCs, BulkPCs, PointPCs
<1>11. Phase(f)' = "succeeded" => PhaseAtStep' /\ RequestAtStep'
  BY <1>1, <1>2, <1>8 DEF PhaseAtStep, RequestAtStep, StagePCs, UploadPCs, F, remote
<1> QED BY <1>1, <1>6, <1>7, <1>8, <1>9, <1>10, <1>11, StepContinues

\* The cleanup takes copies away and leaves the phases alone.
LEMMA CleanedRows ==
    ASSUME NEW rows \in AttRows, NEW entries
    PROVE  /\ Cleaned(rows, entries) \in AttRows
           /\ \A f \in Files, a \in Attempts :
                /\ Cleaned(rows, entries)[f][a].ph = rows[f][a].ph
                /\ Cleaned(rows, entries)[f][a].copy \in {"none", rows[f][a].copy}
<1> DEFINE row(f, a) == Cleaned(rows, entries)[f][a]
<1>1. ASSUME NEW f \in Files, NEW a \in Attempts
      PROVE  /\ row(f, a) \in AttemptRows
             /\ row(f, a).ph = rows[f][a].ph
             /\ row(f, a).copy \in {"none", rows[f][a].copy}
  <2>1. rows[f][a] \in AttemptRows
    BY DEF AttRows
  <2>2. [rows[f][a] EXCEPT !.copy = "none"] \in AttemptRows
    BY <2>1 DEF AttemptRows, Copies
  <2>3. row(f, a) \in {rows[f][a], [rows[f][a] EXCEPT !.copy = "none"]}
    BY DEF Cleaned
  <2> QED BY <2>1, <2>2, <2>3 DEF AttemptRows
<1>2. Cleaned(rows, entries) = [f \in Files |-> [a \in Attempts |-> row(f, a)]]
  BY DEF Cleaned
<1> HIDE DEF row
<1>3. Cleaned(rows, entries) \in AttRows
  BY <1>1, <1>2 DEF AttRows
<1> QED BY <1>1, <1>3 DEF row

LEMMA FinishEntryKeeps ==
    ASSUME IInv, FinishEntry
    PROVE  IInv'
<1>1. /\ run.pc = "doneW" /\ run.pc \in StepPCs /\ Return
      /\ UNCHANGED <<job, mem, cancels, remote, budget>>
  BY DEF FinishEntry, At, StepPCs, PCs, JobPCs, BulkPCs
<1> PICK f \in Files : F = f
  BY <1>1, StepFile
<1>2. Phase(f) = "succeeded" /\ dest[f] = "ours" /\ FileInv(f)
  BY <1>1 DEF IInv, PhaseAtStep
<1>3. /\ ent[f].at \in Attempts /\ ent[f].at > 0 /\ Phase(f) = att[f][ent[f].at].ph
      /\ (wire[f][ent[f].at].st \in Late => Direct)
  BY <1>2, WrittenRow
<1>4. /\ ent' \in EntRows
      /\ \A g \in Files : g # f => ent'[g] = ent[g]
      /\ ent'[f].at = ent[f].at /\ ent'[f].point = ent[f].point /\ ent'[f].st = "done"
      /\ ent'[f].timer = "none" /\ ent'[f].ptries = ent[f].ptries
  BY StoreTypes DEF FinishEntry, EntRows, EntryRows, EntryStates, Success
<1>5. /\ att' \in AttRows
      /\ \A g \in Files, b \in Attempts : /\ att'[g][b].ph = att[g][b].ph
                                          /\ att'[g][b].copy \in {"none", att[g][b].copy}
  BY CleanedRows, StoreTypes DEF FinishEntry
<1>6. OnlyPhase(f, "succeeded")
  BY <1>2, <1>3, <1>5 DEF OnlyPhase
<1>7. Stays(f, "succeeded", "done")
  BY <1>1, <1>4, <1>6 DEF Stays, remote
<1>8. Fits(f, "succeeded", "done")
  BY <1>2, <1>3 DEF Fits, EarlyPhases, Local, Waiting, Resting
<1>9. run' \in RunStates
  BY <1>1, RunReturns, StoreTypes
<1>10. TypeOK'
  BY <1>1, <1>4, <1>5, <1>9, StoreTypes, TypeStep
<1> QED BY <1>1, <1>7, <1>8, <1>10, StepIsOver

----------------------------------------------------------------------------
(* A write request of the runner. *)

TypeRemote ==
    /\ dest \in [Files -> Contents] /\ temp \in [Files -> [Attempts -> Contents]]
    /\ wire \in [Files -> [Attempts -> WireRows]]

LEMMA RequestKeeps ==
    ASSUME IInv, run.pc \in StepPCs, NEW f \in Files, F = f, NEW a \in Attempts, a = ent[f].at,
           UNCHANGED <<job, ent, att, mem, cancels, source, budget>>, TypeRemote',
           Phase(f) \in {"transfer_intent", "move_intent"}, run' \in RunStates,
           \A g \in Files : g # f => dest'[g] = dest[g] /\ wire'[g] = wire[g],
           \A b \in Attempts : b # a => wire'[f][b] = wire[f][b],
           wire'[f][a].st \in {"none", "late", "op"},
           wire'[f][a].st # "none" /\ wire'[f][a].to = "final" /\ wire'[f][a].ow =>
               \E b \in Attempts : b < a /\ att[f][b].ph \in AbandonedPhases,
           \/ dest'[f] \in {dest[f], "ours"}
           \/ \A b \in Attempts : wire[f][b].st \in Late => att[f][b].ph \in Remembered,
           run'.f = f, run'.point = run.point,
           \/ run'.pc = "err" /\ (Interrupted(run'.err) \/ Uncertain(run'.err))
           \/ run'.pc = "sent" /\ Phase(f) = "transfer_intent"
           \/ run'.pc = "moved" /\ Phase(f) = "move_intent" /\ ~Direct,
           run'.pc \in {"sent", "moved"} =>
               wire'[f][a].st \in (IF run'.op THEN Answered ELSE {"none"})
    PROVE  IInv'
<1>1. TypeOK'
  BY DEF IInv, TypeOK, TypeRemote
<1>2. FileInv(f) /\ Direct' = Direct
  BY DEF IInv, Direct
<1>3. a > 0 /\ Phase(f) = att[f][a].ph
  BY HasBegun, CurrentRow
<1>4. ent[f].st \notin Success
  BY <1>2 DEF FileInv, EntryAgrees, Resting, AbandonedPhases
<1>5. Row(f)' = Row(f) /\ Phase(f)' = Phase(f)
  BY DEF Row, Phase, NoAttempt
<1>6. RowsInOrder(f)'
  BY <1>2, <1>3 DEF FileInv, RowsInOrder, Attempts
<1>7. RequestsKnown(f)'
  <2> SUFFICES ASSUME NEW b \in Attempts
               PROVE /\ att[f][b].ph \in EarlyPhases => wire'[f][b].st = "none"
                     /\ att[f][b].ph \in Waiting => wire'[f][b].st \in Answered
                     /\ wire'[f][b].st \in Late =>
                          att[f][b].ph \in Remembered \/ (Direct /\ dest'[f] = "ours")
                     /\ wire'[f][b].st \in Late /\ wire'[f][b].to = "final" /\ wire'[f][b].ow =>
                          \E c \in Attempts : c < b /\ att[f][c].ph \in AbandonedPhases
    BY <1>2 DEF RequestsKnown
  <2>1. CASE b = a
    BY <1>3, <2>1 DEF EarlyPhases, Local, Waiting, Remembered, UnknownPhases, Late
  <2>2. CASE b # a
    BY <1>2, <2>2 DEF FileInv, RequestsKnown
  <2> QED BY <2>1, <2>2
<1>8. EntryAgrees(f)'
  BY <1>2, <1>4, <1>5 DEF FileInv, EntryAgrees
<1>9. ASSUME NEW g \in Files, g # f
      PROVE  FileInv(g)'
  BY <1>9, FileKept, RowFields DEF IInv
<1>10. run'.pc \notin JobPCs \cup BulkPCs \cup PointPCs \cup UploadPCs \cup StagePCs
  BY DEF JobPCs, BulkPCs, PointPCs, UploadPCs, StagePCs
<1>11. ent[f].point => ent[f].timer = "none"
  BY DEF IInv, PointInv, StepPCs, JobPCs
<1>12. /\ Busy' \subseteq {f} /\ JobInv' /\ BulkInv' /\ PointInv'
  BY <1>10, StepOthers DEF JobPCs
<1>13. run.point /\ ~job.stop => ent[f].point /\ ent[f].ptries >= 1
  BY DEF IInv, Holder
<1>14. Holder'
  BY <1>4, <1>10, <1>12, <1>13 DEF Holder, F, JobPCs, PointPCs
<1>15. PhaseAtStep'
  BY <1>2, <1>5, <1>10 DEF PhaseAtStep, F
<1>16. RequestAtStep'
  BY <1>10 DEF RequestAtStep, F
<1> QED BY <1>1, <1>6, <1>7, <1>8, <1>9, <1>12, <1>14, <1>15, <1>16 DEF IInv, FileInv

LEMMA RemoteTypes ==
    ASSUME IInv
    PROVE  TypeRemote
  BY DEF IInv, TypeOK, TypeRemote

LEMMA Applied ==
    ASSUME TypeRemote, NEW f \in Files, NEW a \in Attempts, NEW to \in {"final", "temp", "move"},
           NEW c \in Contents, Apply(f, a, to, c)
    PROVE  /\ dest' \in [Files -> Contents] /\ temp' \in [Files -> [Attempts -> Contents]]
           /\ \A g \in Files : g # f => dest'[g] = dest[g]
           /\ dest'[f] = IF to = "temp" THEN dest[f] ELSE c
<1>1. /\ dest' \in [Files -> Contents]
      /\ \A g \in Files : g # f => dest'[g] = dest[g]
      /\ dest'[f] = IF to = "temp" THEN dest[f] ELSE c
  BY DEF Apply, TypeRemote
<1>2. "none" \in Contents
  BY DEF Contents
<1>3. \/ temp' = temp \/ temp' = [temp EXCEPT ![f][a] = c] \/ temp' = [temp EXCEPT ![f][a] = "none"]
  BY DEF Apply
<1>4. ASSUME NEW w \in Contents, temp' = [temp EXCEPT ![f][a] = w]
      PROVE  temp' \in [Files -> [Attempts -> Contents]]
  BY <1>4 DEF TypeRemote
<1>5. temp' = temp => temp' \in [Files -> [Attempts -> Contents]]
  BY DEF TypeRemote
<1> QED BY <1>1, <1>2, <1>3, <1>4, <1>5

LEMMA WireSet ==
    ASSUME TypeRemote, NEW f \in Files, NEW a \in Attempts, NEW w \in WireRows,
           wire' = [wire EXCEPT ![f][a] = w]
    PROVE  /\ wire' \in [Files -> [Attempts -> WireRows]] /\ wire'[f][a] = w
           /\ \A g \in Files : g # f => wire'[g] = wire[g]
           /\ \A b \in Attempts : b # a => wire'[f][b] = wire[f][b]
  BY DEF TypeRemote

LEMMA RequestSent ==
    ASSUME TypeRemote, NEW f \in Files, NEW a \in Attempts, F = f, run.ow \in BOOLEAN,
           NEW to \in {"final", "temp", "move"},
           Completed(a, to) \/ Accepted(a, to) \/ CutOff(a, to)
    PROVE  /\ TypeRemote'
           /\ \A g \in Files : g # f => dest'[g] = dest[g] /\ wire'[g] = wire[g]
           /\ \A b \in Attempts : b # a => wire'[f][b] = wire[f][b]
           /\ wire'[f][a].st \in {"none", "late", "op"}
           /\ wire'[f][a].st # "none" => wire'[f][a].to = to /\ wire'[f][a].ow = run.ow
           /\ dest'[f] \in {dest[f], "ours"} \/ to = "final"
           /\ Completed(a, to) => wire'[f][a].st = "none"
           /\ Accepted(a, to) => wire'[f][a].st = "op"
<1> DEFINE sent(st) == [st |-> st, to |-> to, ow |-> run.ow]
<1>1. /\ NoRequest \in WireRows /\ NoRequest.st = "none"
      /\ \A st \in {"late", "op"} : sent(st) \in WireRows /\ sent(st).st = st /\ sent(st).to = to
                                    /\ sent(st).ow = run.ow
  BY DEF NoRequest, WireRows, Requests
<1>2. "ours" \in Contents /\ "partial" \in Contents
  BY DEF Contents
<1> HIDE DEF sent
<1>3. CASE /\ \E c \in {"ours", "partial"} : Apply(f, a, to, c) /\ (c = "partial" => to # "move")
           /\ wire' = [wire EXCEPT ![f][a] = NoRequest]
  <2>1. PICK c \in {"ours", "partial"} : Apply(f, a, to, c) /\ (c = "partial" => to # "move")
    BY <1>3
  <2>2. /\ dest' \in [Files -> Contents] /\ temp' \in [Files -> [Attempts -> Contents]]
        /\ \A g \in Files : g # f => dest'[g] = dest[g]
        /\ dest'[f] = IF to = "temp" THEN dest[f] ELSE c
    BY <1>2, <2>1, Applied
  <2>3. /\ wire' \in [Files -> [Attempts -> WireRows]] /\ wire'[f][a] = NoRequest
        /\ \A g \in Files : g # f => wire'[g] = wire[g]
        /\ \A b \in Attempts : b # a => wire'[f][b] = wire[f][b]
    BY <1>1, <1>3, WireSet
  <2>4. ~Accepted(a, to)
    <3>1. Accepted(a, to) => wire' = [wire EXCEPT ![f][a] = sent("op")]
      BY DEF Accepted, sent
    <3>2. Accepted(a, to) => wire'[f][a] = sent("op")
      BY <1>1, <3>1, WireSet
    <3> QED BY <1>1, <2>3, <3>2
  <2> QED BY <1>1, <2>1, <2>2, <2>3, <2>4 DEF TypeRemote
<1>4. CASE /\ \E st \in {"late", "op"} : wire' = [wire EXCEPT ![f][a] = sent(st)]
           /\ NoEffect
  <2>1. PICK st \in {"late", "op"} : wire' = [wire EXCEPT ![f][a] = sent(st)]
    BY <1>4
  <2>2. /\ wire' \in [Files -> [Attempts -> WireRows]] /\ wire'[f][a] = sent(st)
        /\ \A g \in Files : g # f => wire'[g] = wire[g]
        /\ \A b \in Attempts : b # a => wire'[f][b] = wire[f][b]
    BY <1>1, <2>1, WireSet
  <2>3. ~Completed(a, to)
    <3>1. Completed(a, to) => wire' = [wire EXCEPT ![f][a] = NoRequest]
      BY DEF Completed
    <3>2. Completed(a, to) => wire'[f][a] = NoRequest
      BY <1>1, <3>1, WireSet
    <3> QED BY <1>1, <2>2, <3>2
  <2>4. Accepted(a, to) => wire'[f][a].st = "op"
    <3>1. Accepted(a, to) => wire' = [wire EXCEPT ![f][a] = sent("op")]
      BY DEF Accepted, sent
    <3>2. Accepted(a, to) => wire'[f][a] = sent("op")
      BY <1>1, <3>1, WireSet
    <3> QED BY <1>1, <3>2
  <2>5. UNCHANGED <<dest, temp>>
    BY <1>4 DEF NoEffect
  <2> QED BY <1>1, <2>2, <2>3, <2>4, <2>5 DEF TypeRemote
<1>5. CASE wire' = [wire EXCEPT ![f][a] = NoRequest] /\ NoEffect
  <2>1. /\ wire' \in [Files -> [Attempts -> WireRows]] /\ wire'[f][a] = NoRequest
        /\ \A g \in Files : g # f => wire'[g] = wire[g]
        /\ \A b \in Attempts : b # a => wire'[f][b] = wire[f][b]
    BY <1>1, <1>5, WireSet
  <2>2. ~Accepted(a, to)
    <3>1. Accepted(a, to) => wire' = [wire EXCEPT ![f][a] = sent("op")]
      BY DEF Accepted, sent
    <3>2. Accepted(a, to) => wire'[f][a] = sent("op")
      BY <1>1, <3>1, WireSet
    <3> QED BY <1>1, <2>1, <3>2
  <2>3. UNCHANGED <<dest, temp>>
    BY <1>5 DEF NoEffect
  <2> QED BY <1>1, <2>1, <2>2, <2>3 DEF TypeRemote
<1>6. Completed(a, to) => \/ /\ Apply(f, a, to, "ours")
                             /\ wire' = [wire EXCEPT ![f][a] = NoRequest]
  BY DEF Completed
<1> QED BY <1>3, <1>4, <1>5, <1>6 DEF Accepted, CutOff, sent

LEMMA PutKeeps ==
    ASSUME IInv, Put
    PROVE  IInv'
<1>1. /\ run.pc = "put" /\ run.pc \in StepPCs /\ run.pc \in UploadPCs
      /\ UNCHANGED <<job, ent, mem, cancels, source, budget>>
  BY DEF Put, At, StepPCs, PCs, JobPCs, BulkPCs, UploadPCs
<1> PICK f \in Files : F = f
  BY <1>1, StepFile
<1>2. Phase(f) = "transfer_intent" /\ run.ow \in BOOLEAN
  BY <1>1, StoreTypes DEF IInv, PhaseAtStep, RunStates
<1> PICK a \in Attempts : a = ent[f].at /\ a > 0
  BY <1>2, HasBegun, CurrentRow
<1> DEFINE to == IF Direct THEN "final" ELSE "temp"
<1>3. /\ wire[f][a].st \notin Late
      /\ run.ow => \E b \in Attempts : b < a /\ att[f][b].ph \in AbandonedPhases
      /\ Direct => \A b \in Attempts : wire[f][b].st \in Late => att[f][b].ph \in Remembered
  BY <1>1 DEF IInv, RequestAtStep
<1>4. to \in {"final", "temp", "move"} /\ (to = "final" => Direct)
  OBVIOUS
<1> HIDE DEF to
<1>5. ASSUME Completed(a, to) \/ Accepted(a, to) \/ CutOff(a, to), UNCHANGED att,
             run' \in RunStates, run'.f = f, run'.point = run.point,
             \/ run'.pc = "err" /\ (Interrupted(run'.err) \/ Uncertain(run'.err))
             \/ run'.pc = "sent" /\ (IF run'.op THEN Accepted(a, to) ELSE Completed(a, to))
      PROVE  IInv'
  <2>1. /\ TypeRemote'
        /\ \A g \in Files : g # f => dest'[g] = dest[g] /\ wire'[g] = wire[g]
        /\ \A b \in Attempts : b # a => wire'[f][b] = wire[f][b]
        /\ wire'[f][a].st \in {"none", "late", "op"}
        /\ wire'[f][a].st # "none" => wire'[f][a].to = to /\ wire'[f][a].ow = run.ow
        /\ dest'[f] \in {dest[f], "ours"} \/ to = "final"
        /\ Completed(a, to) => wire'[f][a].st = "none"
        /\ Accepted(a, to) => wire'[f][a].st = "op"
    BY <1>2, <1>4, <1>5, RequestSent, RemoteTypes
  <2>2. run'.pc \in {"sent", "moved"} =>
            wire'[f][a].st \in (IF run'.op THEN Answered ELSE {"none"})
    BY <1>5, <2>1 DEF Answered
  <2>3. wire'[f][a].st # "none" /\ wire'[f][a].to = "final" /\ wire'[f][a].ow =>
               \E b \in Attempts : b < a /\ att[f][b].ph \in AbandonedPhases
    BY <1>3, <2>1
  <2>4. \/ dest'[f] \in {dest[f], "ours"}
        \/ \A b \in Attempts : wire[f][b].st \in Late => att[f][b].ph \in Remembered
    BY <1>3, <1>4, <2>1
  <2> QED BY <1>1, <1>2, <1>5, <2>1, <2>2, <2>3, <2>4, RequestKeeps
<1>6. CASE /\ Completed(a, to) /\ run' = [run EXCEPT !.pc = "sent", !.op = FALSE] /\ UNCHANGED att
  <2>1. /\ run' \in RunStates /\ run'.f = f /\ run'.point = run.point /\ run'.pc = "sent" /\ ~run'.op
    BY <1>6, StoreTypes DEF F, PCs, RunStates
  <2> QED BY <1>5, <1>6, <2>1
<1>7. CASE Accepted(a, to) /\ run.op /\ Go("sent") /\ UNCHANGED att
  <2>1. /\ run' \in RunStates /\ run'.f = f /\ run'.point = run.point /\ run'.pc = "sent" /\ run'.op
    BY <1>7, StoreTypes, RunGoes DEF F, PCs
  <2> QED BY <1>5, <1>7, <2>1
<1>8. CASE /\ UNCHANGED att
           /\ \E x \in {"unknown", "destUnc"} : Fail(x)
           /\ Accepted(a, to) \/ CutOff(a, to)
  <2>1. /\ run' \in RunStates /\ run'.f = f /\ run'.point = run.point /\ run'.pc = "err"
        /\ Uncertain(run'.err)
    BY <1>8, StoreTypes, RunFails DEF F, Errors, Uncertain
  <2> QED BY <1>5, <1>8, <2>1
<1>9. CASE (\E x \in {"conflict", "dest"} : UploadRefused(x)) /\ UNCHANGED <<dest, temp, wire>>
  BY <1>1, <1>3, <1>9, RefusedKeeps DEF Errors, remote
<1>10. CASE Fail("destAuth") /\ UNCHANGED <<att, dest, temp, wire>>
  BY <1>1, <1>10, StillFails, StoreTypes DEF Errors, remote, Interrupted
<1> QED BY <1>6, <1>7, <1>8, <1>9, <1>10 DEF Put, to

LEMMA MoveKeeps ==
    ASSUME IInv, Move
    PROVE  IInv'
<1>1. /\ run.pc = "move" /\ run.pc \in StepPCs
      /\ UNCHANGED <<job, ent, att, mem, cancels, source, budget>>
  BY DEF Move, Proceeds, At, StepPCs, PCs, JobPCs, BulkPCs, store
<1> PICK f \in Files : F = f
  BY <1>1, StepFile
<1>2. Phase(f) = "move_intent" /\ ~Direct /\ run.ow \in BOOLEAN
  BY <1>1, StoreTypes DEF IInv, PhaseAtStep, RunStates
<1> PICK a \in Attempts : a = ent[f].at /\ a > 0
  BY <1>2, HasBegun, CurrentRow
<1>3. wire[f][a].st \notin Late
  BY <1>1 DEF IInv, RequestAtStep
<1>4. ASSUME Completed(a, "move") \/ Accepted(a, "move") \/ CutOff(a, "move"),
             run' \in RunStates, run'.f = f, run'.point = run.point,
             \/ run'.pc = "err" /\ (Interrupted(run'.err) \/ Uncertain(run'.err))
             \/ run'.pc = "moved" /\ (IF run'.op THEN Accepted(a, "move") ELSE Completed(a, "move"))
      PROVE  IInv'
  <2>1. /\ TypeRemote'
        /\ \A g \in Files : g # f => dest'[g] = dest[g] /\ wire'[g] = wire[g]
        /\ \A b \in Attempts : b # a => wire'[f][b] = wire[f][b]
        /\ wire'[f][a].st \in {"none", "late", "op"}
        /\ wire'[f][a].st # "none" => wire'[f][a].to = "move"
        /\ dest'[f] \in {dest[f], "ours"}
        /\ Completed(a, "move") => wire'[f][a].st = "none"
        /\ Accepted(a, "move") => wire'[f][a].st = "op"
    BY <1>2, <1>4, RequestSent, RemoteTypes
  <2>2. run'.pc \in {"sent", "moved"} =>
            wire'[f][a].st \in (IF run'.op THEN Answered ELSE {"none"})
    BY <1>4, <2>1 DEF Answered
  <2> QED BY <1>1, <1>2, <1>4, <2>1, <2>2, RequestKeeps
<1>5. CASE /\ \/ Completed(a, "move") /\ run' = [run EXCEPT !.pc = "moved", !.op = FALSE]
              \/ Accepted(a, "move") /\ run' = [run EXCEPT !.pc = "moved", !.op = TRUE]
  <2>1. /\ run' \in RunStates /\ run'.f = f /\ run'.point = run.point /\ run'.pc = "moved"
        /\ IF run'.op THEN Accepted(a, "move") ELSE Completed(a, "move")
    BY <1>5, StoreTypes DEF F, PCs, RunStates
  <2> QED BY <1>4, <1>5, <2>1
<1>6. CASE /\ \E x \in {"unknown", "destUnc"} : Fail(x)
           /\ Accepted(a, "move") \/ CutOff(a, "move")
  <2>1. /\ run' \in RunStates /\ run'.f = f /\ run'.point = run.point /\ run'.pc = "err"
        /\ Uncertain(run'.err)
    BY <1>6, StoreTypes, RunFails DEF F, Errors, Uncertain
  <2> QED BY <1>4, <1>6, <2>1
<1>7. CASE /\ \E x \in {"conflict", "dest", "destAuth"} : Fail(x)
           /\ UNCHANGED <<dest, temp, wire>>
  <2>1. PICK x \in {"conflict", "dest", "destAuth"} : Fail(x)
    BY <1>7
  <2>2. /\ run' \in RunStates /\ run'.pc = "err" /\ run'.f = f /\ run'.point = run.point
    BY <2>1, RunFails, StoreTypes DEF F, Errors
  <2>3. TypeOK'
    BY <1>1, <1>7, <2>2, StoreTypes, TypeStep DEF remote
  <2>4. Stays(f, Phase(f), ent[f].st) /\ Fits(f, Phase(f), ent[f].st)
    BY <1>1, <1>7, Still
  <2>5. ent[f].st \in Success => run.point
    BY <1>1, StepFile
  <2> QED BY <1>1, <1>3, <2>2, <2>3, <2>4, <2>5, StepFails
<1> QED BY <1>5, <1>6, <1>7 DEF Move, DestinationErrors

----------------------------------------------------------------------------
(* The point retry, and what becomes of a failed step. *)

\* finish_point_retry leaves a job whose state its entries allow.
LEMMA FinishedJobFits ==
    ASSUME job \in JobRows, NEW entries, ~job.stop, job.st # "stopped"
    PROVE  /\ FinishedJob(entries) \in JobRows
           /\ FinishedJob(entries).stop = job.stop /\ FinishedJob(entries).direct = job.direct
           /\ FinishedJob(entries).retry = job.retry /\ FinishedJob(entries).st # "stopped"
           /\ job.st = "awaiting_credentials" => FinishedJob(entries).st = "awaiting_credentials"
           /\ job.st # "awaiting_credentials" /\ FinishedJob(entries).st \in {"completed", "completed_with_issues"} =>
                \A g \in Files : entries[g].st \notin Active \cup {"planned"}
           /\ FinishedJob(entries).st = "completed" => \A g \in Files : entries[g].st \in Success
<1> DEFINE q == QueueState(entries)
           states == {entries[g].st : g \in Files}
<1>1. /\ q \in {"paused", "running", "needs_attention", "completed", "completed_with_issues"}
      /\ q \in {"completed", "completed_with_issues"} => states \cap (Active \cup {"planned"}) = {}
      /\ q = "completed" => states \subseteq Success
  BY DEF QueueState
<1>2. \A g \in Files : entries[g].st \in states
  OBVIOUS
<1>3. q \in JobStates
  BY <1>1 DEF JobStates
<1> HIDE DEF q, states
<1>4. CASE job.st = "awaiting_credentials"
  <2>1. FinishedJob(entries) = [job EXCEPT !.resume = q]
    BY <1>4 DEF FinishedJob, q
  <2> QED BY <1>3, <1>4, <2>1 DEF JobRows
<1>5. CASE job.st # "awaiting_credentials"
  <2>1. FinishedJob(entries) = [job EXCEPT !.st = q]
    BY <1>5 DEF FinishedJob, q
  <2>2. FinishedJob(entries) \in JobRows /\ FinishedJob(entries).st = q
    BY <1>3, <2>1 DEF JobRows
  <2> QED BY <1>1, <1>2, <1>5, <2>1, <2>2 DEF JobRows
<1> QED BY <1>4, <1>5

\* The point retry of f is closed and the guard is free.
LEMMA RequestClosed ==
    ASSUME IInv, TypeOK', NEW f \in Files, run.pc = "idle" \/ (run.pc \in StepPCs /\ F = f),
           ent[f].point, run' = Idle, UNCHANGED <<att, dest, wire>>, cancels' \subseteq cancels,
           \A g \in Files : g # f => ent'[g] = ent[g],
           ent'[f].at = ent[f].at, ~ent'[f].point, ent'[f].timer = "none",
           ent'[f].st \in {ent[f].st, "outcome_unknown"},
           job'.direct = job.direct, job'.stop = job.stop, job'.st # "stopped",
           job'.st \in {"completed", "completed_with_issues"} =>
               \A g \in Files : ent'[g].st \notin Active \cup {"planned"},
           job'.st = "completed" => \A g \in Files : ent'[g].st \in Success,
           ~mem'.creds => job'.st = "awaiting_credentials"
    PROVE  IInv'
<1>1. Busy \subseteq {f} /\ ~job.stop
  BY DEF IInv, JobInv, Holder, Busy, Pointed
<1>2. run'.pc = "idle" /\ run'.f = NoFile /\ ~run'.point
  BY DEF Idle
<1>3. Pointed' = {} /\ Busy' \subseteq {f}
  BY <1>1 DEF Busy, Pointed, ActiveFiles
<1>4. ASSUME NEW g \in Files, g # f
      PROVE  FileInv(g)'
  BY <1>4, FileKept, RowFields DEF IInv
<1>5. FileInv(f) /\ Row(f)' = Row(f) /\ Phase(f)' = Phase(f) /\ Direct' = Direct
  BY DEF IInv, Row, Phase, NoAttempt, Direct
<1>6. RowsInOrder(f)' /\ RequestsKnown(f)'
  BY <1>5 DEF FileInv, RowsInOrder, RequestsKnown
<1>7. EntryAgrees(f)'
  BY <1>5 DEF FileInv, EntryAgrees, Success
<1>8. Holder'
  BY <1>2, <1>3 DEF Holder, JobPCs, PointPCs
<1>9. PhaseAtStep' /\ RequestAtStep'
  BY <1>2 DEF PhaseAtStep, RequestAtStep, StagePCs, UploadPCs
<1>10. JobInv'
  BY <1>1, <1>2, <1>3 DEF JobInv, Busy, ActiveFiles, BulkPCs
<1>11. BulkInv' /\ PointInv'
  BY <1>2, <1>3 DEF BulkInv, PointInv, BulkPCs, Pointed
<1> QED BY <1>4, <1>6, <1>7, <1>8, <1>9, <1>10, <1>11 DEF IInv, FileInv

\* ... by finish_point_retry itself.
LEMMA FinishedKeeps ==
    ASSUME IInv, NEW f \in Files, run.pc = "idle" \/ (run.pc \in StepPCs /\ F = f),
           ent[f].point, run' = Idle, UNCHANGED <<att, mem, remote, budget>>, cancels' \subseteq cancels,
           NEW s \in {ent[f].st, "outcome_unknown"}, ent' = [Finished(f) EXCEPT ![f].st = s],
           job' = FinishedJob(ent')
    PROVE  IInv'
<1>1. ~job.stop /\ job.st # "stopped" /\ Busy # {} /\ job \in JobRows
  BY StoreTypes DEF IInv, JobInv, Busy, Pointed
<1>2. ent[f] \in EntryRows /\ s \in EntryStates
  BY StoreTypes DEF EntRows, EntryRows, EntryStates
<1> DEFINE e == [ent[f] EXCEPT !.point = FALSE, !.timer = "none", !.st = s]
<1>3. e \in EntryRows /\ e.at = ent[f].at /\ ~e.point /\ e.timer = "none" /\ e.st = s
  BY <1>2 DEF EntryRows
<1>4. EntryWritten(f, e)
  BY StoreTypes DEF Finished, EntRows, EntryRows, EntryWritten
<1> HIDE DEF e
<1>5. ent' \in EntRows /\ ent'[f] = e /\ \A g \in Files : g # f => ent'[g] = ent[g]
  BY <1>3, <1>4, EntryTo
<1>6. /\ job' \in JobRows /\ job'.stop = job.stop /\ job'.direct = job.direct /\ job'.st # "stopped"
      /\ job.st = "awaiting_credentials" => job'.st = "awaiting_credentials"
      /\ job.st # "awaiting_credentials" /\ job'.st \in {"completed", "completed_with_issues"} =>
            \A g \in Files : ent'[g].st \notin Active \cup {"planned"}
      /\ job'.st = "completed" => \A g \in Files : ent'[g].st \in Success
  BY <1>1, FinishedJobFits
<1>7. ~mem.creds => job.st = "awaiting_credentials"
  BY <1>1 DEF IInv, JobInv
<1>8. TypeOK'
  BY <1>5, <1>6, IdleState DEF IInv, TypeOK, EntRows, remote
<1>9. job'.st = "completed_with_issues" => job.st # "awaiting_credentials"
  BY <1>6
<1>10. job'.st = "completed" => job.st # "awaiting_credentials"
  BY <1>6
<1>11. ~mem'.creds => job'.st = "awaiting_credentials"
  BY <1>6, <1>7
<1>12. UNCHANGED <<att, dest, wire>>
  BY DEF remote
<1>13. job'.st \in {"completed", "completed_with_issues"} =>
            \A g \in Files : ent'[g].st \notin Active \cup {"planned"}
  BY <1>6, <1>9, <1>10
<1> QED BY <1>3, <1>5, <1>6, <1>8, <1>11, <1>12, <1>13, RequestClosed

LEMMA FinishPointStepKeeps ==
    ASSUME IInv, FinishPointStep
    PROVE  IInv'
<1>1. /\ run.pc = "ptdone" /\ run.pc \in StepPCs /\ run' = Idle
      /\ UNCHANGED <<att, mem, cancels, remote, budget>>
  BY DEF FinishPointStep, At, StepPCs, PCs, JobPCs, BulkPCs
<1> PICK f \in Files : F = f
  BY <1>1, StepFile
<1>2. CASE UNCHANGED <<job, ent>>
  BY <1>1, <1>2, StillReturns, StoreTypes
<1>3. CASE ent[f].point /\ ent' = Finished(f) /\ job' = FinishedJob(ent')
  <2>1. ent' = [Finished(f) EXCEPT ![f].st = ent[f].st]
    BY <1>3, StoreTypes DEF Finished, EntRows, EntryRows
  <2>2. PICK s \in {ent[f].st, "outcome_unknown"} : s = ent[f].st
    OBVIOUS
  <2>3. ent' = [Finished(f) EXCEPT ![f].st = s]
    BY <2>1, <2>2
  <2> QED BY <1>1, <1>3, <2>3, FinishedKeeps
<1> QED BY <1>2, <1>3 DEF FinishPointStep

LEMMA PointFileKeeps ==
    ASSUME IInv, PointFile
    PROVE  IInv'
<1>1. /\ run.pc = "pt" /\ run.pc \in StepPCs /\ run.point
  BY DEF PointFile, Proceeds, At, StepPCs, PCs, JobPCs, BulkPCs, IInv, Holder, PointPCs
<1> PICK f \in Files : F = f
  BY <1>1, StepFile
<1>2. CASE /\ ~RetryOld /\ Go("file")
           /\ UNCHANGED <<store, mem, cancels, remote, budget>>
  <2>1. Phase(f) # "none"
    BY <1>2 DEF RetryOld
  <2>2. "file" \in StepPCs /\ "file" \notin PointPCs
    BY DEF StepPCs, PCs, JobPCs, BulkPCs, PointPCs
  <2>3. run'.pc = "file" /\ run'.f = f /\ Phase(f)' = Phase(f) => PhaseAtStep' /\ RequestAtStep'
    BY <2>1 DEF PhaseAtStep, RequestAtStep, StagePCs, UploadPCs, F
  <2> QED BY <1>1, <1>2, <2>2, <2>3, StillGoes, StoreTypes DEF store
<1>3. ASSUME RetryOld, mem' = [mem EXCEPT !.outage = FALSE], UNCHANGED <<job, att, cancels, remote, budget>>
      PROVE  mem' \in Mems /\ mem'.creds = mem.creds /\ Phase(f) \in PointRetryPhases \cup {"none"}
  BY <1>3, StoreTypes DEF Mems, RetryOld, PointRetryPhases
<1>4. CASE /\ RetryOld /\ mem' = [mem EXCEPT !.outage = FALSE]
           /\ UNCHANGED <<job, ent, att, cancels, remote, budget>>
           /\ \/ dest[f] = "ours" /\ ent[f].at > 0 /\ Go("ptconfirm")
              \/ Go("ptnew")
  <2>1. /\ mem' \in Mems /\ mem'.creds = mem.creds /\ Phase(f) \in PointRetryPhases \cup {"none"}
    BY <1>3, <1>4
  <2>2. "ptconfirm" \in StepPCs /\ "ptnew" \in StepPCs
    BY DEF StepPCs, PCs, JobPCs, BulkPCs
  <2>3. CASE dest[f] = "ours" /\ ent[f].at > 0 /\ Go("ptconfirm")
    <3>1. run'.pc = "ptconfirm" /\ run'.f = f /\ Phase(f)' = Phase(f) => PhaseAtStep' /\ RequestAtStep'
      BY <1>4, <2>1, <2>3 DEF PhaseAtStep, RequestAtStep, StagePCs, UploadPCs, F, remote
    <3> QED BY <1>1, <1>4, <2>1, <2>2, <2>3, <3>1, StillGoes
  <2>4. CASE Go("ptnew")
    <3>1. run'.pc = "ptnew" /\ run'.f = f /\ Phase(f)' = Phase(f) => PhaseAtStep' /\ RequestAtStep'
      BY <2>1 DEF PhaseAtStep, RequestAtStep, StagePCs, UploadPCs, F
    <3> QED BY <1>1, <1>4, <2>1, <2>2, <2>4, <3>1, StillGoes
  <2> QED BY <1>4, <2>3, <2>4
<1>5. CASE /\ RetryOld /\ mem' = [mem EXCEPT !.outage = FALSE] /\ dest[f] = "ours" /\ ~(ent[f].at > 0)
           /\ SetEntry(f, "already_verified") /\ Go("ptdone")
           /\ UNCHANGED <<job, att, cancels, remote, budget>>
  <2>1. /\ mem' \in Mems /\ mem'.creds = mem.creds
    BY <1>3, <1>5
  <2>2. Phase(f) = "none" /\ "none" \in Resting /\ "already_verified" \in EntryStates
    BY <1>5, RowFields DEF IInv, Phase, NoAttempt, Resting, EntryStates, Success
  <2>3. ent' \in EntRows /\ Stays(f, Phase(f), "already_verified") /\ Fits(f, Phase(f), "already_verified")
    BY <1>5, <2>1, <2>2, EntrySet
  <2>4. run' \in RunStates /\ run'.pc = "ptdone" /\ run'.f = f /\ run'.point = run.point
    BY <1>5, RunGoes, StoreTypes DEF F, PCs
  <2>5. TypeOK'
    BY <1>5, <2>1, <2>3, <2>4, StoreTypes, TypeStep
  <2>6. "ptdone" \in StepPCs
    BY DEF StepPCs, PCs, JobPCs, BulkPCs
  <2>7. PhaseAtStep' /\ RequestAtStep'
    BY <2>4 DEF PhaseAtStep, RequestAtStep, UploadPCs, StagePCs
  <2> QED BY <1>1, <2>3, <2>4, <2>5, <2>6, <2>7, StepContinues
<1>6. CASE /\ RetryOld /\ mem' = [mem EXCEPT !.outage = FALSE]
           /\ \E x \in {"conflict", "fatal"} : Fail(x)
           /\ UNCHANGED <<job, ent, att, cancels, remote, budget>>
  BY <1>1, <1>3, <1>6, StillFails DEF Errors
<1>7. CASE ReadFails(DestinationErrors)
  BY <1>1, <1>7, ReadFailsKeeps DEF DestinationErrors, Errors
<1> QED BY <1>2, <1>4, <1>5, <1>6, <1>7 DEF PointFile, Matching

LEMMA ConfirmPointCopyKeeps ==
    ASSUME IInv, ConfirmPointCopy
    PROVE  IInv'
<1>1. /\ run.pc = "ptconfirm" /\ run.pc \in StepPCs /\ run.point
      /\ UNCHANGED <<job, mem, cancels, remote, budget>>
  BY DEF ConfirmPointCopy, Proceeds, At, StepPCs, PCs, JobPCs, BulkPCs, IInv, Holder, PointPCs
<1> PICK f \in Files : F = f
  BY <1>1, StepFile
<1>2. ent[f].at > 0 /\ dest[f] = "ours"
  BY <1>1 DEF IInv, PhaseAtStep
<1> PICK a \in Attempts : /\ a = ent[f].at /\ a > 0 /\ att[f][a] \in AttemptRows
                          /\ Phase(f) = att[f][a].ph
  BY <1>2, CurrentRow
<1> DEFINE p == IF Direct THEN "succeeded" ELSE AbandonedAs(att[f][a].ph)
           row == [att[f][a] EXCEPT !.ph = p]
           rows == [att EXCEPT ![f][ent[f].at].ph = IF Direct THEN "succeeded" ELSE AbandonedAs(@)]
<1>3. CASE /\ SetEntry(f, "already_verified") /\ att' = Cleaned(rows, ent') /\ Go("ptdone")
  <2>1. p \in Phases \ (EarlyPhases \cup Waiting) /\ p \in Resting
        /\ (Direct \/ p \in AbandonedPhases)
    BY DEF AbandonedAs, Phases, AbandonedPhases, EarlyPhases, Local, Waiting, Resting
  <2>2. p \in Remembered \/ Direct
    BY <2>1 DEF Remembered
  <2> HIDE DEF p
  <2>3. row \in AttemptRows /\ row.ph = p
    BY <2>1 DEF AttemptRows
  <2>4. rows = [att EXCEPT ![f][a] = row]
    BY StoreTypes DEF AttRows, p
  <2> HIDE DEF rows, row
  <2>5. /\ rows \in AttRows /\ rows[f][a] = row
        /\ \A g \in Files, b \in Attempts : g # f \/ b # a => rows[g][b] = att[g][b]
    BY <2>3, <2>4, StoreTypes DEF AttRows
  <2>6. /\ att' \in AttRows
        /\ \A g \in Files, b \in Attempts : /\ att'[g][b].ph = rows[g][b].ph
                                            /\ att'[g][b].copy \in {"none", rows[g][b].copy}
    BY <1>3, <2>5, CleanedRows
  <2>7. OnlyPhase(f, p)
    BY <2>3, <2>5, <2>6 DEF OnlyPhase, Attempts
  <2>8. /\ ent' \in EntRows
        /\ \A g \in Files : g # f => ent'[g] = ent[g]
        /\ ent'[f].at = ent[f].at /\ ent'[f].point = ent[f].point /\ ent'[f].st = "already_verified"
        /\ ent'[f].timer = ent[f].timer /\ ent'[f].ptries = ent[f].ptries
    BY <1>3, StoreTypes DEF SetEntry, EntRows, EntryRows, EntryStates, Success
  <2>9. Stays(f, p, "already_verified")
    BY <1>1, <2>7, <2>8 DEF Stays, remote
  <2>10. Fits(f, p, "already_verified")
    BY <1>2, <2>1, <2>2 DEF Fits, EarlyPhases
  <2>11. run' \in RunStates /\ run'.pc = "ptdone" /\ run'.f = f /\ run'.point = run.point
    BY <1>3, RunGoes, StoreTypes DEF F, PCs
  <2>12. TypeOK'
    BY <1>1, <2>6, <2>8, <2>11, StoreTypes, TypeStep
  <2>13. "ptdone" \in StepPCs
    BY DEF StepPCs, PCs, JobPCs, BulkPCs
  <2>14. PhaseAtStep' /\ RequestAtStep'
    BY <2>11 DEF PhaseAtStep, RequestAtStep, UploadPCs, StagePCs
  <2> QED BY <1>1, <2>9, <2>10, <2>11, <2>12, <2>13, <2>14, StepContinues
<1>4. CASE Withdrawn
  <2>1. PICK x \in {"unknown", "fatal"} : Fail(x) /\ UNCHANGED <<ent, att>>
    BY <1>4 DEF Withdrawn
  <2> QED BY <1>1, <2>1, StillFails, StoreTypes DEF Errors
<1> QED BY <1>3, <1>4 DEF ConfirmPointCopy

\* The step ends with an error of the whole job.
LEMMA JobRaised ==
    ASSUME IInv, run.pc \in StepPCs, run' = Idle, UNCHANGED <<ent, att, cancels, remote, budget>>,
           mem' \in Mems, job' \in JobRows, job'.direct = job.direct, job'.stop = job.stop,
           job'.retry = job.retry, job'.st \in {"awaiting_credentials", "needs_attention", job.st},
           ~mem'.creds => job.stop \/ job'.st = "awaiting_credentials"
    PROVE  IInv'
<1>1. TypeOK'
  BY IdleState DEF IInv, TypeOK, Mems, remote
<1>2. ASSUME NEW g \in Files
      PROVE  FileInv(g)'
  BY FileKept, RowFields DEF IInv, remote
<1>3. run'.pc = "idle" /\ run'.f = NoFile /\ ~run'.point
  BY DEF Idle
<1>4. job.st = "running" /\ run.pc # "idle"
  BY DEF IInv, JobInv, StepPCs, JobPCs
<1>5. Busy' = Busy /\ \A f, g \in Busy : f = g
  BY DEF Busy, ActiveFiles, Pointed, IInv, Holder
<1>6. Holder'
  BY <1>3, <1>5 DEF Holder, JobPCs, PointPCs
<1>7. PhaseAtStep' /\ RequestAtStep'
  BY <1>3 DEF PhaseAtStep, RequestAtStep, StagePCs, UploadPCs
<1>8. JobInv'
  BY <1>3, <1>4 DEF IInv, JobInv, BulkPCs
<1>9. BulkInv' /\ PointInv'
  BY <1>3, <1>4 DEF IInv, BulkInv, PointInv, BulkPCs
<1> QED BY <1>1, <1>2, <1>6, <1>7, <1>8, <1>9 DEF IInv

LEMMA JobErrorFits ==
    ASSUME job \in JobRows, NEW s \in JobStates, NEW r \in JobStates \cup {"none"}
    PROVE  /\ JobError(s, r) \in JobRows /\ JobError(s, r).direct = job.direct
           /\ JobError(s, r).stop = job.stop /\ JobError(s, r).retry = job.retry
           /\ JobError(s, r).st = IF job.stop THEN job.st ELSE s
  BY DEF JobError, JobRows

LEMMA HandleErrorKeeps ==
    ASSUME IInv, HandleError
    PROVE  IInv'
<1>1. /\ run.pc = "err" /\ run.pc \in StepPCs /\ UNCHANGED <<ent, att, cancels, remote, budget>>
  BY DEF HandleError, At, StepPCs, PCs, JobPCs, BulkPCs
<1> PICK f \in Files : F = f /\ (~run.point => ent[f].st \notin Success)
  BY <1>1, StepFile
<1>2. Phase(f) \in Remembered /\ ~run.point =>
          \/ Interrupted(run.err) \/ Uncertain(run.err) \/ wire[f][ent[f].at].st \notin Late
  BY <1>1 DEF IInv, RequestAtStep
<1>3. ASSUME UNCHANGED <<job, mem>>, run' \in RunStates, run'.pc = "f1", run'.f = f,
             run'.point = run.point,
             Interrupted(run.err) \/ Uncertain(run.err) =>
                 Interrupted(run'.err) \/ Uncertain(run'.err)
      PROVE  IInv'
  <2>1. TypeOK'
    BY <1>1, <1>3, StoreTypes, TypeStep
  <2>2. Stays(f, Phase(f), ent[f].st) /\ Fits(f, Phase(f), ent[f].st)
    BY <1>1, <1>3, Still DEF remote
  <2> QED BY <1>1, <1>2, <1>3, <2>1, <2>2, StepFails
<1>4. CASE Go("f1") /\ UNCHANGED <<job, mem>>
  <2>1. /\ run' \in RunStates /\ run'.pc = "f1" /\ run'.f = f /\ run'.point = run.point
        /\ run'.err = run.err
    BY <1>4, RunGoes, StoreTypes DEF F, PCs
  <2> QED BY <1>3, <1>4, <2>1
<1>5. CASE /\ mem' = [mem EXCEPT !.creds = FALSE]
           /\ job' = JobError("awaiting_credentials", "running")
           /\ run' = Idle
  <2>1. mem' \in Mems
    BY <1>5, StoreTypes DEF Mems
  <2>2. /\ job' \in JobRows /\ job'.direct = job.direct /\ job'.stop = job.stop
        /\ job'.retry = job.retry
        /\ job'.st = IF job.stop THEN job.st ELSE "awaiting_credentials"
    BY <1>5, JobErrorFits, StoreTypes DEF JobStates
  <2> QED BY <1>1, <1>5, <2>1, <2>2, JobRaised
<1>6. CASE /\ Auth(run.err)
           /\ run' = [run EXCEPT !.pc = "f1", !.err = IF @ = "srcAuth" THEN "fatal" ELSE "dest"]
           /\ UNCHANGED <<job, mem>>
  <2>1. /\ run' \in RunStates /\ run'.pc = "f1" /\ run'.f = f /\ run'.point = run.point
        /\ run'.err = IF run.err = "srcAuth" THEN "fatal" ELSE "dest"
    BY <1>6, StoreTypes DEF F, PCs, RunStates, Errors
  <2>2. Interrupted(run.err) \/ Uncertain(run.err) => Interrupted(run'.err) \/ Uncertain(run'.err)
    BY <1>6, <2>1 DEF Auth, Interrupted, Uncertain
  <2> QED BY <1>3, <1>6, <2>1, <2>2
<1> QED BY <1>4, <1>5, <1>6 DEF HandleError

LEMMA FailAttemptKeeps ==
    ASSUME IInv, FailAttempt
    PROVE  IInv'
<1>1. /\ run.pc = "f1" /\ run.pc \in StepPCs /\ Go("f2")
      /\ UNCHANGED <<job, ent, cancels, remote, budget>>
  BY DEF FailAttempt, At, StepPCs, PCs, JobPCs, BulkPCs
<1> PICK f \in Files : F = f /\ (~run.point => ent[f].st \notin Success)
  BY <1>1, StepFile
<1>2. mem' \in Mems /\ mem'.creds = mem.creds
  <2>1. (mem.outage \/ (Interrupted(run.err) /\ job.retry)) \in BOOLEAN
    OBVIOUS
  <2> QED BY <2>1, StoreTypes DEF FailAttempt, Mems
<1>3. /\ run' \in RunStates /\ run'.pc = "f2" /\ run'.f = f /\ run'.point = run.point
  BY <1>1, RunGoes, StoreTypes DEF F, PCs
<1>4. "f2" \in StepPCs /\ "f2" \notin PointPCs
  BY DEF StepPCs, PCs, JobPCs, BulkPCs, PointPCs
<1>5. PhaseAtStep' /\ RequestAtStep'
  BY <1>3 DEF PhaseAtStep, RequestAtStep, UploadPCs, StagePCs
<1>6. FileInv(f)
  BY DEF IInv
<1>7. CASE ent[f].at = 0
  <2>1. att' = att
    BY <1>7 DEF FailAttempt
  <2>2. TypeOK'
    BY <1>1, <1>2, <1>3, <2>1, StoreTypes, TypeStep
  <2>3. Stays(f, Phase(f), ent[f].st) /\ Fits(f, Phase(f), ent[f].st)
    BY <1>1, <1>2, <2>1, Still DEF remote
  <2> QED BY <1>1, <1>3, <1>4, <1>5, <2>2, <2>3, StepContinues
<1>8. CASE ent[f].at # 0
  <2>1. ent[f].at > 0
    BY <1>8, RowFields DEF IInv, Attempts
  <2> PICK a \in Attempts : /\ a = ent[f].at /\ a > 0 /\ att[f][a] \in AttemptRows
                            /\ Phase(f) = att[f][a].ph
    BY <2>1, CurrentRow
  <2> DEFINE p == FailedPhase(run.err, att[f][a].ph)
             r == [att[f][a] EXCEPT !.ph = p, !.err = run.err]
  <2>2. p \in {"failed", "unknown_move", "unknown_transfer"} \cup AbandonedPhases
    BY DEF FailedPhase, AbandonedAs, AbandonedPhases
  <2>3. /\ p \in Phases \ (EarlyPhases \cup Waiting) /\ p \in Resting
        /\ (p # "failed" => p \in Remembered)
    BY <2>2 DEF AbandonedPhases, EarlyPhases, Local, Waiting, Resting, Remembered, Phases,
       UnknownPhases, SideEffectPhases
  <2>4. run.err \in Errors \cup {"none"}
    BY StoreTypes DEF RunStates
  <2>5. p = "failed" /\ Phase(f) \in Remembered =>
            /\ ~run.point /\ ~Interrupted(run.err) /\ ~Uncertain(run.err)
    BY DEF FailedPhase, AbandonedAs, Remembered, SideEffectPhases
  <2> HIDE DEF p
  <2>6. r \in AttemptRows /\ r.ph = p
    BY <2>3, <2>4 DEF AttemptRows
  <2>7. Written(f, a, r)
    BY <1>8, StoreTypes DEF FailAttempt, AttRows, Written, p
  <2> HIDE DEF r
  <2>8. EntryWritten(f, ent[f]) /\ ent[f] \in EntryRows
    BY <1>1, EntryAsWas
  <2>9. /\ att' \in AttRows /\ ent' \in EntRows /\ Stays(f, p, ent[f].st)
    BY <1>1, <1>2, <2>6, <2>7, <2>8, StepWrites
  <2>10. TypeOK'
    BY <1>1, <1>2, <1>3, <2>9, StoreTypes, TypeStep
  <2>11. p = "failed" /\ Phase(f) \in Remembered => wire[f][a].st \notin Late
    BY <1>1, <2>5 DEF IInv, RequestAtStep
  <2>12. wire[f][a].st \in Late => p \in Remembered \/ (Direct /\ dest[f] = "ours")
    BY <1>6, <2>3, <2>11 DEF FileInv, RequestsKnown
  <2>13. Fits(f, p, ent[f].st)
    BY <1>6, <2>3, <2>12 DEF Fits, FileInv, EntryAgrees, EarlyPhases
  <2> QED BY <1>1, <1>3, <1>4, <1>5, <2>9, <2>10, <2>13, StepContinues
<1> QED BY <1>7, <1>8

LEMMA FailEntryKeeps ==
    ASSUME IInv, FailEntry
    PROVE  IInv'
<1>1. /\ run.pc = "f2" /\ run.pc \in StepPCs /\ Go("f3")
      /\ UNCHANGED <<job, att, mem, cancels, remote, budget>>
  BY DEF FailEntry, At, StepPCs, PCs, JobPCs, BulkPCs
<1> PICK f \in Files : F = f
  BY <1>1, StepFile
<1> DEFINE s == CASE run.err = "conflict" -> "conflict"
                  [] run.err = "unknown" -> "outcome_unknown"
                  [] OTHER -> "failed"
           e == [ent[f] EXCEPT !.timer = "none", !.st = s]
<1>2. /\ s \in EntryStates \ Success /\ (PointRetryable(run.err) => s = "failed")
      /\ ent[f] \in EntryRows
  BY StoreTypes DEF EntryStates, Success, Active, PointRetryable, EntRows
<1>3. EntryWritten(f, e)
  BY StoreTypes DEF FailEntry, EntRows, EntryRows, EntryWritten
<1> HIDE DEF s
<1>4. /\ e \in EntryRows /\ e.at = ent[f].at /\ e.point = ent[f].point /\ e.ptries = ent[f].ptries
      /\ e.timer = "none" /\ e.st = s
  BY <1>2 DEF EntryRows
<1> HIDE DEF e
<1>5. ent' \in EntRows /\ ent'[f] = e /\ \A g \in Files : g # f => ent'[g] = ent[g]
  BY <1>3, <1>4, EntryTo
<1>6. /\ run' \in RunStates /\ run'.pc = "f3" /\ run'.f = f /\ run'.point = run.point
      /\ run'.err = run.err
  BY <1>1, RunGoes, StoreTypes DEF F, PCs
<1>7. TypeOK'
  BY <1>1, <1>5, <1>6, StoreTypes, TypeStep
<1>8. OnlyPhase(f, Phase(f)) /\ FileInv(f)
  <2>1. IInv /\ mem'.creds = mem.creds
    BY <1>1
  <2>2. \A g \in Files, b \in Attempts : att'[g][b] = att[g][b]
    BY <1>1
  <2>3. ent[f].at \in 0..MaxAttempts /\ (ent[f].at > 0 => Phase(f) = att[f][ent[f].at].ph)
    BY RowFields, CurrentRow DEF IInv
  <2> QED BY <2>2, <2>3 DEF OnlyPhase, Attempts, IInv, FileInv, RowsInOrder
<1>9. Stays(f, Phase(f), s)
  BY <1>1, <1>4, <1>5, <1>8 DEF Stays, remote
<1>10. Fits(f, Phase(f), s)
  <2>1. CASE ent[f].at = 0
    BY <1>2, <2>1, RowFields DEF IInv, Fits, Phase, NoAttempt
  <2>2. CASE ent[f].at > 0
    BY <1>2, <1>8, <2>2, CurrentRow DEF Fits, FileInv, RequestsKnown, EntryAgrees
  <2> QED BY <2>1, <2>2, RowFields DEF IInv
<1>11. "f3" \in StepPCs /\ "f3" \notin PointPCs
  BY DEF StepPCs, PCs, JobPCs, BulkPCs, PointPCs
<1>12. PhaseAtStep' /\ RequestAtStep'
  BY <1>2, <1>4, <1>5, <1>6 DEF PhaseAtStep, RequestAtStep, UploadPCs, StagePCs, F, PointRetryable
<1> QED BY <1>1, <1>2, <1>6, <1>7, <1>9, <1>10, <1>11, <1>12, StepContinues

\* A point retry of f is put off: nothing else changes.
LEMMA PointPutOff ==
    ASSUME IInv, TypeOK', run.pc \in StepPCs, NEW f \in Files, F = f, run.point, ~job.stop,
           ent[f].at > 0, ent[f].st = "failed", run' = Idle, mem'.creds = mem.creds,
           UNCHANGED <<job, att, cancels, remote>>,
           \A g \in Files : g # f => ent'[g] = ent[g],
           ent'[f] = [ent[f] EXCEPT !.timer = "future"]
    PROVE  IInv'
<1>1. /\ Busy \subseteq {f} /\ ent[f].point /\ ent[f].ptries >= 1 /\ run.pc # "idle"
      /\ job.st = "running"
  BY DEF IInv, Holder, JobInv, StepPCs, JobPCs
<1>2. ent[f] \in EntryRows
  BY StoreTypes DEF EntRows
<1>3. /\ ent'[f].at = ent[f].at /\ ent'[f].point = ent[f].point /\ ent'[f].st = ent[f].st
      /\ ent'[f].ptries = ent[f].ptries /\ ent'[f].timer = "future"
  BY <1>2 DEF EntryRows
<1>4. run'.pc = "idle" /\ run'.f = NoFile /\ ~run'.point
  BY DEF Idle
<1>5. \A g \in Files : ent'[g].st = ent[g].st /\ ent'[g].point = ent[g].point
  BY <1>3
<1>6. Busy' = Busy
  BY <1>5 DEF Busy, Pointed, ActiveFiles
<1>7. ASSUME NEW g \in Files, g # f
      PROVE  FileInv(g)'
  BY <1>7, FileKept, RowFields DEF IInv, remote
<1>8. FileInv(f) /\ Phase(f)' = Phase(f)
  BY <1>3 DEF IInv, Phase, Row, NoAttempt
<1>9. RowsInOrder(f)' /\ RequestsKnown(f)'
  BY <1>3, <1>8 DEF FileInv, RowsInOrder, RequestsKnown, Direct, remote
<1>10. EntryAgrees(f)'
  BY <1>1, <1>3, <1>8 DEF FileInv, EntryAgrees, Success, remote
<1>11. Holder'
  BY <1>1, <1>4, <1>6 DEF Holder, JobPCs, PointPCs
<1>12. PhaseAtStep' /\ RequestAtStep'
  BY <1>4 DEF PhaseAtStep, RequestAtStep, StagePCs, UploadPCs
<1>13. JobInv' /\ BulkInv'
  BY <1>1, <1>4 DEF IInv, JobInv, BulkInv, BulkPCs
<1>14. PointInv'
  BY <1>1, <1>4, <1>5 DEF IInv, PointInv
<1> QED BY <1>7, <1>9, <1>10, <1>11, <1>12, <1>13, <1>14 DEF IInv, FileInv

LEMMA FailJobKeeps ==
    ASSUME IInv, FailJob
    PROVE  IInv'
<1>1. /\ run.pc = "f3" /\ run.pc \in StepPCs /\ run' = Idle
      /\ UNCHANGED <<att, cancels, remote, budget>>
  BY DEF FailJob, At, StepPCs, PCs, JobPCs, BulkPCs
<1> PICK f \in Files : F = f
  BY <1>1, StepFile
<1> DEFINE finishes == run.point /\ ent[f].point /\ ~job.stop /\ ~RetriesPoint(run.err)
           alert == job.retry /\ (\/ Interrupted(run.err)
                                  \/ Uncertain(run.err) /\ ~run.point)
<1>2. /\ mem' \in Mems /\ (mem'.creds <=> mem.creds /\ ~Auth(run.err))
      /\ (~Auth(run.err) => mem'.creds = mem.creds)
  <2>1. (mem.creds /\ ~Auth(run.err)) \in BOOLEAN
    OBVIOUS
  <2> QED BY <2>1, StoreTypes DEF FailJob, Mems
<1>3. job.st = "running" /\ (mem.creds \/ job.stop) /\ job \in JobRows
  BY <1>1, StoreTypes DEF IInv, JobInv, BulkPCs
<1>4. CASE RetriesPoint(run.err)
  <2>1. /\ run.point /\ ~job.stop /\ ent[f].at > 0 /\ PointRetryable(run.err)
        /\ ~Auth(run.err) /\ ~alert /\ ~finishes
    BY <1>4 DEF RetriesPoint, PointRetryable, Auth, Interrupted, Uncertain
  <2>2. ent' = [ent EXCEPT ![f].timer = "future"] /\ job' = job
    BY <1>4, <2>1 DEF FailJob
  <2>3. ent[f].st = "failed"
    BY <1>1, <2>1 DEF IInv, PhaseAtStep
  <2>4. /\ ent' \in EntRows /\ ent'[f] = [ent[f] EXCEPT !.timer = "future"]
        /\ \A g \in Files : g # f => ent'[g] = ent[g]
    BY <2>2, StoreTypes DEF EntRows, EntryRows
  <2>5. TypeOK'
    BY <1>1, <1>2, <2>2, <2>4, IdleState, StoreTypes, TypeStep
  <2> QED BY <1>1, <1>2, <2>1, <2>2, <2>3, <2>4, <2>5, PointPutOff
<1>5. CASE finishes
  <2>1. ent' = Finished(f)
    BY <1>5 DEF FailJob
  <2>2. ent[f].point /\ ~job.stop
    BY <1>5
  <2> DEFINE e == [ent[f] EXCEPT !.point = FALSE, !.timer = "none"]
  <2>3. e \in EntryRows /\ e.at = ent[f].at /\ ~e.point /\ e.timer = "none" /\ e.st = ent[f].st
    BY StoreTypes DEF EntRows, EntryRows
  <2>4. EntryWritten(f, e)
    BY <2>1, StoreTypes DEF Finished, EntRows, EntryRows, EntryWritten
  <2> HIDE DEF e
  <2>5. ent' \in EntRows /\ ent'[f] = e /\ \A g \in Files : g # f => ent'[g] = ent[g]
    BY <2>3, <2>4, EntryTo
  <2>6. \/ Auth(run.err) /\ job' = JobError("awaiting_credentials", "needs_attention")
        \/ ~Auth(run.err) /\ job' = JobError("needs_attention", job.resume)
        \/ ~Auth(run.err) /\ job' = FinishedJob(ent')
    BY <1>5, <2>1 DEF FailJob
  <2>7. /\ job' \in JobRows /\ job'.direct = job.direct /\ job'.stop = job.stop
        /\ job'.st # "stopped" /\ (Auth(run.err) => job'.st = "awaiting_credentials")
        /\ job'.st \in {"completed", "completed_with_issues"} =>
              \A g \in Files : ent'[g].st \notin Active \cup {"planned"}
        /\ job'.st = "completed" => \A g \in Files : ent'[g].st \in Success
    <3>1. CASE Auth(run.err) /\ job' = JobError("awaiting_credentials", "needs_attention")
      BY <1>3, <2>2, <3>1, JobErrorFits DEF JobStates
    <3>2. CASE ~Auth(run.err) /\ job' = JobError("needs_attention", job.resume)
      <4>1. job.resume \in JobStates \cup {"none"}
        BY <1>3 DEF JobRows
      <4>2. PICK r \in JobStates \cup {"none"} : r = job.resume
        BY <4>1
      <4> QED BY <1>3, <2>2, <3>2, <4>2, JobErrorFits DEF JobStates
    <3>3. CASE ~Auth(run.err) /\ job' = FinishedJob(ent')
      BY <1>3, <2>2, <3>3, FinishedJobFits
    <3> QED BY <2>6, <3>1, <3>2, <3>3
  <2>8. TypeOK'
    BY <1>1, <1>2, <2>5, <2>7, IdleState DEF IInv, TypeOK, EntRows, Mems, remote
  <2>9. ~mem'.creds => job'.st = "awaiting_credentials"
    BY <1>2, <1>3, <2>2, <2>7
  <2>10. UNCHANGED <<att, dest, wire>>
    BY <1>1 DEF remote
  <2> QED BY <1>1, <2>2, <2>3, <2>5, <2>7, <2>8, <2>9, <2>10, RequestClosed
<1>6. CASE ~RetriesPoint(run.err) /\ ~finishes
  <2>1. ent' = ent
    BY <1>6 DEF FailJob
  <2>2. \/ Auth(run.err) /\ job' = JobError("awaiting_credentials", "needs_attention")
        \/ ~Auth(run.err) /\ job' = JobError("needs_attention", job.resume)
        \/ ~Auth(run.err) /\ job' = job
    BY <1>6 DEF FailJob
  <2>3. /\ job' \in JobRows /\ job'.direct = job.direct /\ job'.stop = job.stop
        /\ job'.retry = job.retry
        /\ job'.st \in {"awaiting_credentials", "needs_attention", job.st}
        /\ (Auth(run.err) => job.stop \/ job'.st = "awaiting_credentials")
    <3>1. CASE Auth(run.err) /\ job' = JobError("awaiting_credentials", "needs_attention")
      BY <1>3, <3>1, JobErrorFits DEF JobStates
    <3>2. CASE ~Auth(run.err) /\ job' = JobError("needs_attention", job.resume)
      <4>1. job.resume \in JobStates \cup {"none"}
        BY <1>3 DEF JobRows
      <4>2. PICK r \in JobStates \cup {"none"} : r = job.resume
        BY <4>1
      <4> QED BY <1>3, <3>2, <4>2, JobErrorFits DEF JobStates
    <3> QED BY <1>3, <2>2, <3>1, <3>2
  <2>4. ~mem'.creds => job.stop \/ job'.st = "awaiting_credentials"
    BY <1>2, <1>3, <2>3
  <2> QED BY <1>1, <1>2, <2>1, <2>3, <2>4, JobRaised
<1> QED BY <1>4, <1>5, <1>6

----------------------------------------------------------------------------
(* The scheduling step. *)

\* The rows stand as they are.
LEMMA RowsStand ==
    ASSUME IInv, UNCHANGED <<ent, att, dest, wire>>, job'.direct = job.direct
    PROVE  /\ \A f \in Files : FileInv(f)' /\ Phase(f)' = Phase(f)
           /\ Busy' = Busy /\ Pointed' = Pointed /\ ActiveFiles' = ActiveFiles
<1>1. \A f \in Files : FileInv(f)'
  BY FileKept, RowFields DEF IInv
<1>2. \A f \in Files : Phase(f)' = Phase(f)
  BY DEF Phase, Row
<1> QED BY <1>1, <1>2 DEF Busy, Pointed, ActiveFiles

\* Only the job's row and the volatile state change.
LEMMA JobChanges ==
    ASSUME IInv, TypeOK', UNCHANGED <<ent, att, run, dest, wire>>,
           job'.direct = job.direct, job'.stop = job.stop, JobInv', BulkInv', PointInv'
    PROVE  IInv'
<1>1. (\A f \in Files : FileInv(f)') /\ Busy' = Busy /\ Direct' = Direct
  BY RowsStand DEF Direct
<1>2. Holder'
  BY <1>1 DEF IInv, Holder, F
<1>3. PhaseAtStep'
  <2>1. Phase(F)' = Phase(F) /\ Row(F)' = Row(F)
    BY DEF F, Phase, Row
  <2> QED BY <1>1, <2>1 DEF IInv, PhaseAtStep, F
<1>4. RequestAtStep'
  <2>1. Phase(F)' = Phase(F)
    BY DEF F, Phase, Row
  <2> QED BY <1>1, <2>1 DEF IInv, RequestAtStep, F
<1> QED BY <1>1, <1>2, <1>3, <1>4 DEF IInv

LEMMA ParkAwaitingKeeps ==
    ASSUME IInv, ParkAwaiting
    PROVE  IInv'
<1>1. /\ job' = [job EXCEPT !.resume = "paused"] /\ job \in JobRows
      /\ UNCHANGED <<ent, att, run, mem, cancels, remote, budget>>
  BY StoreTypes DEF ParkAwaiting, remote
<1>2. job' \in JobRows
  BY <1>1 DEF JobRows, JobStates
<1>3. TypeOK'
  BY <1>1, <1>2 DEF IInv, TypeOK, remote
<1>4. job'.st = job.st /\ job'.stop = job.stop /\ job'.direct = job.direct /\ job'.retry = job.retry
  BY <1>1 DEF JobRows
<1>5. Busy' = Busy
  BY <1>1, <1>4, RowsStand DEF remote
<1>6. JobInv' /\ BulkInv' /\ PointInv'
  BY <1>1, <1>4, <1>5 DEF IInv, JobInv, BulkInv, PointInv, F
<1> QED BY <1>1, <1>3, <1>4, <1>6, JobChanges DEF remote

\* The job takes the state s while the guard is free.
LEMMA JobParks ==
    ASSUME IInv, Runnable, NEW s \in JobStates \ {"stopped"}, job' = [job EXCEPT !.st = s],
           s \in {"completed", "completed_with_issues"} => Busy = {},
           s = "completed" => \A f \in Files : ent[f].st \in Success,
           UNCHANGED <<ent, att, run, mem, cancels, remote, budget>>
    PROVE  IInv'
<1>1. run.pc = "idle" /\ job.st = "running" /\ ~job.stop /\ job \in JobRows
  BY StoreTypes DEF Runnable, At
<1>2. /\ job' \in JobRows /\ job'.st = s /\ job'.stop = job.stop /\ job'.direct = job.direct
      /\ job'.retry = job.retry
  BY <1>1 DEF JobRows
<1>3. TypeOK'
  BY <1>2 DEF IInv, TypeOK, remote
<1>4. Busy' = Busy
  BY <1>2, RowsStand DEF remote
<1>5. mem.creds
  BY <1>1 DEF IInv, JobInv
<1>6. JobInv'
  BY <1>1, <1>2, <1>4, <1>5 DEF IInv, JobInv, BulkPCs
<1>7. BulkInv' /\ PointInv'
  BY <1>1, <1>2 DEF IInv, BulkInv, PointInv, BulkPCs
<1> QED BY <1>2, <1>3, <1>6, <1>7, JobChanges DEF remote

LEMMA RefuseNamespaceKeeps ==
    ASSUME IInv, RefuseNamespace
    PROVE  IInv'
<1>1. "needs_attention" \in JobStates \ {"stopped"}
  BY DEF JobStates
<1> QED BY <1>1, JobParks DEF RefuseNamespace, remote

LEMMA CompleteJobKeeps ==
    ASSUME IInv, CompleteJob
    PROVE  IInv'
<1>1. /\ Runnable /\ Pointed = {} /\ \A f \in Files : ent[f].st \notin Active
      /\ UNCHANGED <<ent, att, run, mem, cancels, remote, budget>>
  BY DEF CompleteJob, remote
<1>2. PICK s \in {"needs_attention", "completed", "completed_with_issues"} :
          /\ job' = [job EXCEPT !.st = s]
          /\ s = "completed" => \A f \in Files : ent[f].st \in Success
  BY DEF CompleteJob
<1>3. s \in JobStates \ {"stopped"} /\ Busy = {}
  BY <1>1 DEF JobStates, Busy, ActiveFiles
<1> QED BY <1>1, <1>2, <1>3, JobParks

LEMMA ParkPausedKeeps ==
    ASSUME IInv, ParkPaused
    PROVE  IInv'
<1>1. /\ Runnable /\ run.pc = "idle" /\ job.st = "running" /\ ~job.stop
      /\ job' = [job EXCEPT !.st = "paused"] /\ job \in JobRows
      /\ UNCHANGED <<att, run, mem, cancels, remote, budget>>
  BY StoreTypes DEF ParkPaused, Runnable, At, remote
<1> DEFINE noted(g) == ActiveFiles # {} /\ ent[g].point /\ Phase(g) \in UnknownPhases
<1>2. \A g \in Files : ent'[g] = IF noted(g) THEN [ent[g] EXCEPT !.st = "outcome_unknown"] ELSE ent[g]
  BY DEF ParkPaused
<1>3. \A g \in Files : ent[g] \in EntryRows
  BY StoreTypes DEF EntRows
<1>4. ASSUME NEW g \in Files
      PROVE  /\ ent'[g] \in EntryRows /\ ent'[g].at = ent[g].at /\ ent'[g].point = ent[g].point
             /\ ent'[g].timer = ent[g].timer /\ ent'[g].ptries = ent[g].ptries
             /\ ent'[g].st = IF noted(g) THEN "outcome_unknown" ELSE ent[g].st
  BY <1>2, <1>3 DEF EntryRows, EntryStates
<1>5. ASSUME NEW g \in Files, noted(g)
      PROVE  ent[g].timer = "none"
  <2>1. ent[g].st \in Active
    BY <1>5 DEF IInv, Holder, Busy, ActiveFiles, Pointed
  <2> QED BY <1>5, <2>1 DEF IInv, FileInv, EntryAgrees, Active
<1> HIDE DEF noted
<1>6. ent' \in EntRows
  BY <1>4 DEF ParkPaused, EntRows
<1>7. /\ job' \in JobRows /\ job'.st = "paused" /\ job'.stop = job.stop /\ job'.direct = job.direct
      /\ job'.retry = job.retry
  BY <1>1 DEF JobRows, JobStates
<1>8. TypeOK'
  BY <1>1, <1>6, <1>7 DEF IInv, TypeOK, EntRows, remote
<1>9. Pointed' = Pointed /\ ActiveFiles' \subseteq ActiveFiles /\ Busy' \subseteq Busy
  BY <1>4 DEF Pointed, ActiveFiles, Busy, Active
<1>10. ASSUME NEW g \in Files
       PROVE  FileInv(g)'
  <2>1. FileInv(g) /\ Phase(g)' = Phase(g) /\ Direct' = Direct /\ dest' = dest /\ wire' = wire
    BY <1>1, <1>4, <1>7 DEF IInv, Phase, Row, Direct, remote
  <2>2. RowsInOrder(g)' /\ RequestsKnown(g)'
    BY <1>1, <1>4, <2>1 DEF FileInv, RowsInOrder, RequestsKnown
  <2>3. EntryAgrees(g)'
    BY <1>4, <1>5, <2>1 DEF FileInv, EntryAgrees, Success
  <2> QED BY <2>2, <2>3 DEF FileInv
<1>11. run = Idle /\ run'.pc = "idle" /\ run'.f = NoFile /\ ~run'.point
  BY <1>1 DEF IInv, Holder, Idle
<1>12. Holder'
  BY <1>1, <1>9, <1>11 DEF IInv, Holder, JobPCs, PointPCs
<1>13. PhaseAtStep' /\ RequestAtStep'
  BY <1>11 DEF PhaseAtStep, RequestAtStep, StagePCs, UploadPCs
<1>14. JobInv' /\ BulkInv'
  BY <1>1, <1>4, <1>7, <1>11 DEF IInv, JobInv, BulkInv, BulkPCs
<1>15. PointInv'
  <2>1. ASSUME NEW g \in Files, g \in cancels, ent[g].point
        PROVE  ~noted(g) /\ ~job.retry
    <3>1. ent[g].st = "failed" /\ ~job.retry
      BY <2>1 DEF IInv, PointInv
    <3>2. ASSUME noted(g)
          PROVE  FALSE
      BY <3>1, <3>2 DEF noted, IInv, Holder, Busy, ActiveFiles, Pointed, Active
    <3> QED BY <3>1, <3>2
  <2> QED BY <1>1, <1>4, <1>7, <1>11, <2>1 DEF IInv, PointInv
<1> QED BY <1>8, <1>10, <1>12, <1>13, <1>14, <1>15 DEF IInv

\* The guard is taken for the job itself, or for the claim of its root.
LEMMA JobStep ==
    ASSUME IInv, TypeOK', run.pc \in JobPCs, run'.pc \in {"idle", "claim"},
           run'.pc = "idle" => run' = Idle, run'.f = NoFile, ~run'.point,
           UNCHANGED <<ent, att, dest, wire, cancels>>,
           job'.direct = job.direct, job'.stop = job.stop, job'.retry = job.retry,
           Pointed = {} \/ run'.pc = "idle",
           JobInv'
    PROVE  IInv'
<1>1. /\ \A f \in Files : FileInv(f)'
      /\ Busy' = Busy /\ Pointed' = Pointed
  BY RowsStand
<1>2. Holder'
  BY <1>1 DEF IInv, Holder, JobPCs, PointPCs
<1>3. PhaseAtStep' /\ RequestAtStep'
  BY DEF PhaseAtStep, RequestAtStep, StagePCs, UploadPCs
<1>4. BulkInv' /\ PointInv'
  BY <1>1 DEF IInv, BulkInv, PointInv, BulkPCs, Pointed
<1> QED BY <1>1, <1>2, <1>3, <1>4 DEF IInv

LEMMA BeginClaimKeeps ==
    ASSUME IInv, BeginClaim
    PROVE  IInv'
<1>1. /\ run.pc = "idle" /\ job.st = "running" /\ ~job.stop /\ Pointed = {}
      /\ job' = [job EXCEPT !.ns = "intent"] /\ run' = [Idle EXCEPT !.pc = "claim"]
      /\ job \in JobRows /\ UNCHANGED <<ent, att, mem, cancels, remote, budget>>
  BY StoreTypes DEF BeginClaim, Runnable, At, remote
<1>2. /\ job' \in JobRows /\ job'.st = job.st /\ job'.stop = job.stop /\ job'.direct = job.direct
      /\ job'.retry = job.retry
  BY <1>1 DEF JobRows
<1>3. run'.pc = "claim" /\ run'.f = NoFile /\ ~run'.point /\ run' \in RunStates
  BY <1>1 DEF Idle, RunStates, PCs
<1>4. TypeOK'
  BY <1>1, <1>2, <1>3 DEF IInv, TypeOK, remote
<1>5. Busy' = Busy
  BY <1>1, <1>2, RowsStand DEF remote
<1>6. JobInv'
  BY <1>1, <1>2, <1>3, <1>5 DEF IInv, JobInv
<1> QED BY <1>1, <1>2, <1>3, <1>4, <1>6, JobStep DEF JobPCs, remote

LEMMA EndClaimKeeps ==
    ASSUME IInv, EndClaim
    PROVE  IInv'
<1>1. /\ run.pc = "claim" /\ run' = Idle /\ UNCHANGED <<ent, att, cancels, remote, budget>>
  BY DEF EndClaim, At, remote
<1>2. PICK ns \in {"owned", "unclaimed", "unknown"}, auth \in BOOLEAN :
          /\ job' = [(IF ns = "owned" THEN job
                      ELSE IF auth THEN JobError("awaiting_credentials", "needs_attention")
                      ELSE JobError("needs_attention", job.resume)) EXCEPT !.ns = ns]
          /\ mem' = [mem EXCEPT !.creds = @ /\ ~auth]
          /\ auth => ns = "unclaimed"
  BY DEF EndClaim
<1>3. job \in JobRows /\ job.st = "running" /\ (mem.creds \/ job.stop) /\ mem \in Mems
  BY <1>1, StoreTypes DEF IInv, JobInv, BulkPCs
<1> DEFINE j == IF ns = "owned" THEN job
                ELSE IF auth THEN JobError("awaiting_credentials", "needs_attention")
                ELSE JobError("needs_attention", job.resume)
<1>4. /\ j \in JobRows /\ j.direct = job.direct /\ j.stop = job.stop /\ j.retry = job.retry
      /\ j.st \in {"awaiting_credentials", "needs_attention", "running"}
      /\ auth => job.stop \/ j.st = "awaiting_credentials"
  <2>1. PICK r \in JobStates \cup {"none"} : r = job.resume
    BY <1>3 DEF JobRows
  <2>2. CASE ns = "owned"
    BY <1>2, <1>3, <2>2
  <2>3. CASE ns # "owned" /\ auth
    BY <1>3, <2>3, JobErrorFits DEF JobStates
  <2>4. CASE ns # "owned" /\ ~auth
    <3>1. j = JobError("needs_attention", r)
      BY <2>1, <2>4
    <3> QED BY <1>3, <2>4, <3>1, JobErrorFits DEF JobStates
  <2> QED BY <2>2, <2>3, <2>4
<1>5. job' = [j EXCEPT !.ns = ns]
  BY <1>2
<1> HIDE DEF j
<1>6. /\ job' \in JobRows /\ job'.direct = job.direct /\ job'.stop = job.stop
      /\ job'.retry = job.retry /\ job'.st = j.st
  BY <1>4, <1>5 DEF JobRows
<1>7. mem' \in Mems /\ (~mem'.creds => job.stop \/ auth)
  <2>1. (mem.creds /\ ~auth) \in BOOLEAN
    OBVIOUS
  <2> QED BY <1>2, <1>3, <2>1 DEF Mems
<1>8. run'.pc = "idle" /\ run'.f = NoFile /\ ~run'.point
  BY <1>1 DEF Idle
<1>9. TypeOK'
  BY <1>1, <1>6, <1>7, IdleState DEF IInv, TypeOK, Mems, remote
<1>10. JobInv'
  BY <1>1, <1>3, <1>4, <1>6, <1>7, <1>8 DEF IInv, JobInv, BulkPCs
<1> QED BY <1>1, <1>6, <1>8, <1>9, <1>10, JobStep DEF JobPCs, remote

\* The guard is taken for the ordinary step of f.
LEMMA EntryTaken ==
    ASSUME IInv, Runnable, Pointed = {}, NEW f \in Files, Busy \subseteq {f}, ent[f].st \notin Success,
           run'.pc \in {"file", "f1"}, run' \in RunStates, run'.f = f, ~run'.point,
           run'.pc = "f1" => Phase(f) \notin Remembered,
           UNCHANGED <<job, ent, att, mem, cancels, dest, temp, wire, source, budget>>
    PROVE  IInv'
<1>1. run.pc = "idle" /\ job.st = "running" /\ ~job.stop
  BY DEF Runnable, At
<1>2. TypeOK'
  BY DEF IInv, TypeOK
<1>3. /\ \A g \in Files : FileInv(g)' /\ Phase(g)' = Phase(g)
      /\ Busy' = Busy /\ Pointed' = Pointed
  BY RowsStand
<1>4. Holder'
  BY <1>1, <1>3 DEF IInv, Holder, JobPCs, PointPCs, F
<1>5. PhaseAtStep'
  BY DEF PhaseAtStep, StagePCs
<1>6. RequestAtStep'
  BY <1>3 DEF RequestAtStep, UploadPCs, StagePCs, F
<1>7. JobInv'
  BY <1>1, <1>3 DEF IInv, JobInv
<1>8. BulkInv' /\ PointInv'
  BY <1>3 DEF BulkInv, PointInv, BulkPCs, Pointed
<1> QED BY <1>2, <1>3, <1>4, <1>5, <1>6, <1>7, <1>8 DEF IInv

LEMMA BeginActiveKeeps ==
    ASSUME IInv, NEW f \in Files, BeginActive(f)
    PROVE  IInv'
<1>1. /\ Runnable /\ Pointed = {} /\ f \in ActiveFiles
      /\ UNCHANGED <<job, ent, att, mem, cancels, dest, temp, wire, source, budget>>
  BY DEF BeginActive
<1>2. Busy \subseteq {f} /\ ent[f].st \notin Success
  BY <1>1 DEF IInv, Holder, Busy, ActiveFiles, Active, Success
<1>3. CASE Phase(f) = "download_retry_wait" /\ run' = [Idle EXCEPT !.pc = "f1", !.f = f, !.err = "srcDl"]
  <2>1. run' \in RunStates /\ run'.pc = "f1" /\ run'.f = f /\ ~run'.point
    BY <1>3 DEF Idle, RunStates, PCs, Errors
  <2>2. Phase(f) \notin Remembered
    BY <1>3 DEF Remembered, UnknownPhases, Waiting, AbandonedPhases
  <2> QED BY <1>1, <1>2, <2>1, <2>2, EntryTaken
<1>4. CASE run' = [Idle EXCEPT !.pc = "file", !.f = f]
  <2>1. run' \in RunStates /\ run'.pc = "file" /\ run'.f = f /\ ~run'.point
    BY <1>4 DEF Idle, RunStates, PCs
  <2> QED BY <1>1, <1>2, <2>1, EntryTaken
<1> QED BY <1>3, <1>4 DEF BeginActive

LEMMA BeginPlannedKeeps ==
    ASSUME IInv, NEW f \in Files, BeginPlanned(f)
    PROVE  IInv'
<1>1. /\ Runnable /\ Pointed = {} /\ ActiveFiles = {} /\ ent[f].st = "planned"
      /\ run' = [Idle EXCEPT !.pc = "file", !.f = f]
      /\ UNCHANGED <<job, ent, att, mem, cancels, dest, temp, wire, source, budget>>
  BY DEF BeginPlanned
<1>2. Busy \subseteq {f} /\ ent[f].st \notin Success
  BY <1>1 DEF Busy, Success
<1>3. run' \in RunStates /\ run'.pc = "file" /\ run'.f = f /\ ~run'.point
  BY <1>1 DEF Idle, RunStates, PCs
<1> QED BY <1>1, <1>2, <1>3, EntryTaken

\* A try of the point retry of f begins or goes on.
LEMMA BeginPointKeeps ==
    ASSUME IInv, NEW f \in Files, BeginPoint(f)
    PROVE  IInv'
<1>1. /\ run.pc = "idle" /\ job.st = "running" /\ ~job.stop /\ ent[f].point
      /\ UNCHANGED <<att, mem, cancels, dest, temp, wire, source, budget>>
  BY DEF BeginPoint, Runnable, At, Pointed
<1>2. run = Idle /\ Busy \subseteq {f} /\ ent[f] \in EntryRows
  BY <1>1, StoreTypes DEF IInv, Holder, Busy, Pointed, EntRows
<1> DEFINE s == IF Phase(f) \in UnknownPhases THEN "outcome_unknown" ELSE ent[f].st
<1>3. Noted(f) = [ent EXCEPT ![f].st = s] /\ s \in {ent[f].st, "outcome_unknown"}
  BY StoreTypes DEF Noted, EntRows, EntryRows
<1>4. s \in EntryStates
  BY <1>2 DEF EntryRows, EntryStates
<1>5. CASE /\ ent' = [Finished(f) EXCEPT ![f].st = Noted(f)[f].st]
           /\ job' = FinishedJob(ent') /\ run' = run
  <2>1. Noted(f)[f].st = s
    BY <1>2, <1>3, StoreTypes DEF EntRows, EntryRows
  <2>2. PICK x \in {ent[f].st, "outcome_unknown"} : x = s
    BY <1>3
  <2>3. ent' = [Finished(f) EXCEPT ![f].st = x]
    BY <1>5, <2>1, <2>2
  <2>4. run' = Idle /\ cancels' \subseteq cancels /\ UNCHANGED <<att, mem, remote, budget>>
    BY <1>1, <1>2, <1>5 DEF remote
  <2> QED BY <1>1, <1>5, <2>3, <2>4, FinishedKeeps
<1>6. CASE /\ ~(BeginsTry(f) /\ ent[f].ptries >= PointLimit) /\ ent[f].timer # "future"
           /\ ent' = IF BeginsTry(f)
                     THEN [Noted(f) EXCEPT ![f].ptries = @ + 1, ![f].timer = "none"] ELSE ent
           /\ run' = [Idle EXCEPT !.pc = "pt", !.f = f, !.point = TRUE] /\ job' = job
  <2> DEFINE e == IF BeginsTry(f)
                  THEN [ent[f] EXCEPT !.st = s, !.ptries = ent[f].ptries + 1, !.timer = "none"]
                  ELSE ent[f]
  <2>1. EntryWritten(f, e)
    <3>1. CASE BeginsTry(f)
      BY <1>2, <1>3, <1>6, <3>1, StoreTypes DEF EntryWritten, EntRows, EntryRows
    <3>2. CASE ~BeginsTry(f)
      BY <1>6, <3>2, StoreTypes DEF EntryWritten, EntRows
    <3> QED BY <3>1, <3>2
  <2>2. /\ PointLimit \in 1..MaxPointTries /\ (~job.retry => PointLimit = 1)
        /\ ent[f].ptries \in Nat
    BY <1>2, TransferAssumption DEF PointLimit, EntryRows
  <2>3. BeginsTry(f) => ent[f].ptries < PointLimit
    BY <1>6, <2>2
  <2>4. ent[f].timer # "none" => BeginsTry(f)
    BY <1>1 DEF IInv, FileInv, EntryAgrees, BeginsTry
  <2>5. ~BeginsTry(f) => ent[f].ptries # 0
    BY DEF BeginsTry
  <2> HIDE DEF s
  <2>6. /\ e \in EntryRows /\ e.at = ent[f].at /\ e.point /\ e.timer = "none" /\ e.ptries >= 1
        /\ e.st \in {ent[f].st, "outcome_unknown"}
    <3>1. CASE BeginsTry(f)
      <4>1. ent[f].ptries + 1 \in 0..MaxPointTries
        BY <2>2, <2>3, <3>1, TransferAssumption
      <4> DEFINE n == ent[f].ptries + 1
      <4>2. n >= 1 /\ n \in 0..MaxPointTries
        BY <2>2, <4>1
      <4>3. e = [ent[f] EXCEPT !.st = s, !.ptries = n, !.timer = "none"]
        BY <3>1
      <4> HIDE DEF n, e
      <4> QED BY <1>1, <1>2, <1>3, <1>4, <4>2, <4>3 DEF EntryRows
    <3>2. CASE ~BeginsTry(f)
      BY <1>1, <1>2, <2>2, <2>4, <2>5, <3>2 DEF EntryRows
    <3> QED BY <3>1, <3>2
  <2> HIDE DEF e
  <2>7. ent' \in EntRows /\ ent'[f] = e /\ \A g \in Files : g # f => ent'[g] = ent[g]
    BY <2>1, <2>6, EntryTo
  <2>8. run' \in RunStates /\ run'.pc = "pt" /\ run'.f = f /\ run'.point
    BY <1>6 DEF Idle, RunStates, PCs
  <2>9. TypeOK'
    BY <1>1, <1>6, <2>7, <2>8 DEF IInv, TypeOK, EntRows
  <2>10. ASSUME NEW g \in Files, g # f
         PROVE  FileInv(g)'
    BY <1>1, <1>6, <2>7, <2>10, FileKept, RowFields DEF IInv
  <2>11. FileInv(f) /\ Phase(f)' = Phase(f) /\ Direct' = Direct
    <3>1. ent'[f].at = ent[f].at
      BY <2>6, <2>7
    <3> QED BY <1>1, <1>6, <3>1 DEF IInv, Phase, Row, Direct
  <2>12. RowsInOrder(f)' /\ RequestsKnown(f)'
    BY <1>1, <2>6, <2>7, <2>11 DEF FileInv, RowsInOrder, RequestsKnown
  <2>13. EntryAgrees(f)'
    BY <1>1, <2>6, <2>7, <2>11 DEF FileInv, EntryAgrees, Success
  <2>14. Busy' \subseteq {f}
    BY <1>2, <2>7 DEF Busy, ActiveFiles, Pointed
  <2>15. Holder'
    BY <2>6, <2>7, <2>8, <2>14 DEF Holder, JobPCs, PointPCs, BulkPCs, F
  <2>16. PhaseAtStep' /\ RequestAtStep'
    BY <2>8 DEF PhaseAtStep, RequestAtStep, UploadPCs, StagePCs
  <2>17. JobInv' /\ BulkInv'
    BY <1>1, <1>6, <2>6, <2>7, <2>8 DEF IInv, JobInv, BulkInv, BulkPCs
  <2>18. f \notin cancels
    <3>1. ASSUME f \in cancels
          PROVE  FALSE
      <4>1. ~job.retry /\ ent[f].st = "failed" /\ ent[f].ptries >= 1
        BY <1>1, <3>1 DEF IInv, PointInv
      <4> QED BY <2>2, <2>3, <4>1 DEF BeginsTry
    <3> QED BY <3>1
  <2>19. \A g \in Files : g # f => ~ent[g].point
    BY <1>2 DEF Busy, Pointed
  <2>20. PointInv'
    BY <1>1, <2>6, <2>7, <2>18, <2>19 DEF PointInv
  <2> QED BY <2>9, <2>10, <2>12, <2>13, <2>15, <2>16, <2>17, <2>20 DEF IInv, FileInv
<1> QED BY <1>5, <1>6 DEF BeginPoint

LEMMA ScheduleKeeps ==
    ASSUME IInv, Schedule
    PROVE  IInv'
  BY ParkPausedKeeps, ParkAwaitingKeeps, RefuseNamespaceKeeps, BeginClaimKeeps, EndClaimKeeps,
     CompleteJobKeeps, BeginPointKeeps, BeginActiveKeeps, BeginPlannedKeeps DEF Schedule

----------------------------------------------------------------------------
(* The bulk retry and the stop of a job. *)

\* The entry of f changes, and no phase.
LEMMA EntryMoves ==
    ASSUME IInv, NEW f \in Files, job'.direct = job.direct, wire'[f] = wire[f], dest'[f] = dest[f],
           ent'[f].at = ent[f].at, ent'[f].st \in Success => ent[f].st \in Success,
           ent'[f].point => Phase(f) # "download_retry_wait",
           ent'[f].point /\ ent'[f].timer # "none" =>
               ent'[f].st = "failed" /\ ent'[f].ptries >= 1 /\ ent[f].at > 0,
           \A a \in Attempts : /\ att'[f][a].ph = att[f][a].ph
                               /\ att'[f][a].copy \in {att[f][a].copy, "none"}
    PROVE  FileInv(f)' /\ Phase(f)' = Phase(f)
<1>1. FileInv(f) /\ ent[f].at \in 0..MaxAttempts /\ Direct' = Direct
  BY RowFields DEF IInv, Direct
<1>2. Phase(f)' = Phase(f)
  BY <1>1, TransferAssumption DEF Phase, Row, NoAttempt, Attempts
<1>3. RowsInOrder(f)'
  BY <1>1, TransferAssumption DEF FileInv, RowsInOrder, Attempts
<1>4. RequestsKnown(f)'
  BY <1>1 DEF FileInv, RequestsKnown
<1>5. EntryAgrees(f)'
  BY <1>1, <1>2 DEF FileInv, EntryAgrees
<1> QED BY <1>2, <1>3, <1>4, <1>5 DEF FileInv

LEMMA BulkAttemptKeeps ==
    ASSUME IInv, NEW f \in Files, BulkAttempt(f)
    PROVE  IInv'
<1>1. /\ run.pc = "bulk" /\ ~job.stop /\ f \in run.todo
      /\ UNCHANGED <<job, mem, cancels, remote, budget>>
  BY DEF BulkAttempt, Proceeds, At, remote
<1>2. /\ run.f = NoFile /\ ~run.point /\ run \in RunStates
      /\ Busy = {} /\ cancels = {} /\ mem.creds
      /\ job.st \in {"completed_with_issues", "needs_attention", "paused", "awaiting_credentials"}
      /\ \A g \in run.todo : ent[g].st = "failed" /\ ent[g].at < MaxAttempts
  BY <1>1, StoreTypes, TransferAssumption DEF IInv, Holder, BulkInv, BulkPCs, JobPCs, RunStates, F
<1>3. Pointed = {} /\ ActiveFiles = {}
  BY <1>2 DEF Busy
<1>4. CASE run' = Idle /\ UNCHANGED <<ent, att>>
  <2>1. run'.pc = "idle" /\ run'.f = NoFile /\ ~run'.point
    BY <1>4 DEF Idle
  <2>2. TypeOK'
    BY <1>1, <1>4, IdleState, StoreTypes, TypeStep
  <2>3. Busy' = Busy
    BY <1>1, <1>4, RowsStand DEF remote
  <2>4. JobInv'
    BY <1>1, <1>2, <1>4, <2>1, <2>3 DEF IInv, JobInv
  <2> QED BY <1>1, <1>4, <2>1, <2>2, <2>4, JobStep DEF JobPCs, remote
<1> PICK a \in 0..MaxAttempts : a = ent[f].at /\ a < MaxAttempts
  BY <1>1, <1>2, RowFields DEF IInv
<1> DEFINE full == Row(f).copy = "full"
           row == [NoAttempt EXCEPT !.ph = IF full THEN "staged" ELSE "prepared",
                                    !.copy = IF full THEN "full" ELSE "none"]
           old == [Row(f) EXCEPT !.err = "none", !.copy = IF full THEN "none" ELSE @]
           e == [ent[f] EXCEPT !.at = a + 1]
<1>5. CASE /\ ~(Direct /\ Phase(f) \notin {"none", "failed"})
           /\ att' = [att EXCEPT ![f] = [b \in Attempts |->
                 CASE b = a + 1 -> row [] b = a -> old [] OTHER -> @[b]]]
           /\ ent' = [ent EXCEPT ![f].at = a + 1]
           /\ run' = [run EXCEPT !.pc = "bulkEnt", !.f = f]
  <2>1. row \in AttemptRows /\ row.ph \in Local
    BY DEF AttemptRows, NoAttempt, Phases, Local, Copies
  <2>2. a > 0 => a \in Attempts /\ Row(f) = att[f][a] /\ Phase(f) = att[f][a].ph
                 /\ Phase(f) # "none"
    BY CurrentRow
  <2>3. old \in AttemptRows /\ old.ph = Phase(f)
    <3>1. Row(f) \in AttemptRows
      BY RowFields DEF IInv
    <3> QED BY <3>1 DEF AttemptRows, Copies, Phase
  <2>4. a + 1 \in Attempts /\ a + 1 \in 0..MaxAttempts
    BY TransferAssumption DEF Attempts
  <2> HIDE DEF row, old
  <2>7. /\ att'[f][a + 1] = row /\ (a > 0 => att'[f][a] = old)
        /\ \A b \in Attempts : b # a /\ b # a + 1 => att'[f][b] = att[f][b]
        /\ \A g \in Files : g # f => att'[g] = att[g]
    BY <1>5, <2>2, <2>4, StoreTypes DEF AttRows
  <2>8. att' \in AttRows
    BY <1>5, <2>1, <2>3, <2>4, StoreTypes DEF AttRows
  <2>9. EntryWritten(f, e)
    BY <1>5, StoreTypes DEF EntRows, EntryRows, EntryWritten
  <2>10. /\ e \in EntryRows /\ e.at = a + 1 /\ e.point = ent[f].point /\ e.st = ent[f].st
         /\ e.timer = ent[f].timer
    BY <2>4, StoreTypes DEF EntRows, EntryRows
  <2> HIDE DEF e
  <2>11. ent' \in EntRows /\ ent'[f] = e /\ \A g \in Files : g # f => ent'[g] = ent[g]
    BY <2>9, <2>10, EntryTo
  <2>12. /\ run' \in RunStates /\ run'.pc = "bulkEnt" /\ run'.f = f /\ ~run'.point
         /\ run'.todo = run.todo
    BY <1>2, <1>5 DEF RunStates, PCs
  <2>13. TypeOK'
    BY <1>1, <2>8, <2>11, <2>12, StoreTypes, TypeStep
  <2>14. ~ent[f].point /\ ent[f].st = "failed"
    BY <1>1, <1>2, <1>3 DEF Pointed
  <2>15. FileInv(f)
    BY DEF IInv
  <2>16. FileInv(f)'
    <3>1. ent'[f].st \notin Success /\ ~ent'[f].point
      BY <2>10, <2>11, <2>14 DEF Success
    <3>2. a > 0 /\ Direct => Phase(f) \in {"failed"} \cup AbandonedPhases
      BY <1>5, <2>2
    <3>3. a > 0 => /\ Phase(f) \in EarlyPhases => wire[f][a].st = "none"
                   /\ Phase(f) \in Waiting => wire[f][a].st \in Answered
                   /\ wire[f][a].st \in Late => Phase(f) \in Remembered \/ (Direct /\ dest[f] = "ours")
      BY <2>2, <2>15 DEF FileInv, RequestsKnown
    <3>4. job'.direct = job.direct /\ UNCHANGED <<dest, wire>>
      BY <1>1 DEF remote
    <3>5. att'[f][a + 1].ph \in Local /\ (a > 0 => att'[f][a].ph = Phase(f))
          /\ \A b \in Attempts : b # a /\ b # a + 1 => att'[f][b] = att[f][b]
      BY <2>1, <2>3, <2>7, <2>8
    <3> QED BY <2>10, <2>11, <3>1, <3>2, <3>3, <3>4, <3>5, BegunFile
  <2>17. ASSUME NEW g \in Files, g # f
         PROVE  FileInv(g)'
    BY <1>1, <2>7, <2>11, <2>17, FileKept, RowFields DEF IInv, remote
  <2>18. \A g \in Files : /\ ent'[g].st = ent[g].st /\ ent'[g].point = ent[g].point
                          /\ ent'[g].timer = ent[g].timer /\ (g # f => ent'[g].at = ent[g].at)
    BY <2>10, <2>11
  <2>19. Busy' = {}
    BY <1>2, <2>18 DEF Busy, ActiveFiles, Pointed
  <2>20. Holder'
    BY <2>12, <2>14, <2>18, <2>19 DEF Holder, JobPCs, PointPCs, F, Success
  <2>21. PhaseAtStep' /\ RequestAtStep'
    BY <2>12 DEF PhaseAtStep, RequestAtStep, UploadPCs, StagePCs
  <2>22. JobInv'
    BY <1>1, <1>2, <2>12, <2>18, <2>19 DEF IInv, JobInv, BulkPCs
  <2>23. BulkInv'
    BY <1>1, <1>2, <2>12, <2>18, <2>19 DEF BulkInv, F, RunStates
  <2>24. PointInv'
    BY <1>1, <1>3, <2>18 DEF PointInv, Pointed
  <2> QED BY <2>13, <2>16, <2>17, <2>20, <2>21, <2>22, <2>23, <2>24 DEF IInv
<1> QED BY <1>4, <1>5 DEF BulkAttempt

LEMMA BulkEntryKeeps ==
    ASSUME IInv, BulkEntry
    PROVE  IInv'
<1>1. /\ run.pc = "bulkEnt" /\ run.f \in Files /\ UNCHANGED <<job, att, mem, cancels, remote, budget>>
  BY DEF BulkEntry, At, remote, IInv, Holder, JobPCs, F
<1> PICK f \in Files : F = f
  BY <1>1 DEF F
<1>2. /\ Busy = {} /\ cancels = {} /\ mem.creds /\ run \in RunStates /\ f \in run.todo /\ ~run.point
      /\ job.st \in {"completed_with_issues", "needs_attention", "paused", "awaiting_credentials"}
      /\ \A g \in run.todo : ent[g].st = "failed" /\ (g # f => ent[g].at < MaxAttempts)
  BY <1>1, StoreTypes DEF IInv, Holder, BulkInv, BulkPCs
<1>3. Pointed = {} /\ ActiveFiles = {}
  BY <1>2 DEF Busy
<1> DEFINE e == [ent[f] EXCEPT !.st = "planned", !.dls = 0, !.timer = "none"]
<1>4. EntryWritten(f, e)
  BY StoreTypes DEF BulkEntry, EntRows, EntryRows, EntryWritten
<1>5. /\ e \in EntryRows /\ e.at = ent[f].at /\ e.point = ent[f].point /\ e.st = "planned"
      /\ e.timer = "none"
  <2>1. ent[f] \in EntryRows /\ 0 \in 0..MaxDownloads /\ "planned" \in EntryStates
    BY StoreTypes, TransferAssumption DEF EntRows, EntryStates
  <2> QED BY <2>1 DEF EntryRows
<1> HIDE DEF e
<1>6. ent' \in EntRows /\ ent'[f] = e /\ \A g \in Files : g # f => ent'[g] = ent[g]
  BY <1>4, <1>5, EntryTo
<1>7. /\ run' \in RunStates /\ run'.pc = "bulk" /\ run'.f = NoFile /\ ~run'.point
      /\ run'.todo = run.todo \ {f}
  BY <1>2 DEF BulkEntry, F, RunStates, PCs
<1>8. TypeOK'
  BY <1>1, <1>6, <1>7, StoreTypes, TypeStep
<1>9. ~ent[f].point /\ ent[f].st = "failed"
  BY <1>2, <1>3 DEF Pointed
<1>10. FileInv(f)'
  BY <1>1, <1>5, <1>6, <1>9, EntryMoves DEF Success, remote
<1>11. ASSUME NEW g \in Files, g # f
       PROVE  FileInv(g)'
  BY <1>1, <1>6, <1>11, FileKept, RowFields DEF IInv, remote
<1>12. \A g \in Files : /\ ent'[g].st \in {ent[g].st, "planned"} /\ ent'[g].point = ent[g].point
                        /\ ent'[g].timer \in {"none", ent[g].timer}
  BY <1>5, <1>6
<1>13. Busy' = {}
  BY <1>2, <1>12 DEF Busy, ActiveFiles, Pointed, Active
<1>14. Holder'
  BY <1>7, <1>13 DEF Holder, JobPCs, PointPCs
<1>15. PhaseAtStep' /\ RequestAtStep'
  BY <1>7 DEF PhaseAtStep, RequestAtStep, UploadPCs, StagePCs
<1>16. JobInv'
  BY <1>1, <1>2, <1>7, <1>12, <1>13 DEF IInv, JobInv, BulkPCs
<1>17. BulkInv'
  BY <1>1, <1>2, <1>6, <1>7, <1>13 DEF BulkInv, RunStates
<1>18. PointInv'
  BY <1>1, <1>3, <1>12 DEF PointInv, Pointed
<1> QED BY <1>8, <1>10, <1>11, <1>14, <1>15, <1>16, <1>17, <1>18 DEF IInv

LEMMA StartedFits ==
    ASSUME job \in JobRows
    PROVE  /\ Started \in JobRows /\ Started.st = "running" /\ Started.stop = job.stop
           /\ Started.direct = job.direct /\ Started.retry = job.retry
  BY DEF Started, JobRows, JobStates

LEMMA BulkStartKeeps ==
    ASSUME IInv, BulkStart
    PROVE  IInv'
<1>1. /\ run.pc = "bulk" /\ ~job.stop /\ job' = Started /\ run' = Idle /\ job \in JobRows
      /\ UNCHANGED <<ent, att, mem, cancels, remote, budget>>
  BY StoreTypes DEF BulkStart, Proceeds, At, remote
<1>2. run'.pc = "idle" /\ run'.f = NoFile /\ ~run'.point
  BY <1>1 DEF Idle
<1>3. /\ job' \in JobRows /\ job'.st = "running" /\ job'.stop = job.stop
      /\ job'.direct = job.direct /\ job'.retry = job.retry
  BY <1>1, StartedFits
<1>4. TypeOK'
  BY <1>1, <1>3, IdleState DEF IInv, TypeOK, remote
<1>5. mem.creds
  BY <1>1 DEF IInv, BulkInv, BulkPCs
<1>6. JobInv'
  BY <1>1, <1>2, <1>3, <1>5 DEF IInv, JobInv, BulkPCs
<1> QED BY <1>1, <1>2, <1>3, <1>4, <1>6, JobStep DEF JobPCs, remote

LEMMA StopJobKeeps ==
    ASSUME IInv, StopJob
    PROVE  IInv'
<1>1. /\ run.pc = "idle" /\ job.stop /\ job \in JobRows /\ run' = [Idle EXCEPT !.pc = "cancel"]
      /\ job' = [job EXCEPT !.st = "stopped", !.resume = "none", !.pause = FALSE]
      /\ UNCHANGED <<ent, att, mem, cancels, remote, budget>>
  BY StoreTypes DEF StopJob, At, remote
<1>2. run'.pc = "cancel" /\ run'.f = NoFile /\ ~run'.point /\ run' \in RunStates
  BY <1>1 DEF Idle, RunStates, PCs
<1>3. /\ job' \in JobRows /\ job'.st = "stopped" /\ job'.stop = job.stop
      /\ job'.direct = job.direct /\ job'.retry = job.retry
  BY <1>1 DEF JobRows, JobStates
<1>4. TypeOK'
  BY <1>1, <1>2, <1>3 DEF IInv, TypeOK, remote
<1>5. (\A f \in Files : FileInv(f)') /\ Busy' = Busy
  BY <1>1, <1>3, RowsStand DEF remote
<1>6. Holder'
  BY <1>2, <1>5 DEF IInv, Holder, JobPCs, PointPCs
<1>7. PhaseAtStep' /\ RequestAtStep'
  BY <1>2 DEF PhaseAtStep, RequestAtStep, UploadPCs, StagePCs
<1>8. JobInv' /\ BulkInv'
  BY <1>1, <1>2, <1>3 DEF IInv, JobInv, BulkInv, BulkPCs
<1>9. \A f \in Files : ~ent[f].point
  BY <1>1 DEF IInv, JobInv
<1>10. PointInv'
  BY <1>1, <1>9 DEF PointInv
<1> QED BY <1>4, <1>5, <1>6, <1>7, <1>8, <1>10 DEF IInv

\* What is left to do in the queue is cancelled, and every other entry kept.
LEMMA CancelledRows ==
    ASSUME IInv
    PROVE  /\ Cancelled \in EntRows
           /\ \A f \in Files :
                /\ Cancelled[f].at = ent[f].at
                /\ Cancelled[f].st \notin Active \cup {"planned", "outcome_unknown"}
                /\ Cancelled[f].st \in {ent[f].st, "cancelled"}
                /\ Cancelled[f].point => ent[f].point
                /\ Cancelled[f].timer \in {"none", ent[f].timer}
                /\ Cancelled[f].ptries = ent[f].ptries
                /\ Cancelled[f].st = "cancelled" => Cancelled[f] = ent[f] \/ ~Cancelled[f].point
<1>1. \A f \in Files : ent[f] \in EntryRows
  BY StoreTypes DEF EntRows
<1>2. ASSUME NEW f \in Files
      PROVE  /\ Cancelled[f] \in EntryRows /\ Cancelled[f].at = ent[f].at
             /\ Cancelled[f].st \notin Active \cup {"planned", "outcome_unknown"}
             /\ Cancelled[f].st \in {ent[f].st, "cancelled"}
             /\ Cancelled[f].point => ent[f].point
             /\ Cancelled[f].timer \in {"none", ent[f].timer}
             /\ Cancelled[f].ptries = ent[f].ptries
             /\ Cancelled[f].st = "cancelled" => Cancelled[f] = ent[f] \/ ~Cancelled[f].point
  BY <1>1, <1>2 DEF Cancelled, EntryRows, EntryStates, Active
<1> QED BY <1>2 DEF Cancelled, EntRows

LEMMA CancelLocalKeeps ==
    ASSUME IInv, CancelLocal
    PROVE  IInv'
<1>1. /\ run.pc = "cancel" /\ run' = Idle /\ ent' = Cancelled
      /\ UNCHANGED <<job, att, mem, cancels, remote, budget>>
  BY DEF CancelLocal, At, remote
<1>2. job.st = "stopped" /\ job.stop /\ \A f \in Files : ~ent[f].point /\ ent[f].timer = "none"
  BY <1>1 DEF IInv, JobInv
<1>3. /\ ent' \in EntRows
      /\ \A f \in Files :
                /\ ent'[f].at = ent[f].at
                /\ ent'[f].st \notin Active \cup {"planned", "outcome_unknown"}
                /\ ent'[f].st \in {ent[f].st, "cancelled"}
                /\ ~ent'[f].point /\ ent'[f].timer = "none"
  BY <1>1, <1>2, CancelledRows
<1>4. run'.pc = "idle" /\ run'.f = NoFile /\ ~run'.point
  BY <1>1 DEF Idle
<1>5. TypeOK'
  BY <1>1, <1>3, IdleState, StoreTypes, TypeStep
<1>6. ASSUME NEW f \in Files
      PROVE  FileInv(f)'
  BY <1>1, <1>3, EntryMoves DEF Success, remote
<1>7. Busy' = {}
  BY <1>3 DEF Busy, ActiveFiles, Pointed
<1>8. Holder'
  BY <1>4, <1>1, <1>7 DEF Holder, JobPCs, PointPCs
<1>9. PhaseAtStep' /\ RequestAtStep'
  BY <1>4 DEF PhaseAtStep, RequestAtStep, UploadPCs, StagePCs
<1>10. JobInv' /\ BulkInv' /\ PointInv'
  BY <1>1, <1>2, <1>3, <1>4 DEF JobInv, BulkInv, PointInv, BulkPCs
<1> QED BY <1>5, <1>6, <1>8, <1>9, <1>10 DEF IInv

\* Every step of the holder of the guard.
LEMMA RunnerKeeps ==
    ASSUME IInv, Runner
    PROVE  IInv'
<1>1. CASE Prepare
  <2>1. CASE CheckSource("src2", "geturl")
    BY <2>1, CheckSourceKeeps
  <2> QED BY <1>1, <2>1, InterruptKeeps, OpenFileKeeps, CheckNewSourceKeeps,
        CheckNewDestinationKeeps, NewAttemptKeeps, MarkTransferringKeeps, CheckDestinationKeeps,
        CheckSourceAndParentKeeps, StageKeeps, DownloadKeeps, MarkStagedKeeps,
        DownloadFailedKeeps DEF Prepare
<1>2. CASE Deliver
  <2>1. CASE Verify("verify", temp[F][ent[F].at], "mkmove")
    BY <2>1, VerifyKeeps
  <2>2. CASE Verify("final", dest[F], "succ")
    BY <2>2, VerifyKeeps
  <2> QED BY <1>2, <2>1, <2>2, GetUploadUrlKeeps, PersistIntentKeeps, PutKeeps,
        RecordUploadKeeps, PollKeeps, PolledKeeps, EnterFinalKeeps, PersistMoveKeeps, MoveKeeps,
        RecordMoveKeeps, SucceedKeeps, FinishEntryKeeps DEF Deliver
<1>3. CASE PointSteps \/ Failure
  BY <1>3, PointFileKeeps, ConfirmPointCopyKeeps, NewPointAttemptKeeps, FinishPointStepKeeps,
     HandleErrorKeeps, FailAttemptKeeps, FailEntryKeeps, FailJobKeeps DEF PointSteps, Failure
<1>4. CASE Schedule \/ Bulk \/ StopJob \/ CancelLocal
  BY <1>4, ScheduleKeeps, BulkAttemptKeeps, BulkEntryKeeps, BulkStartKeeps, StopJobKeeps,
     CancelLocalKeeps DEF Bulk
<1> QED BY <1>1, <1>2, <1>3, <1>4 DEF Runner
=============================================================================
