------------------------ MODULE FileTransferTheorems ------------------------
(***************************************************************************)
(* What FileTransfer promises for any files, limits and scenarios.  The    *)
(* steps of the runner are proved to keep the inductive invariant IInv in  *)
(* FileTransferProofs; here are those of the user, the clock, the server   *)
(* and the death of the process, the theorems, and the refinement of the   *)
(* abstract job of FileDelivery.                                           *)
(***************************************************************************)
EXTENDS FileTransferProofs

----------------------------------------------------------------------------
(* The requests of the user that leave the rows alone. *)

Budgets == [user : Nat, edits : Nat, crash : Nat]

LEMMA BudgetSpent ==
    ASSUME IInv, Spend \/ Edit
    PROVE  budget' \in Budgets
<1>1. budget \in Budgets
  BY DEF IInv, TypeOK, Budgets
<1>2. CASE Spend
  BY <1>1, <1>2 DEF Spend, Budgets
<1>3. CASE Edit
  BY <1>1, <1>3 DEF Edit, Budgets
<1> QED BY <1>2, <1>3

LEMMA TypeUser ==
    ASSUME IInv, budget' \in Budgets, job' \in JobRows, ent' \in EntRows, att' \in AttRows,
           run' \in RunStates, mem' \in Mems, cancels' \subseteq Files, remote' = remote
    PROVE  TypeOK'
  BY DEF IInv, TypeOK, Budgets, EntRows, AttRows, Mems, remote

LEMMA TypeCancels ==
    ASSUME IInv
    PROVE  cancels \subseteq Files
  BY DEF IInv, TypeOK

LEMMA PauseJobKeeps ==
    ASSUME IInv, PauseJob
    PROVE  IInv'
<1>1. /\ job' = [job EXCEPT !.pause = TRUE] /\ job \in JobRows /\ budget' \in Budgets
      /\ UNCHANGED <<ent, att, run, mem, cancels, dest, wire>> /\ remote' = remote
  BY BudgetSpent, StoreTypes DEF PauseJob, remote
<1>2. /\ job' \in JobRows /\ job'.st = job.st /\ job'.stop = job.stop
      /\ job'.direct = job.direct /\ job'.retry = job.retry
  BY <1>1 DEF JobRows
<1>3. TypeOK'
  BY <1>1, <1>2, StoreTypes, TypeUser, TypeCancels
<1>4. Busy' = Busy
  BY <1>1, <1>2, RowsStand
<1>5. JobInv' /\ BulkInv' /\ PointInv'
  BY <1>1, <1>2, <1>4 DEF IInv, JobInv, BulkInv, PointInv, F
<1> QED BY <1>1, <1>2, <1>3, <1>5, JobChanges

LEMMA EnableRetryKeeps ==
    ASSUME IInv, EnableRetry
    PROVE  IInv'
<1>1. /\ job' = [job EXCEPT !.retry = TRUE] /\ job \in JobRows /\ budget' \in Budgets /\ cancels = {}
      /\ UNCHANGED <<ent, att, run, mem, cancels, dest, wire>> /\ remote' = remote
  BY BudgetSpent, StoreTypes DEF EnableRetry, remote
<1>2. /\ job' \in JobRows /\ job'.st = job.st /\ job'.stop = job.stop
      /\ job'.direct = job.direct
  BY <1>1 DEF JobRows
<1>3. TypeOK'
  BY <1>1, <1>2, StoreTypes, TypeUser, TypeCancels
<1>4. Busy' = Busy
  BY <1>1, <1>2, RowsStand
<1>5. JobInv' /\ BulkInv' /\ PointInv'
  BY <1>1, <1>2, <1>4 DEF IInv, JobInv, BulkInv, PointInv, F
<1> QED BY <1>1, <1>2, <1>3, <1>5, JobChanges

LEMMA CredentialsKeeps ==
    ASSUME IInv, Credentials
    PROVE  IInv'
<1>1. /\ mem'.creds /\ mem' \in Mems /\ budget' \in Budgets /\ run.pc = "idle" /\ remote' = remote
      /\ UNCHANGED <<job, ent, att, run, cancels, dest, wire>>
  <2>1. PICK outage \in {mem.outage, FALSE} : mem' = [creds |-> TRUE, outage |-> outage]
    BY DEF Credentials
  <2>2. mem' \in Mems /\ mem'.creds
    BY <2>1, StoreTypes DEF Mems
  <2> QED BY <2>2, BudgetSpent DEF Credentials, Request, At, remote, store
<1>2. TypeOK'
  BY <1>1, StoreTypes, TypeUser, TypeCancels
<1>3. Busy' = Busy
  BY <1>1, RowsStand
<1>4. JobInv' /\ BulkInv' /\ PointInv'
  BY <1>1, <1>3 DEF IInv, JobInv, BulkInv, PointInv, BulkPCs
<1> QED BY <1>1, <1>2, <1>4, JobChanges

LEMMA ResumeKeeps ==
    ASSUME IInv, Resume
    PROVE  IInv'
<1>1. /\ run.pc = "idle" /\ ~job.stop /\ mem.creds /\ job' = Started /\ budget' \in Budgets
      /\ UNCHANGED <<ent, att, run, mem, cancels, dest, wire>> /\ remote' = remote
  BY BudgetSpent DEF Resume, Request, At, remote
<1>2. /\ job' \in JobRows /\ job'.st = "running" /\ job'.stop = job.stop
      /\ job'.direct = job.direct /\ job'.retry = job.retry
  BY <1>1, StartedFits, StoreTypes
<1>3. TypeOK'
  BY <1>1, <1>2, StoreTypes, TypeUser, TypeCancels
<1>4. JobInv' /\ BulkInv' /\ PointInv'
  BY <1>1, <1>2 DEF IInv, JobInv, BulkInv, PointInv, BulkPCs
<1> QED BY <1>1, <1>2, <1>3, <1>4, JobChanges

LEMMA BulkRetryKeeps ==
    ASSUME IInv, BulkRetry
    PROVE  IInv'
<1>1. /\ run.pc = "idle" /\ ~job.stop /\ mem.creds /\ cancels = {} /\ budget' \in Budgets
      /\ mem' = [mem EXCEPT !.outage = FALSE] /\ remote' = remote
      /\ run' = [Idle EXCEPT !.pc = "bulk", !.todo = {f \in Files : ent[f].st = "failed"}]
      /\ UNCHANGED <<job, ent, att, cancels, dest, wire>>
  BY BudgetSpent DEF BulkRetry, Request, At, remote, store
<1>2. /\ job.st \in {"completed_with_issues", "needs_attention", "paused", "awaiting_credentials"}
      /\ Busy = {}
      /\ \A f \in Files : ent[f].st = "failed" => ent[f].at < MaxAttempts
  BY DEF BulkRetry, WaitsFor, Busy, ActiveFiles
<1>3. mem' \in Mems /\ mem'.creds
  BY <1>1, StoreTypes DEF Mems
<1>4. /\ run' \in RunStates /\ run'.pc = "bulk" /\ run'.f = NoFile /\ ~run'.point
      /\ run'.todo = {f \in Files : ent[f].st = "failed"}
  BY <1>1 DEF Idle, RunStates, PCs
<1>5. TypeOK'
  BY <1>1, <1>3, <1>4, StoreTypes, TypeUser, TypeCancels
<1>6. (\A f \in Files : FileInv(f)') /\ Busy' = Busy /\ Pointed' = Pointed
  BY <1>1, RowsStand
<1>7. Holder'
  BY <1>2, <1>4, <1>6 DEF Holder, JobPCs, PointPCs
<1>8. PhaseAtStep' /\ RequestAtStep'
  BY <1>4 DEF PhaseAtStep, RequestAtStep, UploadPCs, StagePCs
<1>9. JobInv'
  BY <1>1, <1>2, <1>3, <1>4, <1>6 DEF IInv, JobInv, BulkPCs
<1>10. BulkInv'
  BY <1>1, <1>2, <1>3, <1>4, <1>6 DEF BulkInv
<1>11. PointInv'
  BY <1>2, <1>6 DEF PointInv, Busy, Pointed
<1> QED BY <1>5, <1>6, <1>7, <1>8, <1>9, <1>10, <1>11 DEF IInv

LEMMA PointRetryKeeps ==
    ASSUME IInv, NEW f \in Files, PointRetry(f)
    PROVE  IInv'
<1>1. /\ run.pc = "idle" /\ ~job.stop /\ mem.creds /\ cancels = {} /\ budget' \in Budgets
      /\ ActiveFiles = {} /\ Pointed = {} /\ remote' = remote
      /\ ent' = [ent EXCEPT ![f].point = TRUE, ![f].ptries = 0, ![f].timer = "none"]
      /\ job' = [Started EXCEPT !.origin = <<f, ent[f].at>>]
      /\ UNCHANGED <<att, run, mem, cancels, dest, wire>>
  BY BudgetSpent DEF PointRetry, Request, At, remote
<1>2. run = Idle /\ run'.pc = "idle" /\ run'.f = NoFile /\ ~run'.point
  BY <1>1 DEF IInv, Holder, Idle
<1>3. ent[f].st \in {"failed", "outcome_unknown"} /\ Phase(f) # "download_retry_wait"
  BY DEF PointRetry, PointRetryPhases, UnknownPhases, AbandonedPhases, Waiting, Phase, Row, NoAttempt
<1> DEFINE e == [ent[f] EXCEPT !.point = TRUE, !.ptries = 0, !.timer = "none"]
<1>4. EntryWritten(f, e)
  BY <1>1, StoreTypes DEF EntRows, EntryRows, EntryWritten
<1>5. e \in EntryRows /\ e.at = ent[f].at /\ e.point /\ e.timer = "none" /\ e.st = ent[f].st
  <2>1. 0 \in 0..MaxPointTries /\ ent[f] \in EntryRows
    BY TransferAssumption, StoreTypes DEF EntRows
  <2> QED BY <2>1 DEF EntryRows
<1> HIDE DEF e
<1>6. ent' \in EntRows /\ ent'[f] = e /\ \A g \in Files : g # f => ent'[g] = ent[g]
  BY <1>4, <1>5, EntryTo
<1>7. /\ Started \in JobRows /\ Started.st = "running" /\ Started.stop = job.stop
      /\ Started.direct = job.direct /\ Started.retry = job.retry
  BY StartedFits, StoreTypes
<1>8. /\ job' \in JobRows /\ job'.st = "running" /\ job'.stop = job.stop
      /\ job'.direct = job.direct /\ job'.retry = job.retry
  <2>1. <<f, ent[f].at>> \in (Files \cup {NoFile}) \X (0..MaxAttempts)
    BY RowFields DEF IInv
  <2> QED BY <1>1, <1>7, <2>1 DEF JobRows
<1>9. TypeOK'
  BY <1>1, <1>6, <1>8, StoreTypes, TypeUser, TypeCancels
<1>10. FileInv(f)'
  BY <1>1, <1>3, <1>5, <1>6, <1>8, EntryMoves DEF Success
<1>11. ASSUME NEW g \in Files, g # f
       PROVE  FileInv(g)'
  BY <1>1, <1>6, <1>8, <1>11, FileKept, RowFields DEF IInv
<1>12. Busy' \subseteq {f}
  BY <1>1, <1>6 DEF Busy, ActiveFiles, Pointed
<1>13. Holder'
  BY <1>1, <1>2, <1>12 DEF Holder, JobPCs, PointPCs
<1>14. PhaseAtStep' /\ RequestAtStep'
  BY <1>2 DEF PhaseAtStep, RequestAtStep, UploadPCs, StagePCs
<1>15. JobInv' /\ BulkInv' /\ PointInv'
  BY <1>1, <1>2, <1>8 DEF JobInv, BulkInv, PointInv, BulkPCs
<1> QED BY <1>9, <1>10, <1>11, <1>13, <1>14, <1>15 DEF IInv

----------------------------------------------------------------------------
(* The requests, the clock and the recovery that change the rows. *)

\* In a row nothing has been sent of, the phase may change.
Withdrawable == {"prepared", "downloading", "download_retry_wait"}

\* The rows of f as a request of the user or the recovery leaves them: copies are
\* dropped, and the phase of an attempt that has sent nothing becomes p.
Rewritten(f) ==
    \A a \in Attempts :
        /\ att[f][a].copy = "none" => att'[f][a].copy = "none"
        /\ \/ att'[f][a].ph = att[f][a].ph
           \/ /\ a = ent[f].at /\ att[f][a].ph \in Withdrawable
              /\ att'[f][a].ph \in {"staged", "failed"} /\ ent'[f].st \notin Success

LEMMA RowsMove ==
    ASSUME IInv, NEW f \in Files, job'.direct = job.direct, wire'[f] = wire[f], dest'[f] = dest[f],
           ent'[f].at = ent[f].at, ent'[f].st \in Success => ent[f].st \in Success,
           ent'[f].point => ent[f].point,
           ent'[f].point /\ ent'[f].timer # "none" =>
               ent'[f].st = "failed" /\ ent'[f].ptries >= 1 /\ ent[f].at > 0,
           Rewritten(f)
    PROVE  FileInv(f)'
<1>1. FileInv(f) /\ ent[f].at \in 0..MaxAttempts /\ Direct' = Direct
  BY RowFields DEF IInv, Direct
<1>2. \/ Phase(f)' = Phase(f)
      \/ Phase(f)' \in {"staged", "failed"} /\ ent'[f].st \notin Success
  BY <1>1, TransferAssumption DEF Rewritten, Phase, Row, NoAttempt, Attempts
<1>3. \A a \in Attempts :
        \/ att'[f][a].ph = att[f][a].ph
        \/ /\ a = ent[f].at /\ att[f][a].ph \in EarlyPhases
           /\ att'[f][a].ph \in {"staged", "failed"}
  BY DEF Rewritten, Withdrawable, EarlyPhases, Local
<1>4. RowsInOrder(f)'
  <2>1. \A a \in Attempts : a > ent[f].at =>
          att'[f][a].ph = "none" /\ att'[f][a].copy = "none" /\ wire'[f][a].st = "none"
    BY <1>1, <1>3 DEF FileInv, RowsInOrder, Rewritten, Attempts
  <2>2. ent[f].at > 0 => att'[f][ent[f].at].ph # "none"
    BY <1>1, <1>3, TransferAssumption DEF FileInv, RowsInOrder, Attempts
  <2>3. Direct => \A a \in Attempts : a < ent[f].at =>
          att'[f][a].ph \in {"failed"} \cup AbandonedPhases
    BY <1>1, <1>3 DEF FileInv, RowsInOrder, Attempts
  <2> QED BY <1>1, <2>1, <2>2, <2>3 DEF RowsInOrder
<1>5. RequestsKnown(f)'
  <2>1. {"staged", "failed"} \cap (Waiting \cup Remembered) = {}
    BY DEF Waiting, Remembered, UnknownPhases, AbandonedPhases
  <2>2. EarlyPhases \cap (Waiting \cup Remembered) = {} /\ "none" \notin Late
    BY DEF EarlyPhases, Local, Late, Waiting, Remembered, UnknownPhases, AbandonedPhases
  <2>3. \A a \in Attempts : att[f][a].ph \in EarlyPhases => wire[f][a].st = "none"
    BY <1>1 DEF FileInv, RequestsKnown
  <2>4. \A a \in Attempts : att[f][a].ph \in AbandonedPhases => att'[f][a].ph \in AbandonedPhases
    BY <1>3, <2>2 DEF Remembered
  <2> SUFFICES ASSUME NEW a \in Attempts
               PROVE  /\ att'[f][a].ph \in EarlyPhases => wire[f][a].st = "none"
                      /\ att'[f][a].ph \in Waiting => wire[f][a].st \in Answered
                      /\ wire[f][a].st \in Late =>
                           att'[f][a].ph \in Remembered \/ (Direct /\ dest[f] = "ours")
                      /\ wire[f][a].st \in Late /\ wire[f][a].to = "final" /\ wire[f][a].ow =>
                           \E b \in Attempts : b < a /\ att'[f][b].ph \in AbandonedPhases
    BY <1>1 DEF RequestsKnown
  <2>5. CASE att'[f][a].ph = att[f][a].ph
    BY <1>1, <2>4, <2>5 DEF FileInv, RequestsKnown
  <2>6. CASE att[f][a].ph \in EarlyPhases /\ att'[f][a].ph \in {"staged", "failed"}
    BY <2>1, <2>2, <2>3, <2>6
  <2> QED BY <1>3, <2>5, <2>6
<1>6. EntryAgrees(f)'
  BY <1>1, <1>2 DEF FileInv, EntryAgrees
<1> QED BY <1>4, <1>5, <1>6 DEF FileInv

\* The holder of the guard stands where it stood: its attempt has already sent
\* something, or is in a phase no request of the user touches.
LEMMA StepStands ==
    ASSUME IInv, UNCHANGED <<run, dest, wire>>, job'.direct = job.direct,
           \A f \in Files : ent'[f].at = ent[f].at /\ ent'[f].st \in {ent[f].st, "failed"},
           \A f \in Files, a \in Attempts :
               /\ att'[f][a].copy = "full" => att[f][a].copy = "full"
               /\ \/ att'[f][a].ph = att[f][a].ph
                  \/ att[f][a].ph = "download_retry_wait" /\ att'[f][a].ph = "failed"
    PROVE  PhaseAtStep' /\ RequestAtStep'
<1>1. CASE run.pc \in JobPCs
  <2>1. run'.pc \in JobPCs
    BY <1>1
  <2> QED BY <2>1 DEF PhaseAtStep, RequestAtStep, UploadPCs, StagePCs, JobPCs
<1>2. CASE run.pc \notin JobPCs
  <2> PICK f \in Files : F = f
    BY <1>2 DEF IInv, Holder
  <2>1. ent[f].at \in 0..MaxAttempts /\ F' = f /\ Direct' = Direct
    BY RowFields DEF IInv, F, Direct
  <2>2. /\ Row(f)'.copy = "full" => Row(f).copy = "full"
        /\ \/ Phase(f)' = Phase(f)
           \/ Phase(f) = "download_retry_wait" /\ Phase(f)' = "failed"
    BY <2>1, TransferAssumption DEF Row, Phase, NoAttempt, Attempts
  <2>3. "download_retry_wait" \notin Local \cup Waiting \cup PointRetryPhases \cup Remembered
        /\ "failed" \notin Remembered
    BY DEF Local, Waiting, PointRetryPhases, UnknownPhases, AbandonedPhases, Remembered
  <2>4. PhaseAtStep'
    BY <2>1, <2>2, <2>3 DEF IInv, PhaseAtStep
  <2>5. \A b \in Attempts : /\ att[f][b].ph \in Remembered => att'[f][b].ph = att[f][b].ph
                            /\ att'[f][b].ph \in Remembered => att'[f][b].ph = att[f][b].ph
    BY <2>3
  <2>6. \A b \in Attempts : att[f][b].ph \in AbandonedPhases => att'[f][b].ph \in AbandonedPhases
    BY <2>5 DEF Remembered
  <2>7. RequestAtStep'
    BY <2>1, <2>2, <2>3, <2>5, <2>6 DEF IInv, RequestAtStep
  <2> QED BY <2>4, <2>7
<1> QED BY <1>1, <1>2

LEMMA FullStopKeeps ==
    ASSUME IInv, FullStop
    PROVE  IInv'
<1>1. /\ job' = [job EXCEPT !.stop = TRUE] /\ job \in JobRows /\ budget' \in Budgets
      /\ ent' = [f \in Files |-> [ent[f] EXCEPT !.point = FALSE, !.timer = "none"]]
      /\ UNCHANGED <<att, run, mem, cancels, dest, wire>> /\ remote' = remote
      /\ job.st # "completed" /\ ~job.stop
  BY BudgetSpent, StoreTypes DEF FullStop, remote
<1>2. /\ job' \in JobRows /\ job'.st = job.st /\ job'.stop /\ job'.direct = job.direct
  BY <1>1 DEF JobRows
<1>3. \A f \in Files : ent[f] \in EntryRows
  BY StoreTypes DEF EntRows
<1>4. \A f \in Files : /\ ent'[f] \in EntryRows /\ ent'[f].at = ent[f].at
                       /\ ent'[f].st = ent[f].st /\ ~ent'[f].point /\ ent'[f].timer = "none"
  BY <1>1, <1>3 DEF EntryRows
<1>5. ent' \in EntRows
  BY <1>1, <1>4 DEF EntRows
<1>6. TypeOK'
  BY <1>1, <1>2, <1>5, StoreTypes, TypeUser, TypeCancels
<1>7. \A f \in Files : FileInv(f)'
  BY <1>1, <1>2, <1>4, EntryMoves
<1>8. Busy' \subseteq Busy
  BY <1>4 DEF Busy, ActiveFiles, Pointed
<1>9. Holder'
  BY <1>1, <1>2, <1>4, <1>8 DEF IInv, Holder, F
<1>10. PhaseAtStep' /\ RequestAtStep'
  BY <1>1, <1>2, <1>4, StepStands
<1>11. JobInv'
  BY <1>1, <1>2, <1>4, <1>8 DEF IInv, JobInv
<1>12. BulkInv'
  <2>1. (Busy = {} => Busy' = {}) /\ run.todo \subseteq Files
    BY <1>8, StoreTypes DEF RunStates
  <2> QED BY <1>1, <1>2, <1>4, <2>1 DEF IInv, BulkInv, F
<1>13. PointInv'
  BY <1>4 DEF PointInv
<1> QED BY <1>6, <1>7, <1>9, <1>10, <1>11, <1>12, <1>13 DEF IInv

LEMMA TimerFiresKeeps ==
    ASSUME IInv, NEW f \in Files, TimerFires(f)
    PROVE  IInv'
<1>1. /\ ent[f].timer = "future" /\ ent' = [ent EXCEPT ![f].timer = "due"]
      /\ UNCHANGED <<job, att, run, mem, cancels, remote, budget, dest, wire>>
  BY DEF TimerFires, remote
<1>2. /\ ent' \in EntRows /\ ent'[f].at = ent[f].at /\ ent'[f].st = ent[f].st
      /\ ent'[f].point = ent[f].point /\ ent'[f].ptries = ent[f].ptries
      /\ \A g \in Files : g # f => ent'[g] = ent[g]
  BY <1>1, StoreTypes DEF EntRows, EntryRows
<1>3. TypeOK'
  BY <1>1, <1>2, StoreTypes, TypeStep
<1>4. FileInv(f)
  BY DEF IInv
<1>5. FileInv(f)'
  <2>1. \A a \in Attempts : /\ att'[f][a].ph = att[f][a].ph
                            /\ att'[f][a].copy \in {att[f][a].copy, "none"}
    BY <1>1
  <2> QED BY <1>1, <1>2, <1>4, <2>1, EntryMoves DEF FileInv, EntryAgrees
<1>6. ASSUME NEW g \in Files, g # f
      PROVE  FileInv(g)'
  BY <1>1, <1>2, <1>6, FileKept, RowFields DEF IInv
<1>7. Busy' = Busy
  BY <1>2 DEF Busy, ActiveFiles, Pointed
<1>8. \A g \in Files : /\ ent'[g].at = ent[g].at /\ ent'[g].st = ent[g].st
                       /\ ent'[g].point = ent[g].point /\ ent'[g].ptries = ent[g].ptries
                       /\ (ent'[g].timer # "none" => ent[g].timer # "none")
  BY <1>1, <1>2
<1>9. Holder'
  BY <1>1, <1>7, <1>8 DEF IInv, Holder, F
<1>10. PhaseAtStep' /\ RequestAtStep'
  BY <1>1, <1>8, StepStands
<1>11. JobInv'
  BY <1>1, <1>7, <1>8 DEF IInv, JobInv
<1>12. BulkInv'
  BY <1>1, <1>7, <1>8 DEF IInv, BulkInv, F, TypeOK, RunStates
<1>13. PointInv'
  BY <1>1, <1>8 DEF IInv, PointInv
<1> QED BY <1>3, <1>5, <1>6, <1>9, <1>10, <1>11, <1>12, <1>13 DEF IInv

LEMMA CancelPointKeeps ==
    ASSUME IInv, NEW f \in Files, CancelPoint(f)
    PROVE  IInv'
<1>1. /\ f \in cancels /\ cancels' = cancels \ {f}
      /\ UNCHANGED <<att, run, mem, remote, budget, dest, wire>>
  BY DEF CancelPoint, remote
<1>2. CASE ~ent[f].point /\ UNCHANGED <<job, ent>>
  <2>1. TypeOK'
    BY <1>1, <1>2, StoreTypes, TypeCancels DEF IInv, TypeOK, remote
  <2>2. Busy' = Busy
    BY <1>1, <1>2, RowsStand
  <2>3. JobInv' /\ BulkInv' /\ PointInv'
    BY <1>1, <1>2, <2>2 DEF IInv, JobInv, BulkInv, PointInv, F
  <2> QED BY <1>1, <1>2, <2>1, <2>3, JobChanges
<1>3. CASE ent[f].point /\ ent' = Finished(f) /\ job' = FinishedJob(ent')
  <2>1. run.pc = "idle" /\ run' = Idle
    BY <1>1, <1>3 DEF IInv, PointInv, Holder
  <2>2. PICK s \in {ent[f].st, "outcome_unknown"} : s = ent[f].st
    OBVIOUS
  <2>3. ent' = [Finished(f) EXCEPT ![f].st = s]
    BY <1>3, <2>2, StoreTypes DEF Finished, EntRows, EntryRows
  <2> QED BY <1>1, <1>3, <2>1, <2>3, FinishedKeeps
<1> QED BY <1>2, <1>3 DEF CancelPoint

LEMMA DisableRetryKeeps ==
    ASSUME IInv, DisableRetry
    PROVE  IInv'
<1>1. /\ cancels = {} /\ job' = [job EXCEPT !.retry = FALSE] /\ job \in JobRows
      /\ cancels' = {f \in Pointed : Scheduled(f)} /\ budget' \in Budgets
      /\ UNCHANGED <<run, mem, dest, wire>> /\ remote' = remote
  BY BudgetSpent, StoreTypes DEF DisableRetry, remote
<1>2. /\ job' \in JobRows /\ job'.st = job.st /\ job'.stop = job.stop /\ job'.direct = job.direct
      /\ ~job'.retry
  BY <1>1 DEF JobRows
<1>3. \A f \in Files : ent[f] \in EntryRows
  BY StoreTypes DEF EntRows
<1>4. ASSUME NEW f \in Files
      PROVE  /\ ent'[f] \in EntryRows /\ ent'[f].at = ent[f].at /\ ent'[f].timer = "none"
             /\ ent'[f].point = ent[f].point /\ ent'[f].ptries = ent[f].ptries
             /\ ent'[f].st = IF Withdraws(f) THEN "failed" ELSE ent[f].st
  <2>1. ent'[f] = [ent[f] EXCEPT !.timer = "none", !.st = IF Withdraws(f) THEN "failed" ELSE @]
    BY DEF DisableRetry
  <2>2. "failed" \in EntryStates
    BY DEF EntryStates
  <2> QED BY <1>3, <2>1, <2>2 DEF EntryRows
<1>5. ASSUME NEW f \in Files, NEW a \in Attempts
      PROVE  att'[f][a] = IF a = ent[f].at /\ Withdraws(f) THEN [att[f][a] EXCEPT !.ph = "failed"]
                          ELSE att[f][a]
  BY DEF DisableRetry
<1>6. ASSUME NEW f \in Files, NEW a \in Attempts
      PROVE  /\ att'[f][a] \in AttemptRows /\ att'[f][a].copy = att[f][a].copy
             /\ \/ att'[f][a].ph = att[f][a].ph
                \/ /\ att[f][a].ph = "download_retry_wait" /\ att'[f][a].ph = "failed"
                   /\ a = ent[f].at /\ ent'[f].st = "failed"
  <2>1. att[f][a] \in AttemptRows /\ "failed" \in Phases
    BY StoreTypes DEF AttRows, Phases
  <2>2. CASE a = ent[f].at /\ Withdraws(f)
    <3>1. att'[f][a] = [att[f][a] EXCEPT !.ph = "failed"]
      BY <1>5, <2>2
    <3>2. att[f][a].ph = "download_retry_wait"
      BY <2>2, TransferAssumption DEF Withdraws, Phase, Row, Attempts
    <3> QED BY <1>4, <2>1, <2>2, <3>1, <3>2 DEF AttemptRows
  <2>3. CASE ~(a = ent[f].at /\ Withdraws(f))
    <3>1. att'[f][a] = att[f][a]
      BY <1>5, <2>3
    <3> QED BY <2>1, <3>1
  <2> QED BY <2>2, <2>3
<1>7. ent' \in EntRows /\ att' \in AttRows /\ cancels' \subseteq Files
  BY <1>1, <1>4, <1>6 DEF DisableRetry, EntRows, AttRows, Pointed
<1>8. TypeOK'
  BY <1>1, <1>2, <1>7, StoreTypes, TypeUser
<1>9. ASSUME NEW f \in Files
      PROVE  FileInv(f)'
  <2>1. "failed" \notin Success
    BY DEF Success
  <2>2. Rewritten(f)
    BY <1>6, <2>1 DEF Rewritten, Withdrawable
  <2> QED BY <1>1, <1>2, <1>4, <2>1, <2>2, RowsMove
<1>10. \A f \in Files : ent'[f].st \in {ent[f].st, "failed"}
  BY <1>4
<1>11. Busy' \subseteq Busy
  BY <1>4, <1>10 DEF Busy, ActiveFiles, Pointed, Active
<1>12. Holder'
  BY <1>1, <1>2, <1>4, <1>10, <1>11 DEF IInv, Holder, F, Success
<1>13. PhaseAtStep' /\ RequestAtStep'
  BY <1>1, <1>2, <1>4, <1>6, <1>10, StepStands
<1>14. job.st = "completed" => \A f \in Files : ~Withdraws(f)
  BY DEF IInv, JobInv, FileInv, EntryAgrees, Withdraws, Resting, AbandonedPhases
<1>15. JobInv'
  <2>1. Busy = {} => Busy' = {}
    BY <1>11
  <2> QED BY <1>1, <1>2, <1>4, <1>10, <1>14, <2>1 DEF IInv, JobInv, Active
<1>16. BulkInv'
  <2>1. (Busy = {} => Busy' = {} /\ cancels' = {}) /\ run.todo \subseteq Files
    BY <1>1, <1>11, StoreTypes DEF RunStates, Busy
  <2> QED BY <1>1, <1>2, <1>4, <1>10, <2>1 DEF IInv, BulkInv, F
<1>17. PointInv'
  <2>1. ASSUME NEW f \in Files, f \in cancels', ent[f].point
        PROVE  /\ run.pc = "idle" /\ ent'[f].st = "failed" /\ ent[f].ptries >= 1 /\ ent[f].at > 0
    <3>1. FileInv(f)
      BY DEF IInv
    <3>2. ent[f].timer # "none"
      BY <1>1, <2>1, <3>1 DEF Scheduled, FileInv, EntryAgrees
    <3>3. run.pc = "idle"
      BY <2>1, <3>2 DEF IInv, PointInv
    <3> QED BY <1>4, <2>1, <3>1, <3>2, <3>3 DEF FileInv, EntryAgrees
  <2> QED BY <1>1, <1>2, <1>4, <2>1 DEF PointInv
<1> QED BY <1>8, <1>9, <1>12, <1>13, <1>15, <1>16, <1>17 DEF IInv

\* cleanup_cache keeps the type of the rows and takes only attempts that have sent
\* nothing back to "staged".
LEMMA EmptiedRows ==
    ASSUME IInv, NEW copy \in {"none", "gone"}
    PROVE  /\ Emptied(copy) \in AttRows
           /\ \A f \in Files, a \in Attempts :
                /\ att[f][a].copy = "none" => Emptied(copy)[f][a].copy = "none"
                /\ \/ Emptied(copy)[f][a].ph = att[f][a].ph
                   \/ /\ a = ent[f].at /\ att[f][a].ph \in Withdrawable
                      /\ Emptied(copy)[f][a].ph = "staged" /\ ent[f].st \notin Success
<1>1. ASSUME NEW f \in Files, NEW a \in Attempts
      PROVE  /\ Emptied(copy)[f][a] \in AttemptRows
             /\ att[f][a].copy = "none" => Emptied(copy)[f][a].copy = "none"
             /\ \/ Emptied(copy)[f][a].ph = att[f][a].ph
                \/ /\ a = ent[f].at /\ att[f][a].ph \in Withdrawable
                   /\ Emptied(copy)[f][a].ph = "staged" /\ ent[f].st \notin Success
  <2>1. att[f][a] \in AttemptRows /\ "staged" \in Phases /\ copy \in Copies
    BY StoreTypes DEF AttRows, Phases, Local, Copies
  <2> DEFINE c == IF att[f][a].copy = "none" THEN "none" ELSE copy
             p == IF a = ent[f].at /\ Confirmed(f) THEN "staged" ELSE att[f][a].ph
  <2>2. Emptied(copy)[f][a] = [att[f][a] EXCEPT !.copy = c, !.ph = p]
    BY <2>1 DEF Emptied, AttemptRows
  <2>3. c \in Copies /\ p \in Phases /\ (att[f][a].copy = "none" => c = "none")
    BY <2>1 DEF AttemptRows, Copies
  <2>4. \/ p = att[f][a].ph
        \/ /\ a = ent[f].at /\ att[f][a].ph \in Withdrawable
           /\ p = "staged" /\ ent[f].st \notin Success
    BY TransferAssumption DEF Confirmed, Phase, Row, Withdrawable, Success, Attempts
  <2> HIDE DEF c, p
  <2> QED BY <2>1, <2>2, <2>3, <2>4 DEF AttemptRows
<1>2. Emptied(copy) \in AttRows
  <2>1. \A f \in Files : Emptied(copy)[f] \in [Attempts -> AttemptRows]
    BY <1>1 DEF Emptied
  <2> QED BY <2>1 DEF Emptied, AttRows
<1> QED BY <1>1, <1>2

LEMMA ClearCacheKeeps ==
    ASSUME IInv, ClearCache
    PROVE  IInv'
<1>1. /\ run.pc \in {"idle", "bulk", "bulkEnt"} /\ att' = Emptied("none") /\ budget' \in Budgets
      /\ UNCHANGED <<job, run, mem, cancels, dest, wire>> /\ remote' = remote
  BY BudgetSpent DEF ClearCache, remote
<1>2. \A f \in Files : ent[f] \in EntryRows
  BY StoreTypes DEF EntRows
<1>3. ASSUME NEW f \in Files
      PROVE  /\ ent'[f] \in EntryRows /\ ent'[f].at = ent[f].at /\ ent'[f].st = ent[f].st
             /\ ent'[f].point = ent[f].point /\ ent'[f].timer = ent[f].timer
             /\ ent'[f].ptries = ent[f].ptries
  <2>1. ent'[f] = ent[f] \/ ent'[f] = [ent[f] EXCEPT !.dls = 0]
    BY DEF ClearCache
  <2>2. 0 \in 0..MaxDownloads
    BY TransferAssumption
  <2> QED BY <1>2, <2>1, <2>2 DEF EntryRows
<1>4. ent' \in EntRows
  BY <1>3 DEF ClearCache, EntRows
<1>5. /\ att' \in AttRows
      /\ \A f \in Files : Rewritten(f)
  BY <1>1, <1>3, EmptiedRows DEF Rewritten
<1>6. TypeOK'
  BY <1>1, <1>4, <1>5, StoreTypes, TypeUser, TypeCancels
<1>7. ASSUME NEW f \in Files
      PROVE  FileInv(f)'
  <2>1. FileInv(f)
    BY DEF IInv
  <2> QED BY <1>1, <1>3, <1>5, <2>1, RowsMove DEF FileInv, EntryAgrees
<1>8. Busy' = Busy
  BY <1>3 DEF Busy, ActiveFiles, Pointed
<1>9. Holder'
  BY <1>1, <1>3, <1>8 DEF IInv, Holder, F
<1>10. PhaseAtStep' /\ RequestAtStep'
  BY <1>1 DEF PhaseAtStep, RequestAtStep, UploadPCs, StagePCs
<1>11. JobInv'
  BY <1>1, <1>3, <1>8 DEF IInv, JobInv
<1>12. BulkInv'
  <2>1. run.todo \subseteq Files
    BY StoreTypes DEF RunStates
  <2> QED BY <1>1, <1>3, <1>8, <2>1 DEF IInv, BulkInv, F
<1>13. PointInv'
  BY <1>1, <1>3 DEF IInv, PointInv
<1> QED BY <1>6, <1>7, <1>9, <1>10, <1>11, <1>12, <1>13 DEF IInv

LEMMA CrashRestartKeeps ==
    ASSUME IInv, CrashRestart
    PROVE  IInv'
<1>1. /\ run' = Idle /\ mem' = [creds |-> FALSE, outage |-> FALSE] /\ cancels' = {}
      /\ job' = Recovered /\ job \in JobRows
      /\ ent' = IF job.st = "stopped" /\ job.stop THEN Cancelled ELSE ent
      /\ budget' = [budget EXCEPT !.crash = @ - 1] /\ budget.crash > 0
      /\ UNCHANGED <<dest, wire>> /\ remote' = remote
  BY StoreTypes DEF CrashRestart, remote
<1>2. PICK rows \in {att, Emptied("gone")} : att' = Cleaned(rows, ent')
  BY DEF CrashRestart
<1>3. /\ rows \in AttRows
      /\ \A f \in Files, a \in Attempts :
           /\ att[f][a].copy = "none" => rows[f][a].copy = "none"
           /\ \/ rows[f][a].ph = att[f][a].ph
              \/ /\ a = ent[f].at /\ att[f][a].ph \in Withdrawable
                 /\ rows[f][a].ph = "staged" /\ ent[f].st \notin Success
  BY <1>2, EmptiedRows, StoreTypes
<1>4. /\ att' \in AttRows
      /\ \A f \in Files, a \in Attempts : /\ att'[f][a].ph = rows[f][a].ph
                                          /\ att'[f][a].copy \in {"none", rows[f][a].copy}
  BY <1>2, <1>3, CleanedRows
<1>5. job.st = "stopped" => job.stop /\ \A f \in Files : ~ent[f].point /\ ent[f].timer = "none"
  BY DEF IInv, JobInv
<1>6. /\ ent' \in EntRows
      /\ \A f \in Files :
           /\ ent'[f].at = ent[f].at /\ ent'[f].st \in {ent[f].st, "cancelled"}
           /\ ent'[f].point => ent' = ent
           /\ ent'[f].timer \in {"none", ent[f].timer} /\ (ent'[f].point => ent[f].point)
  BY <1>1, <1>5, CancelledRows, StoreTypes
<1>7. /\ job' \in JobRows /\ job'.stop = job.stop /\ job'.direct = job.direct
      /\ ~job.stop => job'.st \in {"awaiting_credentials", "completed", "completed_with_issues"}
      /\ job'.st \in {"awaiting_credentials", job.st}
  <2>1. CASE ~job.stop /\ job.st \in {"running", "paused", "needs_attention"}
    BY <1>1, <2>1 DEF Recovered, JobRows, JobStates
  <2>2. CASE ~(~job.stop /\ job.st \in {"running", "paused", "needs_attention"})
    <3>1. job' = job
      BY <1>1, <2>2 DEF Recovered
    <3>2. ~job.stop => job.st # "stopped"
      BY <1>5
    <3> QED BY <1>1, <2>2, <3>1, <3>2 DEF JobRows, JobStates
  <2> QED BY <2>1, <2>2
<1>8. budget' \in Budgets
  BY <1>1 DEF IInv, TypeOK, Budgets
<1>9. TypeOK'
  <2>1. mem' \in Mems
    BY <1>1 DEF Mems
  <2> QED BY <1>1, <1>4, <1>6, <1>7, <1>8, <2>1, IdleState, TypeUser
<1>10. ASSUME NEW f \in Files
       PROVE  FileInv(f)'
  <2>1. FileInv(f)
    BY DEF IInv
  <2>2. ent'[f].st \in Success => ent[f].st \in Success
    BY <1>6 DEF Success
  <2>3. Rewritten(f)
    BY <1>3, <1>4, <2>2 DEF Rewritten
  <2> QED BY <1>1, <1>6, <1>7, <2>1, <2>2, <2>3, RowsMove DEF FileInv, EntryAgrees
<1>11. run'.pc = "idle" /\ run'.f = NoFile /\ ~run'.point
  BY <1>1 DEF Idle
<1>12. Busy' \subseteq Busy
  BY <1>6 DEF Busy, ActiveFiles, Pointed, Active
<1>13. Holder'
  BY <1>1, <1>11, <1>12 DEF IInv, Holder, JobPCs, PointPCs
<1>14. PhaseAtStep' /\ RequestAtStep'
  BY <1>11 DEF PhaseAtStep, RequestAtStep, UploadPCs, StagePCs
<1>15. JobInv'
  <2>1. job.stop => \A f \in Files : ~ent'[f].point /\ ent'[f].timer = "none"
    BY <1>6 DEF IInv, JobInv
  <2>2. job.st = "stopped" => \A f \in Files : ent'[f].st \notin Active \cup {"planned", "outcome_unknown"}
    BY <1>1, <1>5, CancelledRows
  <2>3. Busy = {} => Busy' = {}
    BY <1>12
  <2>4. job.st # "stopped" => ent' = ent
    BY <1>1
  <2>5. job.st \in {"completed", "completed_with_issues"} => Busy = {}
    BY DEF IInv, JobInv
  <2>6. job.st = "completed" => \A f \in Files : ent'[f].st \in Success
    BY <2>4 DEF IInv, JobInv
  <2> QED BY <1>5, <1>7, <1>11, <2>1, <2>2, <2>3, <2>5, <2>6 DEF JobInv, BulkPCs
<1>16. BulkInv' /\ PointInv'
  BY <1>1, <1>11 DEF BulkInv, PointInv, BulkPCs
<1> QED BY <1>9, <1>10, <1>13, <1>14, <1>15, <1>16 DEF IInv

LEMMA UserKeeps ==
    ASSUME IInv, User
    PROVE  IInv'
  BY PauseJobKeeps, FullStopKeeps, EnableRetryKeeps, DisableRetryKeeps, CredentialsKeeps,
     ResumeKeeps, BulkRetryKeeps, ClearCacheKeeps, PointRetryKeeps DEF User

----------------------------------------------------------------------------
(* The server and other writers. *)

\* A request of attempt a of f leaves the server, or its operation has ended.
LEMMA RequestEnds ==
    ASSUME IInv, NEW f \in Files, NEW a \in Attempts, NEW st \in Requests,
           \/ wire[f][a].st = "late" /\ st = "none"
           \/ wire[f][a].st = "op" /\ st \in {"opdone", "opfailed"},
           TypeRemote', wire'[f][a].st = st,
           \A g \in Files : g # f => dest'[g] = dest[g] /\ wire'[g] = wire[g],
           \A b \in Attempts : b # a => wire'[f][b] = wire[f][b],
           dest'[f] \in {dest[f], "ours"},
           UNCHANGED <<job, ent, att, run, mem, cancels, source, budget>>
    PROVE  IInv'
<1>1. TypeOK'
  BY DEF IInv, TypeOK, TypeRemote
<1>2. ASSUME NEW g \in Files, g # f
      PROVE  FileInv(g)'
  BY <1>2, FileKept, RowFields DEF IInv
<1>3. FileInv(f) /\ Direct' = Direct /\ Phase(f)' = Phase(f)
  BY DEF IInv, Direct, Phase, Row
<1>4. st \notin Late /\ "none" \notin Late /\ (wire[f][a].st = "op" => st \in Answered)
      /\ "late" \notin Answered
  BY DEF Late, Answered
<1>5. FileInv(f)'
  <2>1. RowsInOrder(f)'
    BY <1>3 DEF FileInv, RowsInOrder
  <2>2. RequestsKnown(f)'
    BY <1>3, <1>4 DEF FileInv, RequestsKnown
  <2>3. EntryAgrees(f)'
    BY <1>3 DEF FileInv, EntryAgrees
  <2> QED BY <2>1, <2>2, <2>3 DEF FileInv
<1>6. \A g \in Files : /\ dest[g] = "ours" => dest'[g] = "ours"
                       /\ Phase(g)' = Phase(g) /\ Row(g)' = Row(g)
  BY DEF Phase, Row
<1>7. \A g \in Files, b \in Attempts :
        /\ wire'[g][b].st \in Late => wire[g][b].st \in Late
        /\ wire[g][b].st \in Answered => wire'[g][b].st \in Answered
        /\ wire[g][b].st = "none" => wire'[g][b].st = "none"
        /\ wire[g][b].st \in {"opdone", "opfailed"} => wire'[g][b] = wire[g][b]
  BY <1>4
<1>8. Busy' = Busy
  BY DEF Busy, ActiveFiles, Pointed
<1>9. Holder'
  BY <1>8 DEF IInv, Holder, F
<1>10. PhaseAtStep' /\ RequestAtStep'
  <2>1. CASE run.pc \in JobPCs
    BY <2>1 DEF PhaseAtStep, RequestAtStep, UploadPCs, StagePCs, JobPCs
  <2>2. CASE run.pc \notin JobPCs
    <3> PICK g \in Files : F = g
      BY <2>2 DEF IInv, Holder
    <3>1. F' = g
      BY DEF F
    <3>2. PhaseAtStep'
      BY <1>3, <1>6, <3>1 DEF IInv, PhaseAtStep
    <3>3. run.pc \in {"put", "move", "sent", "moved", "polled"} => ent[g].at \in Attempts
      <4>1. run.pc \in {"put", "move", "sent", "moved", "polled"} => Phase(g) # "none"
        BY DEF IInv, PhaseAtStep, Waiting
      <4> QED BY <4>1, HasBegun, CurrentRow
    <3>4. Phase(g) \in Remembered => ent[g].at \in Attempts
      BY HasBegun, CurrentRow DEF Remembered, UnknownPhases, Waiting, AbandonedPhases
    <3>5. RequestAtStep'
      BY <1>3, <1>6, <1>7, <3>1, <3>3, <3>4 DEF IInv, RequestAtStep
    <3> QED BY <3>2, <3>5
  <2> QED BY <2>1, <2>2
<1>11. JobInv' /\ BulkInv' /\ PointInv'
  BY <1>8 DEF IInv, JobInv, BulkInv, PointInv, F
<1> QED BY <1>1, <1>2, <1>5, <1>9, <1>10, <1>11 DEF IInv

\* What the server does with a write: its own content, or nothing.
LEMMA EffectOnDest ==
    ASSUME IInv, NEW f \in Files, NEW a \in Attempts,
           NoEffect \/ Apply(f, a, wire[f][a].to, "ours")
    PROVE  /\ dest' \in [Files -> Contents] /\ temp' \in [Files -> [Attempts -> Contents]]
           /\ \A g \in Files : g # f => dest'[g] = dest[g]
           /\ dest'[f] \in {dest[f], "ours"}
<1>1. TypeRemote
  BY RemoteTypes
<1>2. CASE NoEffect
  BY <1>1, <1>2 DEF NoEffect, TypeRemote
<1>3. CASE Apply(f, a, wire[f][a].to, "ours")
  <2>1. PICK to \in {"final", "temp", "move"} : to = wire[f][a].to
    BY <1>1 DEF TypeRemote, WireRows
  <2>2. Apply(f, a, to, "ours") /\ "ours" \in Contents
    BY <1>3, <2>1 DEF Contents
  <2> QED BY <1>1, <2>2, Applied
<1> QED BY <1>2, <1>3

LEMMA LandKeeps ==
    ASSUME IInv, NEW f \in Files, NEW a \in Attempts, Land(f, a)
    PROVE  IInv'
<1>1. /\ wire[f][a].st = "late" /\ wire' = [wire EXCEPT ![f][a] = NoRequest]
      /\ NoEffect \/ Apply(f, a, wire[f][a].to, "ours")
      /\ UNCHANGED <<job, ent, att, run, mem, cancels, source, budget>>
  BY DEF Land
<1>2. TypeRemote /\ NoRequest \in WireRows /\ NoRequest.st = "none" /\ "none" \in Requests
  BY RemoteTypes DEF NoRequest, WireRows, Requests
<1>3. /\ wire' \in [Files -> [Attempts -> WireRows]] /\ wire'[f][a].st = "none"
      /\ \A g \in Files : g # f => wire'[g] = wire[g]
      /\ \A b \in Attempts : b # a => wire'[f][b] = wire[f][b]
  BY <1>1, <1>2, WireSet
<1>4. /\ dest' \in [Files -> Contents] /\ temp' \in [Files -> [Attempts -> Contents]]
      /\ \A g \in Files : g # f => dest'[g] = dest[g]
      /\ dest'[f] \in {dest[f], "ours"}
  BY <1>1, EffectOnDest
<1>5. TypeRemote'
  BY <1>3, <1>4 DEF TypeRemote
<1> QED BY <1>1, <1>2, <1>3, <1>4, <1>5, RequestEnds

LEMMA EndOperationKeeps ==
    ASSUME IInv, NEW f \in Files, NEW a \in Attempts, EndOperation(f, a)
    PROVE  IInv'
<1>1. /\ wire[f][a].st = "op"
      /\ NoEffect \/ Apply(f, a, wire[f][a].to, "ours")
      /\ UNCHANGED <<job, ent, att, run, mem, cancels, source, budget>>
  BY DEF EndOperation
<1>2. PICK st \in {"opdone", "opfailed"} : wire' = [wire EXCEPT ![f][a].st = st]
  BY DEF EndOperation
<1>3. TypeRemote
  BY RemoteTypes
<1> DEFINE w == [wire[f][a] EXCEPT !.st = st]
<1>4. w \in WireRows /\ w.st = st /\ st \in Requests
  <2>1. wire[f][a] \in WireRows
    BY <1>3 DEF TypeRemote
  <2> QED BY <2>1 DEF WireRows, Requests
<1>5. wire' = [wire EXCEPT ![f][a] = w]
  BY <1>2, <1>3 DEF TypeRemote
<1> HIDE DEF w
<1>6. /\ wire' \in [Files -> [Attempts -> WireRows]] /\ wire'[f][a] = w
      /\ \A g \in Files : g # f => wire'[g] = wire[g]
      /\ \A b \in Attempts : b # a => wire'[f][b] = wire[f][b]
  BY <1>3, <1>4, <1>5 DEF TypeRemote
<1>7. /\ dest' \in [Files -> Contents] /\ temp' \in [Files -> [Attempts -> Contents]]
      /\ \A g \in Files : g # f => dest'[g] = dest[g]
      /\ dest'[f] \in {dest[f], "ours"}
  BY <1>1, EffectOnDest
<1>8. TypeRemote'
  BY <1>6, <1>7 DEF TypeRemote
<1> QED BY <1>1, <1>2, <1>4, <1>6, <1>7, <1>8, RequestEnds

\* Another writer takes a free name, or the source changes.
LEMMA EditKeeps ==
    ASSUME IInv, NEW f \in Files, ForeignWrite(f) \/ SourceEdit(f)
    PROVE  IInv'
<1>1. /\ UNCHANGED <<job, ent, att, run, mem, cancels, temp, wire>> /\ budget' \in Budgets
      /\ dest' \in [Files -> Contents] /\ source' \in [Files -> {"same", "changed"}]
      /\ \A g \in Files : dest[g] = "ours" <=> dest'[g] = "ours"
  <2>1. dest \in [Files -> Contents] /\ source \in [Files -> {"same", "changed"}]
    BY DEF IInv, TypeOK
  <2>2. budget' \in Budgets
    BY BudgetSpent DEF ForeignWrite, SourceEdit
  <2>3. CASE ForeignWrite(f)
    BY <2>1, <2>2, <2>3 DEF ForeignWrite, Contents
  <2>4. CASE SourceEdit(f)
    BY <2>1, <2>2, <2>4 DEF SourceEdit
  <2> QED BY <2>3, <2>4
<1>2. TypeOK'
  BY <1>1 DEF IInv, TypeOK, Budgets
<1>3. Direct' = Direct /\ (\A g \in Files : Phase(g)' = Phase(g) /\ Row(g)' = Row(g))
  BY <1>1 DEF Direct, Phase, Row
<1>4. ASSUME NEW g \in Files
      PROVE  FileInv(g)'
  <2>1. FileInv(g)
    BY DEF IInv
  <2>2. RowsInOrder(g)'
    BY <1>1, <1>3, <2>1 DEF FileInv, RowsInOrder
  <2>3. RequestsKnown(g)'
    BY <1>1, <1>3, <2>1 DEF FileInv, RequestsKnown
  <2>4. EntryAgrees(g)'
    BY <1>1, <1>3, <2>1 DEF FileInv, EntryAgrees
  <2> QED BY <2>2, <2>3, <2>4 DEF FileInv
<1>5. Busy' = Busy
  BY <1>1 DEF Busy, ActiveFiles, Pointed
<1>6. Holder'
  BY <1>1, <1>5 DEF IInv, Holder, F
<1>7. PhaseAtStep' /\ RequestAtStep'
  <2>1. CASE run.pc \in JobPCs
    BY <1>1, <2>1 DEF PhaseAtStep, RequestAtStep, UploadPCs, StagePCs, JobPCs
  <2>2. CASE run.pc \notin JobPCs
    <3> PICK g \in Files : F = g
      BY <2>2 DEF IInv, Holder
    <3>1. F' = g
      BY <1>1 DEF F
    <3>2. PhaseAtStep'
      BY <1>1, <1>3, <3>1 DEF IInv, PhaseAtStep
    <3>3. RequestAtStep'
      BY <1>1, <1>3, <3>1 DEF IInv, RequestAtStep
    <3> QED BY <3>2, <3>3
  <2> QED BY <2>1, <2>2
<1>8. JobInv' /\ BulkInv' /\ PointInv'
  BY <1>1, <1>5 DEF IInv, JobInv, BulkInv, PointInv, F
<1> QED BY <1>2, <1>4, <1>6, <1>7, <1>8 DEF IInv

----------------------------------------------------------------------------
(* The invariant holds of every state. *)

LEMMA InitIInv == Init => IInv
<1> SUFFICES ASSUME Init
             PROVE  IInv
  OBVIOUS
<1>1. PICK s \in Scenarios :
        /\ job = [st |-> "running", resume |-> "none", pause |-> FALSE, stop |-> FALSE,
                   retry |-> TRUE, direct |-> s.direct,
                   ns |-> IF s.direct THEN "owned" ELSE "unclaimed", origin |-> <<NoFile, 0>>]
        /\ budget = [user |-> s.user, edits |-> s.edits, crash |-> s.crash]
  BY DEF Init
<1>2. s.direct \in BOOLEAN /\ s.user \in Nat /\ s.edits \in Nat /\ s.crash \in Nat
  BY TransferAssumption
<1>3. \A f \in Files : /\ ent[f] = [st |-> "planned", at |-> 0, point |-> FALSE,
                                    ptries |-> 0, dls |-> 0, timer |-> "none"]
                       /\ \A a \in Attempts : att[f][a] = NoAttempt /\ wire[f][a] = NoRequest
  BY DEF Init
<1>4. run = Idle /\ run.pc = "idle" /\ run.f = NoFile /\ ~run.point
      /\ mem = [creds |-> TRUE, outage |-> FALSE] /\ cancels = {}
  BY DEF Init, Idle
<1>5. TypeOK
  <2>1. job \in JobRows
    <3>1. <<NoFile, 0>> \in (Files \cup {NoFile}) \X (0..MaxAttempts)
      BY TransferAssumption
    <3> QED BY <1>1, <1>2, <3>1 DEF JobRows, JobStates
  <2>2. ent \in [Files -> EntryRows]
    <3>1. 0 \in 0..MaxAttempts /\ 0 \in 0..MaxPointTries /\ 0 \in 0..MaxDownloads
          /\ "planned" \in EntryStates
      BY TransferAssumption DEF EntryStates
    <3> QED BY <3>1 DEF Init, EntryRows
  <2>3. att \in [Files -> [Attempts -> AttemptRows]]
    BY DEF Init, NoAttempt, AttemptRows, Phases, Copies
  <2>4. wire \in [Files -> [Attempts -> WireRows]]
    BY DEF Init, NoRequest, WireRows, Requests
  <2>5. /\ dest \in [Files -> Contents] /\ temp \in [Files -> [Attempts -> Contents]]
        /\ source \in [Files -> {"same", "changed"}]
    BY DEF Init, Contents
  <2>6. budget \in [user : Nat, edits : Nat, crash : Nat]
    BY <1>1, <1>2
  <2> QED BY <1>4, <2>1, <2>2, <2>3, <2>4, <2>5, <2>6, IdleState DEF TypeOK
<1>6. ASSUME NEW f \in Files
      PROVE  FileInv(f)
  <2>1. Phase(f) = "none"
    BY <1>3 DEF Phase, Row, NoAttempt
  <2>2. RowsInOrder(f)
    BY <1>3 DEF RowsInOrder, NoAttempt, NoRequest, Attempts
  <2>3. RequestsKnown(f)
    BY <1>3 DEF RequestsKnown, NoAttempt, NoRequest, Waiting, Late
  <2>4. EntryAgrees(f)
    BY <1>3 DEF EntryAgrees, Success
  <2> QED BY <2>2, <2>3, <2>4 DEF FileInv
<1>7. Busy = {}
  BY <1>3 DEF Busy, ActiveFiles, Pointed, Active
<1>8. Holder
  BY <1>4, <1>7 DEF Holder, JobPCs, PointPCs
<1>9. PhaseAtStep /\ RequestAtStep
  BY <1>4 DEF PhaseAtStep, RequestAtStep, UploadPCs, StagePCs
<1>10. JobInv /\ BulkInv /\ PointInv
  BY <1>1, <1>3, <1>4 DEF JobInv, BulkInv, PointInv, BulkPCs
<1> QED BY <1>5, <1>6, <1>8, <1>9, <1>10 DEF IInv

LEMMA StutterKeeps ==
    ASSUME IInv, UNCHANGED vars
    PROVE  IInv'
<1>1. UNCHANGED <<job, ent, att, run, mem, cancels, dest, temp, wire, source, budget>>
  BY DEF vars
<1>2. TypeOK'
  BY <1>1 DEF IInv, TypeOK
<1>3. Busy' = Busy
  BY <1>1, RowsStand
<1>4. JobInv' /\ BulkInv' /\ PointInv'
  BY <1>1, <1>3 DEF IInv, JobInv, BulkInv, PointInv, F
<1> QED BY <1>1, <1>2, <1>4, JobChanges

LEMMA NextIInv == IInv /\ [Next]_vars => IInv'
<1> SUFFICES ASSUME IInv, [Next]_vars
             PROVE  IInv'
  OBVIOUS
<1>1. CASE Runner \/ User
  BY <1>1, RunnerKeeps, UserKeeps
<1>2. CASE Environment
  BY <1>2, LandKeeps, EndOperationKeeps, EditKeeps DEF Environment
<1>3. CASE CrashRestart \/ \E f \in Files : CancelPoint(f) \/ TimerFires(f)
  BY <1>3, CrashRestartKeeps, CancelPointKeeps, TimerFiresKeeps
<1>4. CASE AwaitUser \/ UNCHANGED vars
  BY <1>4, StutterKeeps DEF AwaitUser
<1> QED BY <1>1, <1>2, <1>3, <1>4 DEF Next

LEMMA Invariant == Spec => []IInv
  BY InitIInv, NextIInv, PTL DEF Spec

----------------------------------------------------------------------------
(* The invariants the runs check. *)

\* Every variable stays in its domain, for any number of files, attempts, requests
\* and crashes.
THEOREM Types == Spec => []TypeOK
<1>1. IInv => TypeOK
  BY DEF IInv
<1> QED BY <1>1, Invariant, PTL

\* A file reported as delivered is at its place with the plan's size and MD5,
\* whatever late answers, point retries and crashes came before (runner._file,
\* confirm_point_copy).
THEOREM VerifiedAlways == Spec => []Verified
<1>1. IInv => Verified
  BY DEF IInv, FileInv, EntryAgrees, Verified
<1> QED BY <1>1, Invariant, PTL

\* The phase of an attempt tells of every write the server may still carry out, so
\* that no later decision (new_attempt, runner.retry, _point_overwrite) overlooks one.
THEOREM InFlightAlwaysRemembered == Spec => []InFlightRemembered
<1>1. IInv => InFlightRemembered
  BY DEF IInv, FileInv, RequestsKnown, InFlightRemembered, Pending, Late, Remembered
<1> QED BY <1>1, Invariant, PTL

\* A job that may be stepped has credentials, although finish_point_retry and the
\* retry switch write its state without the guard.
THEOREM CredentialsAlwaysHeld == Spec => []CredentialsHeld
<1>1. IInv => CredentialsHeld
  BY DEF IInv, JobInv, CredentialsHeld, At
<1> QED BY <1>1, Invariant, PTL

\* A confirmed full stop has left nothing local to do, a crash between its two
\* transactions included (stop_migration_job, cancel_local_entries).
THEOREM StoppedAlwaysQuiet == Spec => []StoppedIsQuiet
<1>1. IInv => StoppedIsQuiet
  BY DEF IInv, JobInv, StoppedIsQuiet, At
<1> QED BY <1>1, Invariant, PTL

\* No two files are under way at once, and the guard is held for the one that is.
OneUnderWay == /\ \A f, g \in Busy : f = g
               /\ run.pc \notin JobPCs => Busy \subseteq {F}
THEOREM OneFileAtATime == Spec => []OneUnderWay
<1>1. IInv => OneUnderWay
  BY DEF IInv, Holder, OneUnderWay
<1> QED BY <1>1, Invariant, PTL

----------------------------------------------------------------------------
(* What a step may do to the attempts and the entries: they only advance. *)

\* An attempt does not go back to a phase that sends, a complete copy is given on or
\* delivered, and a file is planned anew, or waits for a retry, by one step only.
Relinquished(g) == \/ ent'[g].st \in Success
                   \/ budget'.user # budget.user \/ budget'.crash # budget.crash
Advances ==
    /\ \A g \in Files, b \in Attempts :
         /\ att[g][b].ph \notin EarlyPhases => att'[g][b].ph \notin EarlyPhases
         /\ att'[g][b].ph = "download_retry_wait" =>
              att[g][b].ph = "download_retry_wait" \/ ent'[g].st = "downloading"
    /\ \A g \in Files :
         /\ HasCopy(g) /\ ~HasCopy(g)' => Relinquished(g)
         /\ ent'[g].at = ent[g].at \/ (ent'[g].at \in Attempts /\ att'[g][ent'[g].at].ph \in Local)
         /\ ent'[g].st = "planned" => ent[g].st = "planned" \/ (run.pc = "bulkEnt" /\ g = F)

\* A step of the runner touches the entry of its own file only, and goes on as a
\* point retry only where it began as one.
Touches(f) ==
    /\ \A g \in Files : g # f => ent'[g] = ent[g]
    /\ run'.point => run.point /\ run'.f = f
    /\ dest' = dest \/ (ent' = ent /\ run'.point = run.point /\ run'.f = f
                        /\ \A g \in Files : g # f => dest'[g] = dest[g])

\* The entries keep their attempts, and none is planned anew.
EntriesStand ==
    \A g \in Files : /\ ent'[g].at = ent[g].at
                     /\ ent'[g].st = "planned" => ent[g].st = "planned"

LEMMA RowsStandAdvance ==
    ASSUME att' = att, EntriesStand
    PROVE  Advances
  BY DEF Advances, EntriesStand, HasCopy

LEMMA CopiesAdvance ==
    ASSUME EntriesStand,
           \A g \in Files, b \in Attempts :
               /\ att'[g][b].ph = att[g][b].ph
               /\ att'[g][b].copy = att[g][b].copy \/ Relinquished(g)
    PROVE  Advances
  BY DEF Advances, EntriesStand, HasCopy

LEMMA RunMoves ==
    ASSUME run \in RunStates
    PROVE  /\ \A q : Go(q) => run'.point = run.point /\ run'.f = F
           /\ \A e : Fail(e) => run'.point = run.point /\ run'.f = F
           /\ ~Idle.point
           /\ Return => (run'.point => run.point /\ run'.f = F)
<1>1. \A q : Go(q) => run'.point = run.point /\ run'.f = F
  BY DEF Go, RunStates, F
<1>2. \A e : Fail(e) => run'.point = run.point /\ run'.f = F
  BY DEF Fail, RunStates, F
<1>3. ~Idle.point
  BY DEF Idle
<1>4. Return => (run'.point => run.point /\ run'.f = F)
  BY <1>1, <1>3 DEF Return
<1> QED BY <1>1, <1>2, <1>3, <1>4

\* The entry of the step's file takes another state, or none does.
LEMMA EntryStepped ==
    ASSUME IInv, NEW f \in Files,
           ent' = ent \/ \E s \in EntryStates \ {"planned"} : SetEntry(f, s)
    PROVE  EntriesStand /\ \A g \in Files : g # f => ent'[g] = ent[g]
<1>1. CASE ent' = ent
  BY <1>1 DEF EntriesStand
<1>2. ASSUME NEW s \in EntryStates \ {"planned"}, SetEntry(f, s)
      PROVE  EntriesStand /\ \A g \in Files : g # f => ent'[g] = ent[g]
  BY <1>2, StoreTypes DEF SetEntry, EntRows, EntryRows, EntriesStand
<1> QED BY <1>1, <1>2

\* A step that leaves the attempts and the server alone.
LEMMA StillMoves ==
    ASSUME IInv, F \in Files, UNCHANGED <<att, remote>>,
           ent' = ent \/ \E s \in EntryStates \ {"planned"} : SetEntry(F, s),
           \/ run' = Idle \/ Return \/ (\E q : Go(q)) \/ \E e : Fail(e)
    PROVE  Advances /\ Touches(F)
<1>1. EntriesStand /\ \A g \in Files : g # F => ent'[g] = ent[g]
  BY EntryStepped
<1>2. run'.point => run.point /\ run'.f = F
  BY RunMoves, StoreTypes
<1> QED BY <1>1, <1>2, RowsStandAdvance DEF Touches, remote

LEMMA PrepareStillMoves ==
    ASSUME IInv, F \in Files, CheckNewSource \/ CheckNewDestination \/ MarkTransferring
    PROVE  Advances /\ Touches(F)
<1> USE DEF ReadFails, store, EntryStates, Success, Active
<1>1. CASE CheckNewSource
  BY <1>1, StillMoves DEF CheckNewSource
<1>2. CASE CheckNewDestination
  BY <1>2, StillMoves DEF CheckNewDestination
<1>3. CASE MarkTransferring
  BY <1>3, StillMoves DEF MarkTransferring
<1> QED BY <1>1, <1>2, <1>3

LEMMA PointStillMoves ==
    ASSUME IInv, F \in Files, Poll \/ PointFile \/ HandleError
    PROVE  Advances /\ Touches(F)
<1> USE DEF ReadFails, store, EntryStates, Success, Active
<1>1. CASE Poll
  BY <1>1, StillMoves DEF Poll
<1>2. CASE PointFile
  BY <1>2, StillMoves DEF PointFile
<1>3. CASE HandleError
  <2>1. run' = Idle \/ (run'.point = run.point /\ run'.f = F)
    BY <1>3, RunMoves, StoreTypes DEF HandleError, RunStates, F
  <2> QED BY <1>3, <2>1, RunMoves, RowsStandAdvance, StoreTypes DEF HandleError, EntriesStand, Touches, remote
<1> QED BY <1>1, <1>2, <1>3

\* The current attempt takes a phase from which nothing is sent.
Steers(f, p) ==
    LET a == ent[f].at
    IN \/ SetPhase(f, p)
       \/ \E e : att' = [att EXCEPT ![f][a].ph = p, ![f][a].err = e]
       \/ \E o : att' = [att EXCEPT ![f][a].ph = p, ![f][a].op = o]

LEMMA SteeredRow ==
    ASSUME IInv, NEW f \in Files, ent[f].at > 0, NEW p, Steers(f, p)
    PROVE  \E r : Written(f, ent[f].at, r) /\ r.ph = p /\ r.copy = Row(f).copy
<1> PICK a \in Attempts : a = ent[f].at /\ Row(f) = att[f][a] /\ att[f][a] \in AttemptRows
  BY CurrentRow
<1>1. ASSUME SetPhase(f, p)
      PROVE  \E r : Written(f, a, r) /\ r.ph = p /\ r.copy = Row(f).copy
  <2> DEFINE r == [att[f][a] EXCEPT !.ph = p]
  <2>1. Written(f, a, r) /\ r.ph = p /\ r.copy = Row(f).copy
    BY <1>1, StoreTypes DEF SetPhase, AttRows, AttemptRows, Written
  <2> QED BY <2>1
<1>2. ASSUME NEW e, att' = [att EXCEPT ![f][a].ph = p, ![f][a].err = e]
      PROVE  \E r : Written(f, a, r) /\ r.ph = p /\ r.copy = Row(f).copy
  <2> DEFINE r == [att[f][a] EXCEPT !.ph = p, !.err = e]
  <2>1. Written(f, a, r) /\ r.ph = p /\ r.copy = Row(f).copy
    BY <1>2, StoreTypes DEF AttRows, AttemptRows, Written
  <2> QED BY <2>1
<1>3. ASSUME NEW o, att' = [att EXCEPT ![f][a].ph = p, ![f][a].op = o]
      PROVE  \E r : Written(f, a, r) /\ r.ph = p /\ r.copy = Row(f).copy
  <2> DEFINE r == [att[f][a] EXCEPT !.ph = p, !.op = o]
  <2>1. Written(f, a, r) /\ r.ph = p /\ r.copy = Row(f).copy
    BY <1>3, StoreTypes DEF AttRows, AttemptRows, Written
  <2> QED BY <2>1
<1> QED BY <1>1, <1>2, <1>3 DEF Steers

LEMMA SteeredMoves ==
    ASSUME IInv, F \in Files, ent[F].at > 0, NEW STATE p, p \notin EarlyPhases, Steers(F, p),
           remote' = remote,
           ent' = ent \/ \E s \in EntryStates \ {"planned"} : SetEntry(F, s),
           run'.point => run.point /\ run'.f = F
    PROVE  Advances /\ Touches(F)
<1>1. EntriesStand /\ \A g \in Files : g # F => ent'[g] = ent[g]
  BY EntryStepped
<1>2. PICK r : Written(F, ent[F].at, r) /\ r.ph = p /\ r.copy = Row(F).copy
  BY SteeredRow
<1>3. ent[F].at \in Attempts /\ Row(F) = att[F][ent[F].at]
  BY CurrentRow
<1>4. "download_retry_wait" \in EarlyPhases
  BY DEF EarlyPhases
<1>5. Advances
  <2>1. /\ att'[F][ent[F].at] = r
        /\ \A g \in Files, b \in Attempts : g # F \/ b # ent[F].at => att'[g][b] = att[g][b]
    BY <1>2, <1>3, StoreTypes DEF AttRows, Written
  <2>2. \A g \in Files : HasCopy(g) => HasCopy(g)'
    BY <1>2, <1>3, <2>1 DEF HasCopy
  <2> QED BY <1>1, <1>2, <1>3, <1>4, <2>1, <2>2 DEF Advances, EntriesStand
<1> QED BY <1>1, <1>5 DEF Touches, remote

\* The phases in which something was sent, or the attempt is over.
LEMMA NotEarly ==
    /\ UnknownPhases \cup Waiting \cup AbandonedPhases \cup
         {"verifying", "verifying_final", "succeeded", "failed"} \subseteq Phases \ EarlyPhases
    /\ EntryStates \cap {"planned"} = {"planned"} /\ Active \subseteq EntryStates \ {"planned"}
    /\ "none" \notin Local
  BY DEF UnknownPhases, Waiting, AbandonedPhases, EarlyPhases, Local, Phases, SideEffectPhases,
     EntryStates, Active

\* The step stands in the pipeline, with an attempt.
LEMMA AtAttempt ==
    ASSUME IInv, F \in Files,
           run.pc \in StagePCs \cup {"put", "sent", "poll", "polled", "dfinal", "verify", "mkmove",
                                     "move", "moved", "final", "succ", "doneW", "ptconfirm"}
    PROVE  ent[F].at > 0
<1>1. Phase(F) # "none" \/ ent[F].at > 0
  BY NotEarly DEF IInv, PhaseAtStep, Local, Waiting
<1> QED BY <1>1, HasBegun

LEMMA OpenFileMoves ==
    ASSUME IInv, F \in Files, OpenFile
    PROVE  Advances /\ Touches(F)
<1>1. remote' = remote /\ run.pc = "file"
  BY DEF OpenFile, Proceeds, At
<1>2. CASE store' = store
  <2>1. run'.point => run.point /\ run'.f = F
    BY <1>2, RunMoves, StoreTypes DEF OpenFile, RunStates, F
  <2> QED BY <1>1, <1>2, <2>1, RowsStandAdvance DEF store, EntriesStand, Touches, remote
<1>3. CASE /\ Phase(F) = "download_retry_wait" /\ ent' = [ent EXCEPT ![F].timer = "none"]
           /\ SetPhase(F, "prepared") /\ Go(After("prepared"))
  <2>1. ent[F].at > 0
    BY <1>3, HasBegun
  <2>2. PICK a \in Attempts : a = ent[F].at /\ att[F][a] \in AttemptRows /\ Phase(F) = att[F][a].ph
    BY <2>1, CurrentRow
  <2>3. PICK r : Written(F, a, r) /\ r.ph = "prepared" /\ r.copy = att[F][a].copy
    <3>1. Steers(F, "prepared") /\ Row(F) = att[F][a]
      BY <1>3, <2>1, <2>2, CurrentRow DEF Steers
    <3> QED BY <2>1, <2>2, <3>1, SteeredRow
  <2>4. EntriesStand /\ \A g \in Files : g # F => ent'[g] = ent[g]
    BY <1>3, StoreTypes DEF EntRows, EntryRows, EntriesStand
  <2>5. att'[F][a] = r /\ \A g \in Files, b \in Attempts : g # F \/ b # a => att'[g][b] = att[g][b]
    BY <2>2, <2>3, StoreTypes DEF AttRows, Written
  <2>6. \A g \in Files : HasCopy(g) => HasCopy(g)'
    BY <2>2, <2>3, <2>5 DEF HasCopy
  <2>7. Advances
    BY <1>3, <2>2, <2>3, <2>4, <2>5, <2>6 DEF Advances, EntriesStand, EarlyPhases
  <2>8. run'.point = run.point /\ run'.f = F
    BY <1>3, RunMoves, StoreTypes
  <2> QED BY <1>1, <2>4, <2>7, <2>8 DEF Touches, remote
<1> QED BY <1>2, <1>3 DEF OpenFile

LEMMA NewAttemptMoves ==
    ASSUME IInv, F \in Files, NewAttempt
    PROVE  Advances /\ Touches(F)
<1>1. /\ run.pc = "new" /\ remote' = remote /\ ent[F].at = 0
      /\ run'.point = run.point /\ run'.f = F
  BY RunMoves, StoreTypes DEF NewAttempt, Proceeds, At, IInv, PhaseAtStep
<1>2. 1 \in Attempts /\ 0 < MaxAttempts
  BY TransferAssumption DEF Attempts
<1>3. att' = [att EXCEPT ![F][1] = [NoAttempt EXCEPT !.ph = "prepared"]]
  BY <1>1 DEF NewAttempt
<1>4. /\ att'[F][1].ph = "prepared"
      /\ \A g \in Files, b \in Attempts : g # F \/ b # 1 => att'[g][b] = att[g][b]
      /\ \A g \in Files : g # F => att'[g] = att[g]
  BY <1>2, <1>3, StoreTypes DEF AttRows, NoAttempt
<1>5. /\ \A g \in Files : g # F => ent'[g] = ent[g]
      /\ ent'[F].at = 1 /\ ent'[F].st = ent[F].st
  BY <1>1, StoreTypes DEF NewAttempt, EntRows, EntryRows
<1>6. FileInv(F)
  BY DEF IInv
<1>7. att[F][1].ph = "none" /\ att[F][1].copy = "none"
  BY <1>1, <1>2, <1>6 DEF FileInv, RowsInOrder
<1>8. \A g \in Files : HasCopy(g) => HasCopy(g)'
  BY <1>4, <1>7 DEF HasCopy
<1>9. Advances
  BY <1>1, <1>2, <1>4, <1>5, <1>7, <1>8 DEF Advances, EarlyPhases, Local
<1> QED BY <1>1, <1>5, <1>9 DEF Touches, remote

LEMMA GivesUpMoves ==
    ASSUME IInv, F \in Files, ent[F].at > 0, SourceChanged \/ Unverifiable, remote' = remote
    PROVE  Advances /\ Touches(F)
<1>1. Steers(F, "failed")
  BY DEF SourceChanged, Unverifiable, Steers
<1>2. \E s \in EntryStates \ {"planned"} : SetEntry(F, s)
  BY DEF SourceChanged, Unverifiable, EntryStates
<1>3. run'.point => run.point /\ run'.f = F
  BY RunMoves, StoreTypes DEF SourceChanged, Unverifiable
<1> QED BY <1>1, <1>2, <1>3, NotEarly, SteeredMoves

LEMMA CheckDestinationMoves ==
    ASSUME IInv, F \in Files, CheckDestination
    PROVE  Advances /\ Touches(F)
<1>1. CASE SetPhase(F, "verifying_final") /\ Go("final") /\ UNCHANGED <<ent, remote>>
  <2>1. ent[F].at > 0
    BY AtAttempt DEF CheckDestination, Proceeds, At, StagePCs
  <2>2. Steers(F, "verifying_final") /\ run'.point = run.point /\ run'.f = F
    BY <1>1, RunMoves, StoreTypes DEF Steers
  <2> QED BY <1>1, <2>1, <2>2, NotEarly, SteeredMoves
<1>2. CASE UNCHANGED <<ent, att, remote>> /\ ((\E q : Go(q)) \/ \E e : Fail(e))
  BY <1>2, StillMoves
<1> QED BY <1>1, <1>2 DEF CheckDestination, ReadFails, store

LEMMA CheckSourceMoves ==
    ASSUME IInv, F \in Files, CheckSourceAndParent \/ CheckSource("src2", "geturl")
    PROVE  Advances /\ Touches(F)
<1>1. run.pc \in {"src1", "src2"}
  BY DEF CheckSourceAndParent, CheckSource, Proceeds, At
<1>2. CASE SourceChanged /\ remote' = remote
  <2>1. ent[F].at > 0
    BY <1>1, AtAttempt DEF StagePCs
  <2> QED BY <1>2, <2>1, GivesUpMoves
<1>3. CASE UNCHANGED <<ent, att, remote>> /\ ((\E q : Go(q)) \/ \E e : Fail(e))
  BY <1>3, StillMoves
<1> QED BY <1>2, <1>3 DEF CheckSourceAndParent, CheckSource, ReadFails, store

LEMMA StandingMoves ==
    ASSUME IInv, UNCHANGED <<ent, att, dest>>, run'.point => run.point /\ run'.f = F
    PROVE  Advances /\ Touches(F)
  BY RowsStandAdvance DEF EntriesStand, Touches

LEMMA InterruptMoves ==
    ASSUME IInv, Interrupt
    PROVE  Advances /\ Touches(F)
<1>1. UNCHANGED <<ent, att, dest>> /\ ~run'.point
  BY DEF Interrupt, store, remote, Idle
<1> QED BY <1>1, StandingMoves

\* Steps of _stage: the row of the attempt, whose phase is local, and its entry.
LEMMA StagedMoves ==
    ASSUME IInv, F \in Files, remote' = remote, Phase(F) \in Local,
           \/ Row(F).copy # "full"
           \/ \A b \in Attempts : att[F][b].copy = "full" => att'[F][b].copy = "full",
           \A g \in Files, b \in Attempts : g # F \/ b # ent[F].at => att'[g][b] = att[g][b],
           \A g \in Files : g # F => ent'[g] = ent[g],
           ent'[F].at = ent[F].at, ent'[F].st = ent[F].st \/ ent'[F].st \in Active,
           \/ att'[F][ent[F].at].ph # "download_retry_wait"
           \/ ent'[F].st = "downloading",
           run'.point => run.point /\ run'.f = F
    PROVE  Advances /\ Touches(F)
<1>1. ent[F].at > 0
  BY HasBegun, NotEarly
<1> PICK a \in Attempts : a = ent[F].at /\ Row(F) = att[F][a] /\ Phase(F) = att[F][a].ph
  BY <1>1, CurrentRow
<1>2. att[F][a].ph \in EarlyPhases
  BY DEF EarlyPhases
<1>3. \A g \in Files : HasCopy(g) => HasCopy(g)'
  BY DEF HasCopy
<1>4. EntriesStand
  BY NotEarly DEF EntriesStand
<1>5. Advances
  BY <1>2, <1>3, <1>4 DEF Advances, EntriesStand
<1> QED BY <1>5 DEF Touches, remote

LEMMA StageMoves ==
    ASSUME IInv, F \in Files, Stage
    PROVE  Advances /\ Touches(F)
<1>1. remote' = remote /\ run.pc = "stage" /\ Phase(F) \in Local
  BY DEF Stage, Proceeds, At, IInv, PhaseAtStep, StagePCs
<1>2. ent[F].at > 0
  BY <1>1, HasBegun, NotEarly
<1> PICK a \in Attempts : a = ent[F].at /\ Row(F) = att[F][a] /\ att[F][a] \in AttemptRows
  BY <1>2, CurrentRow
<1>3. CASE Row(F).copy = "full" /\ SetPhase(F, "staged") /\ Go("src2") /\ UNCHANGED ent
  <2>1. /\ att'[F][a] = [att[F][a] EXCEPT !.ph = "staged"]
        /\ \A g \in Files, b \in Attempts : g # F \/ b # a => att'[g][b] = att[g][b]
    BY <1>2, <1>3, PhaseSet, NotEarly DEF Phases, Local
  <2>2. att'[F][a].ph = "staged" /\ att'[F][a].copy = att[F][a].copy
    BY <2>1 DEF AttemptRows
  <2>3. run'.point = run.point /\ run'.f = F
    BY <1>3, RunMoves, StoreTypes
  <2>4. \A b \in Attempts : att[F][b].copy = "full" => att'[F][b].copy = "full"
    BY <2>1, <2>2
  <2>5. att'[F][ent[F].at].ph # "download_retry_wait" /\ ent'[F] = ent[F]
    BY <1>3, <2>2
  <2>6. \A g \in Files : ent'[g] = ent[g]
    BY <1>3
  <2> QED BY <1>1, <2>1, <2>3, <2>4, <2>5, <2>6, StagedMoves
<1>4. ASSUME NEW used, Row(F).copy # "full",
             ent' = [ent EXCEPT ![F].dls = used + 1, ![F].timer = "none", ![F].st = "downloading"],
             att' = [att EXCEPT ![F][ent[F].at].ph = "downloading", ![F][ent[F].at].copy = "part"],
             Go("dl")
      PROVE  Advances /\ Touches(F)
  <2>1. /\ att'[F][a].ph = "downloading"
        /\ \A g \in Files, b \in Attempts : g # F \/ b # a => att'[g][b] = att[g][b]
    BY <1>4, StoreTypes DEF AttRows, AttemptRows
  <2>2. /\ ent'[F].at = ent[F].at /\ ent'[F].st \in Active
        /\ \A g \in Files : g # F => ent'[g] = ent[g]
    BY <1>4, StoreTypes DEF EntRows, EntryRows, Active
  <2>3. run'.point = run.point /\ run'.f = F
    BY <1>4, RunMoves, StoreTypes
  <2> QED BY <1>1, <1>4, <2>1, <2>2, <2>3, StagedMoves
<1>5. ASSUME NEW used, NEW dropped, Row(F).copy # "full",
             ent' = [ent EXCEPT ![F].dls = used],
             att' = [att EXCEPT ![F][ent[F].at].copy = dropped],
             \E e : run' = [run EXCEPT !.pc = "dlfail", !.err = e]
      PROVE  Advances /\ Touches(F)
  <2>1. /\ att'[F][a].ph = att[F][a].ph
        /\ \A g \in Files, b \in Attempts : g # F \/ b # a => att'[g][b] = att[g][b]
    BY <1>5, StoreTypes DEF AttRows, AttemptRows
  <2>2. /\ ent'[F].at = ent[F].at /\ ent'[F].st = ent[F].st
        /\ \A g \in Files : g # F => ent'[g] = ent[g]
    BY <1>5, StoreTypes DEF EntRows, EntryRows
  <2>3. run'.point = run.point /\ run'.f = F
    BY <1>5, StoreTypes DEF RunStates, F
  <2>4. att[F][a].ph \in Local /\ "download_retry_wait" \notin Local
    BY <1>1 DEF Phase, Local
  <2> QED BY <1>1, <1>5, <2>1, <2>2, <2>3, <2>4, StagedMoves
<1> QED BY <1>3, <1>4, <1>5 DEF Stage

LEMMA DownloadMoves ==
    ASSUME IInv, F \in Files, Download
    PROVE  Advances /\ Touches(F)
<1>1. remote' = remote /\ run.pc = "dl" /\ Phase(F) \in Local /\ Row(F).copy # "full" /\ ent' = ent
  BY DEF Download, At, IInv, PhaseAtStep, StagePCs
<1>2. ent[F].at > 0
  BY <1>1, HasBegun, NotEarly
<1> PICK a \in Attempts : a = ent[F].at /\ Row(F) = att[F][a] /\ att[F][a] \in AttemptRows
  BY <1>2, CurrentRow
<1>3. run'.point = run.point /\ run'.f = F
  BY RunMoves, StoreTypes DEF Download, RunStates, F
<1>4. /\ att'[F][a].ph = att[F][a].ph
      /\ \A g \in Files, b \in Attempts : g # F \/ b # a => att'[g][b] = att[g][b]
  BY StoreTypes DEF Download, AttRows, AttemptRows
<1>5. att[F][a].ph \in Local /\ "download_retry_wait" \notin Local
  BY <1>1 DEF Phase, Local
<1> QED BY <1>1, <1>3, <1>4, <1>5, StagedMoves

LEMMA MarkStagedMoves ==
    ASSUME IInv, F \in Files, MarkStaged
    PROVE  Advances /\ Touches(F)
<1>1. /\ remote' = remote /\ run.pc = "staged" /\ Phase(F) \in Local
      /\ SetPhase(F, "staged") /\ SetEntry(F, "staged")
  BY DEF MarkStaged, At, IInv, PhaseAtStep, StagePCs
<1>2. ent[F].at > 0
  BY <1>1, HasBegun, NotEarly
<1> PICK a \in Attempts : a = ent[F].at /\ Row(F) = att[F][a] /\ att[F][a] \in AttemptRows
  BY <1>2, CurrentRow
<1>3. /\ att'[F][a] = [att[F][a] EXCEPT !.ph = "staged"]
      /\ \A g \in Files, b \in Attempts : g # F \/ b # a => att'[g][b] = att[g][b]
  BY <1>1, <1>2, PhaseSet DEF Phases, Local
<1>4. att'[F][a].ph = "staged" /\ att'[F][a].copy = att[F][a].copy
  BY <1>3 DEF AttemptRows
<1>5. /\ ent'[F].at = ent[F].at /\ ent'[F].st \in Active
      /\ \A g \in Files : g # F => ent'[g] = ent[g]
  BY <1>1, StoreTypes DEF SetEntry, EntRows, EntryRows, Active
<1>6. run'.point = run.point /\ run'.f = F
  BY RunMoves, StoreTypes DEF MarkStaged
<1>7. \A b \in Attempts : att[F][b].copy = "full" => att'[F][b].copy = "full"
  BY <1>3, <1>4
<1>8. att'[F][ent[F].at].ph # "download_retry_wait"
  BY <1>4
<1> QED BY <1>1, <1>3, <1>5, <1>6, <1>7, <1>8, StagedMoves

LEMMA DownloadFailedMoves ==
    ASSUME IInv, F \in Files, DownloadFailed
    PROVE  Advances /\ Touches(F)
<1>1. remote' = remote /\ run.pc = "dlfail" /\ Phase(F) \in Local /\ Row(F).copy # "full"
  BY DEF DownloadFailed, At, IInv, PhaseAtStep, StagePCs
<1>2. ent[F].at > 0
  BY <1>1, HasBegun, NotEarly
<1> PICK a \in Attempts : a = ent[F].at /\ Row(F) = att[F][a] /\ att[F][a] \in AttemptRows
  BY <1>2, CurrentRow
<1>3. run' = Idle \/ Go("err")
  BY DEF DownloadFailed
<1>4. run'.point => run.point /\ run'.f = F
  BY <1>3, RunMoves, StoreTypes
<1>5. att[F][a].ph \in Local /\ "download_retry_wait" \notin Local
  BY <1>1 DEF Phase, Local
<1>6. CASE /\ ent' = [ent EXCEPT ![F].st = "downloading", ![F].timer = "future"]
           /\ att' = [att EXCEPT ![F][ent[F].at].ph = "download_retry_wait",
                                 ![F][ent[F].at].copy = "none",
                                 ![F][ent[F].at].err = "srcDl"]
  <2>1. \A g \in Files, b \in Attempts : g # F \/ b # a => att'[g][b] = att[g][b]
    BY <1>6, StoreTypes DEF AttRows, AttemptRows
  <2>2. /\ ent'[F].at = ent[F].at /\ ent'[F].st = "downloading"
        /\ \A g \in Files : g # F => ent'[g] = ent[g]
    BY <1>6, StoreTypes DEF EntRows, EntryRows
  <2> QED BY <1>1, <1>4, <2>1, <2>2, StagedMoves DEF Active
<1>7. CASE ent' = ent /\ (att' = att \/ att' = [att EXCEPT ![F][ent[F].at].copy = "none"])
  <2>1. /\ att'[F][a].ph = att[F][a].ph
        /\ \A g \in Files, b \in Attempts : g # F \/ b # a => att'[g][b] = att[g][b]
    BY <1>7, StoreTypes DEF AttRows, AttemptRows
  <2> QED BY <1>1, <1>4, <1>5, <1>7, <2>1, StagedMoves
<1>8. CASE att' = att /\ (ent' = ent \/ ent' = [ent EXCEPT ![F].dls = @ - 1])
  <2>1. /\ ent'[F].at = ent[F].at /\ ent'[F].st = ent[F].st
        /\ \A g \in Files : g # F => ent'[g] = ent[g]
    BY <1>8, StoreTypes DEF EntRows, EntryRows
  <2> QED BY <1>1, <1>4, <1>5, <1>8, <2>1, StagedMoves
<1> QED BY <1>6, <1>7, <1>8 DEF DownloadFailed

\* A step of the pipeline that only steers the attempt and perhaps names the entry.
LEMMA SteersOn ==
    ASSUME IInv, F \in Files, ent[F].at > 0, remote' = remote,
           NEW STATE p, p \in Phases \ EarlyPhases, Steers(F, p),
           ent' = ent \/ \E s \in EntryStates \ {"planned"} : SetEntry(F, s),
           \/ run' = Idle \/ Return \/ (\E q : Go(q)) \/ (\E e : Fail(e))
           \/ run'.point = run.point /\ run'.f = F
    PROVE  Advances /\ Touches(F)
<1>1. run'.point => run.point /\ run'.f = F
  BY RunMoves, StoreTypes
<1> QED BY <1>1, SteeredMoves

LEMMA GetUploadUrlMoves ==
    ASSUME IInv, F \in Files, GetUploadUrl
    PROVE  Advances /\ Touches(F)
<1>1. remote' = remote /\ ent' = ent /\ ent[F].at > 0
  BY AtAttempt DEF GetUploadUrl, Proceeds, At, StagePCs
<1>2. CASE att' = att
  <2>1. run'.point = run.point /\ run'.f = F
    <3>1. CASE \E op \in BOOLEAN : run' = [run EXCEPT !.pc = "intent", !.ow = PointOverwrite(F), !.op = op]
      BY <3>1, StoreTypes DEF RunStates, F
    <3>2. CASE \E e : Fail(e)
      BY <3>2, RunMoves, StoreTypes
    <3> QED BY <3>1, <3>2 DEF GetUploadUrl, UploadRefused
  <2> QED BY <1>1, <1>2, <2>1, StandingMoves DEF remote
<1>3. CASE \E e : UploadRefused(e)
  BY <1>1, <1>3, NotEarly, SteersOn DEF UploadRefused, Steers
<1> QED BY <1>2, <1>3 DEF GetUploadUrl

LEMMA PersistIntentMoves ==
    ASSUME IInv, F \in Files, PersistIntent
    PROVE  Advances /\ Touches(F)
<1>1. remote' = remote /\ ent' = ent /\ ent[F].at > 0 /\ (run' = Idle \/ Go("put"))
  BY AtAttempt DEF PersistIntent, At, StagePCs
<1>2. Steers(F, "transfer_intent")
  BY DEF PersistIntent, Steers
<1> QED BY <1>1, <1>2, NotEarly, SteersOn DEF UnknownPhases

LEMMA RequestOnDest ==
    ASSUME IInv, NEW f \in Files, F = f, run.pc \in {"put", "move"}, NEW to \in {"final", "temp", "move"},
           to = "move" <=> run.pc = "move",
           \/ Completed(ent[f].at, to) \/ Accepted(ent[f].at, to) \/ CutOff(ent[f].at, to)
    PROVE  /\ \A g \in Files : g # f => dest'[g] = dest[g]
           /\ dest[f] = "foreign" /\ dest'[f] # "foreign" =>
                \E b \in Attempts : b < ent[f].at /\ att[f][b].ph \in AbandonedPhases
<1>1. ent[f].at > 0
  BY AtAttempt
<1> PICK a \in Attempts : a = ent[f].at
  BY <1>1, CurrentRow
<1>2. run.ow \in BOOLEAN
  BY StoreTypes DEF RunStates
<1>3. /\ \A g \in Files : g # f => dest'[g] = dest[g]
      /\ dest'[f] \in {dest[f], "ours"} \/ to = "final"
  BY <1>2, RequestSent, RemoteTypes
<1>4. CASE dest'[f] = dest[f]
  BY <1>3, <1>4
<1>5. CASE dest'[f] # dest[f]
  <2>1. Applicable(f, a, to, run.ow) /\ to # "temp"
    <3>1. ~NoEffect
      BY <1>5 DEF NoEffect
    <3> QED BY <3>1, <1>5 DEF Completed, Accepted, CutOff, Apply
  <2>2. dest[f] = "none" \/ (to = "final" /\ run.ow)
    BY <2>1 DEF Applicable
  <2>3. run.pc = "put" /\ run.ow => \E b \in Attempts : b < a /\ att[f][b].ph \in AbandonedPhases
    BY DEF IInv, RequestAtStep
  <2> QED BY <1>3, <2>2, <2>3
<1> QED BY <1>4, <1>5

\* A request of the job never replaces a foreign file, unless the file has an
\* interrupted upload of its own.
HadUpload(f) == \E a \in Attempts : a < ent[f].at /\ att[f][a].ph \in AbandonedPhases
KeepsForeign == \A f \in Files : dest[f] = "foreign" /\ dest'[f] # "foreign" => HadUpload(f)

LEMMA PutMoves ==
    ASSUME IInv, F \in Files, Put
    PROVE  Advances /\ Touches(F) /\ KeepsForeign
<1>1. run.pc = "put" /\ ent' = ent /\ ent[F].at > 0
  BY AtAttempt DEF Put, At
<1>2. CASE \E e : UploadRefused(e) /\ UNCHANGED <<dest, temp, wire, source>>
  <2>1. Advances /\ Touches(F)
    BY <1>1, <1>2, NotEarly, SteersOn DEF UploadRefused, Steers, remote
  <2> QED BY <1>2, <2>1 DEF KeepsForeign
<1>3. CASE att' = att
  <2>1. run'.point = run.point /\ run'.f = F
    <3>1. CASE run' = [run EXCEPT !.pc = "sent", !.op = FALSE]
      BY <3>1, StoreTypes DEF RunStates, F
    <3>2. CASE (\E e : Fail(e)) \/ \E q : Go(q)
      BY <3>2, RunMoves, StoreTypes
    <3> QED BY <3>1, <3>2 DEF Put, UploadRefused
  <2>2. Advances
    BY <1>1, <1>3, RowsStandAdvance DEF EntriesStand
  <2>3. /\ \A g \in Files : g # F => dest'[g] = dest[g]
        /\ dest[F] = "foreign" /\ dest'[F] # "foreign" => HadUpload(F)
    <3>1. CASE dest' = dest
      BY <3>1
    <3>2. CASE LET to == IF Direct THEN "final" ELSE "temp"
               IN Completed(ent[F].at, to) \/ Accepted(ent[F].at, to) \/ CutOff(ent[F].at, to)
      <4> PICK f \in Files : F = f
        OBVIOUS
      <4> DEFINE to == IF Direct THEN "final" ELSE "temp"
      <4>1. to \in {"final", "temp", "move"} /\ to # "move"
        OBVIOUS
      <4>2. Completed(ent[f].at, to) \/ Accepted(ent[f].at, to) \/ CutOff(ent[f].at, to)
        BY <3>2
      <4> HIDE DEF to
      <4>3. /\ \A g \in Files : g # f => dest'[g] = dest[g]
            /\ dest[f] = "foreign" /\ dest'[f] # "foreign" =>
                 \E b \in Attempts : b < ent[f].at /\ att[f][b].ph \in AbandonedPhases
        BY <1>1, <4>1, <4>2, RequestOnDest
      <4> QED BY <4>3 DEF HadUpload
    <3> QED BY <3>1, <3>2 DEF Put
  <2> QED BY <1>1, <2>1, <2>2, <2>3 DEF Touches, KeepsForeign
<1> QED BY <1>2, <1>3 DEF Put

LEMMA MoveMoves ==
    ASSUME IInv, F \in Files, Move
    PROVE  Advances /\ Touches(F) /\ KeepsForeign
<1>1. run.pc = "move" /\ ent' = ent /\ att' = att /\ ent[F].at > 0
  BY AtAttempt DEF Move, Proceeds, At, store
<1>2. run'.point = run.point /\ run'.f = F
  <2>1. CASE \E op : run' = [run EXCEPT !.pc = "moved", !.op = op]
    BY <2>1, StoreTypes DEF RunStates, F
  <2>2. CASE \E e : Fail(e)
    BY <2>2, RunMoves, StoreTypes
  <2> QED BY <2>1, <2>2 DEF Move
<1>3. Advances
  BY <1>1, RowsStandAdvance DEF EntriesStand
<1>4. /\ \A g \in Files : g # F => dest'[g] = dest[g]
      /\ dest[F] = "foreign" /\ dest'[F] # "foreign" => HadUpload(F)
  <2>1. CASE dest' = dest
    BY <2>1
  <2>2. CASE \/ Completed(ent[F].at, "move") \/ Accepted(ent[F].at, "move")
             \/ CutOff(ent[F].at, "move")
    <3> PICK f \in Files : F = f
      OBVIOUS
    <3>1. /\ \A g \in Files : g # f => dest'[g] = dest[g]
          /\ dest[f] = "foreign" /\ dest'[f] # "foreign" =>
               \E b \in Attempts : b < ent[f].at /\ att[f][b].ph \in AbandonedPhases
      BY <1>1, <2>2, RequestOnDest
    <3> QED BY <3>1 DEF HadUpload
  <2> QED BY <2>1, <2>2 DEF Move
<1> QED BY <1>1, <1>2, <1>3, <1>4 DEF Touches, KeepsForeign

LEMMA RecordUploadMoves ==
    ASSUME IInv, F \in Files, RecordUpload
    PROVE  Advances /\ Touches(F)
<1> DEFINE p == IF run.op THEN "waiting_transfer" ELSE "verifying"
<1>1. remote' = remote /\ ent[F].at > 0 /\ Go(After(p))
  BY AtAttempt DEF RecordUpload, At
<1>2. p \in Phases \ EarlyPhases
  BY NotEarly DEF Waiting
<1>3. Steers(F, p) /\ \E s \in EntryStates \ {"planned"} : SetEntry(F, s)
  BY DEF RecordUpload, Steers, EntryStates, Active
<1> HIDE DEF p
<1> QED BY <1>1, <1>2, <1>3, SteersOn

LEMMA PolledMoves ==
    ASSUME IInv, F \in Files, Polled
    PROVE  Advances /\ Touches(F)
<1>1. remote' = remote /\ ent' = ent /\ ent[F].at > 0
  BY AtAttempt DEF Polled, At
<1>2. CASE att' = att
  <2>1. run'.point => run.point /\ run'.f = F
    <3>1. CASE run' = [run EXCEPT !.pc = "f1", !.err = "rejected", !.point = FALSE]
      BY <3>1, StoreTypes DEF RunStates
    <3>2. CASE (\E e : Fail(e)) \/ \E q : Go(q)
      BY <3>2, RunMoves, StoreTypes
    <3> QED BY <3>1, <3>2 DEF Polled
  <2> QED BY <1>1, <1>2, <2>1, StandingMoves DEF remote
<1>3. CASE wire[F][ent[F].at].st = "opdone"
  <2> DEFINE p == IF Phase(F) = "waiting_transfer" THEN "verifying" ELSE "verifying_final"
  <2>1. p \in Phases \ EarlyPhases
    BY NotEarly
  <2>2. Steers(F, p) /\ Go(After(p))
    BY <1>3 DEF Polled, Steers
  <2> HIDE DEF p
  <2> QED BY <1>1, <2>1, <2>2, SteersOn
<1> QED BY <1>2, <1>3 DEF Polled

LEMMA EnterFinalMoves ==
    ASSUME IInv, F \in Files, EnterFinal
    PROVE  Advances /\ Touches(F)
<1>1. /\ remote' = remote /\ ent' = ent /\ ent[F].at > 0 /\ Go("final")
      /\ Steers(F, "verifying_final")
  BY AtAttempt DEF EnterFinal, Proceeds, At, Steers
<1> QED BY <1>1, NotEarly, SteersOn

LEMMA VerifyMoves ==
    ASSUME IInv, F \in Files, NEW pc \in {"verify", "final"}, NEW content, NEW next,
           Verify(pc, content, next)
    PROVE  Advances /\ Touches(F)
<1>1. ent[F].at > 0
  BY AtAttempt DEF Verify, Proceeds, At
<1>2. CASE (SourceChanged \/ Unverifiable) /\ remote' = remote
  BY <1>1, <1>2, GivesUpMoves
<1>3. CASE UNCHANGED <<ent, att, remote>> /\ ((\E q : Go(q)) \/ \E e : Fail(e))
  BY <1>3, StillMoves
<1> QED BY <1>2, <1>3 DEF Verify, ReadFails, store

LEMMA PersistMoveMoves ==
    ASSUME IInv, F \in Files, PersistMove
    PROVE  Advances /\ Touches(F)
<1>1. ent[F].at > 0
  BY AtAttempt DEF PersistMove, Proceeds, At
<1>2. CASE /\ SetPhase(F, "move_intent") /\ SetEntry(F, "committing") /\ remote' = remote
           /\ run' = [run EXCEPT !.pc = "move", !.ow = FALSE]
  <2>1. run'.point = run.point /\ run'.f = F
    BY <1>2, StoreTypes DEF RunStates, F
  <2>2. Steers(F, "move_intent") /\ "committing" \in EntryStates \ {"planned"}
    BY <1>2 DEF Steers, EntryStates, Active
  <2> QED BY <1>1, <1>2, <2>1, <2>2, NotEarly, SteersOn DEF UnknownPhases
<1>3. CASE UNCHANGED <<ent, att, remote>> /\ \E e : Fail(e)
  BY <1>3, StillMoves
<1> QED BY <1>2, <1>3 DEF PersistMove, ReadFails, store

LEMMA RecordMoveMoves ==
    ASSUME IInv, F \in Files, RecordMove
    PROVE  Advances /\ Touches(F)
<1> DEFINE p == IF run.op THEN "waiting_move" ELSE "verifying_final"
<1>1. /\ remote' = remote /\ ent' = ent /\ ent[F].at > 0
      /\ run' = Idle \/ Return \/ Go("final")
  BY AtAttempt DEF RecordMove, At
<1>2. p \in Phases \ EarlyPhases
  BY NotEarly DEF Waiting
<1>3. Steers(F, p)
  BY DEF RecordMove, Steers
<1> HIDE DEF p
<1> QED BY <1>1, <1>2, <1>3, SteersOn

LEMMA SucceedMoves ==
    ASSUME IInv, F \in Files, Succeed
    PROVE  Advances /\ Touches(F)
<1>1. /\ remote' = remote /\ ent' = ent /\ ent[F].at > 0 /\ Go("doneW")
      /\ Steers(F, "succeeded")
  BY AtAttempt DEF Succeed, At, Steers
<1> QED BY <1>1, NotEarly, SteersOn

\* cleanup takes the copies of delivered files only.
LEMMA CleanedCopies ==
    ASSUME NEW rows \in AttRows, NEW entries, NEW f \in Files, NEW a \in Attempts
    PROVE  /\ Cleaned(rows, entries)[f][a].ph = rows[f][a].ph
           /\ \/ Cleaned(rows, entries)[f][a].copy = rows[f][a].copy
              \/ entries[f].st \in Success
<1>1. rows[f][a] \in AttemptRows
  BY DEF AttRows
<1> QED BY <1>1 DEF Cleaned, AttemptRows

LEMMA FinishEntryMoves ==
    ASSUME IInv, F \in Files, FinishEntry
    PROVE  Advances /\ Touches(F)
<1>1. /\ remote' = remote /\ Return /\ att' = Cleaned(att, ent')
      /\ ent' = [ent EXCEPT ![F].st = "done", ![F].timer = "none"]
  BY DEF FinishEntry
<1>2. EntriesStand /\ \A g \in Files : g # F => ent'[g] = ent[g]
  BY <1>1, StoreTypes DEF EntRows, EntryRows, EntriesStand
<1>3. \A g \in Files, b \in Attempts : /\ att'[g][b].ph = att[g][b].ph
                                       /\ att'[g][b].copy = att[g][b].copy \/ Relinquished(g)
  BY <1>1, CleanedCopies, StoreTypes DEF Relinquished
<1>4. run'.point => run.point /\ run'.f = F
  BY <1>1, RunMoves, StoreTypes
<1> QED BY <1>1, <1>2, <1>3, <1>4, CopiesAdvance DEF Touches, remote

LEMMA WithdrawnMoves ==
    ASSUME IInv, F \in Files, Withdrawn, remote' = remote
    PROVE  Advances /\ Touches(F)
  BY StillMoves DEF Withdrawn

LEMMA ConfirmPointCopyMoves ==
    ASSUME IInv, F \in Files, ConfirmPointCopy
    PROVE  Advances /\ Touches(F)
<1>1. remote' = remote /\ run.pc = "ptconfirm" /\ ent[F].at > 0
  BY AtAttempt DEF ConfirmPointCopy, Proceeds, At
<1> PICK a \in Attempts : a = ent[F].at /\ att[F][a] \in AttemptRows
  BY <1>1, CurrentRow
<1> DEFINE p == IF Direct THEN "succeeded" ELSE AbandonedAs(att[F][a].ph)
           rows == [att EXCEPT ![F][a].ph = p]
<1>2. CASE /\ SetEntry(F, "already_verified") /\ Go("ptdone")
           /\ att' = Cleaned(rows, ent')
  <2>1. p \in Phases \ EarlyPhases
    BY NotEarly DEF AbandonedAs, AbandonedPhases
  <2> HIDE DEF p
  <2>2. /\ rows \in AttRows /\ rows[F][a].ph = p
        /\ \A g \in Files, b \in Attempts :
             /\ g # F \/ b # a => rows[g][b] = att[g][b]
             /\ rows[g][b].copy = att[g][b].copy
    BY <2>1, StoreTypes DEF AttRows, AttemptRows
  <2> HIDE DEF rows
  <2>3. \A g \in Files, b \in Attempts :
           /\ att'[g][b].ph = rows[g][b].ph
           /\ att'[g][b].copy = att[g][b].copy \/ Relinquished(g)
    BY <1>2, <2>2, CleanedCopies DEF Relinquished
  <2>4. EntriesStand /\ \A g \in Files : g # F => ent'[g] = ent[g]
    BY <1>2, EntryStepped DEF EntryStates, Success
  <2>5. \A g \in Files : HasCopy(g) /\ ~HasCopy(g)' => Relinquished(g)
    BY <2>3 DEF HasCopy
  <2>6. "download_retry_wait" \in EarlyPhases
    BY DEF EarlyPhases
  <2>7. Advances
    BY <2>1, <2>2, <2>3, <2>4, <2>5, <2>6 DEF Advances, EntriesStand
  <2>8. run'.point = run.point /\ run'.f = F
    BY <1>2, RunMoves, StoreTypes
  <2> QED BY <1>1, <2>4, <2>7, <2>8 DEF Touches, remote
<1> QED BY <1>1, <1>2, WithdrawnMoves DEF ConfirmPointCopy

\* A new attempt of f begins from the old one, whose complete copy it takes over.
HandsOver(f, a, row, old) ==
    att' = [att EXCEPT ![f] = [b \in Attempts |->
        CASE b = a + 1 -> row [] b = a -> old [] OTHER -> @[b]]]

LEMMA HandedOver ==
    ASSUME IInv, NEW f \in Files, NEW a \in 0..MaxAttempts, a = ent[f].at, a < MaxAttempts,
           NEW STATE row, NEW STATE old, HandsOver(f, a, row, old)
    PROVE  /\ a + 1 \in Attempts /\ att'[f][a + 1] = row
           /\ a > 0 => a \in Attempts /\ att'[f][a] = old
           /\ \A b \in Attempts : b # a /\ b # a + 1 => att'[f][b] = att[f][b]
           /\ \A g \in Files : g # f => att'[g] = att[g]
<1>1. a + 1 \in Attempts /\ (a > 0 => a \in Attempts) /\ a + 1 # a
  BY TransferAssumption DEF Attempts
<1> DEFINE rows == [b \in Attempts |-> CASE b = a + 1 -> row [] b = a -> old [] OTHER -> att[f][b]]
<1>2. att' = [att EXCEPT ![f] = rows]
  BY DEF HandsOver
<1>3. att'[f] = rows /\ \A g \in Files : g # f => att'[g] = att[g]
  BY <1>2, StoreTypes DEF AttRows
<1>4. /\ rows[a + 1] = row /\ (a > 0 => rows[a] = old)
      /\ \A b \in Attempts : b # a /\ b # a + 1 => rows[b] = att[f][b]
  BY <1>1
<1> HIDE DEF rows
<1> QED BY <1>1, <1>3, <1>4

LEMMA NewPointAttemptMoves ==
    ASSUME IInv, F \in Files, NewPointAttempt
    PROVE  Advances /\ Touches(F)
<1> PICK a \in 0..MaxAttempts : a = ent[F].at
  BY RowFields DEF IInv
<1> DEFINE reuse == Row(F).copy = "full"
           row == [NoAttempt EXCEPT !.ph = IF reuse THEN "staged" ELSE "prepared",
                                    !.copy = IF reuse THEN "full" ELSE "none"]
           old == [Row(F) EXCEPT !.ph = IF @ = "failed" THEN @ ELSE AbandonedAs(@),
                                 !.err = "none", !.copy = IF reuse THEN "none" ELSE @]
<1>1. remote' = remote
  BY DEF NewPointAttempt
<1>2. CASE /\ a < MaxAttempts
           /\ att' = [att EXCEPT ![F] = [b \in Attempts |->
                 CASE b = a + 1 -> row [] b = a -> old [] OTHER -> @[b]]]
           /\ ent' = [ent EXCEPT ![F].at = a + 1, ![F].st = "transferring",
                                 ![F].dls = 0, ![F].timer = "none"]
           /\ Go("file")
  <2>1. /\ row.ph \in Local /\ (reuse => row.copy = "full")
        /\ Row(F) \in AttemptRows
    BY RowFields DEF IInv, NoAttempt, Local
  <2>2. /\ old.ph \in {"failed"} \cup AbandonedPhases
        /\ ~reuse => old.copy = Row(F).copy
    BY <2>1 DEF AttemptRows, AbandonedAs, AbandonedPhases
  <2>3. old.ph \notin EarlyPhases
    BY <2>2, NotEarly
  <2>14. HandsOver(F, a, row, old)
    BY <1>2 DEF HandsOver
  <2> HIDE DEF row, old, reuse
  <2>4. /\ a + 1 \in Attempts /\ att'[F][a + 1] = row
        /\ a > 0 => a \in Attempts /\ att'[F][a] = old
        /\ \A b \in Attempts : b # a /\ b # a + 1 => att'[F][b] = att[F][b]
        /\ \A g \in Files : g # F => att'[g] = att[g]
    BY <1>2, <2>14, HandedOver
  <2>5. /\ ent'[F].at = a + 1 /\ ent'[F].st = "transferring"
        /\ \A g \in Files : g # F => ent'[g] = ent[g]
    BY <1>2, StoreTypes DEF EntRows, EntryRows
  <2>6. FileInv(F) /\ (a > 0 => Row(F) = att[F][a])
    BY RowFields DEF IInv
  <2>7. att[F][a + 1].ph = "none" /\ att[F][a + 1].copy = "none"
    BY <2>4, <2>6 DEF FileInv, RowsInOrder
  <2>8. \A b \in Attempts : att[F][b].copy = "full" =>
            att'[F][b].copy = "full" \/ att'[F][a + 1].copy = "full"
    BY <2>1, <2>2, <2>4, <2>6, <2>7 DEF reuse, Attempts
  <2>9. \A g \in Files : HasCopy(g) => HasCopy(g)'
    BY <2>4, <2>8 DEF HasCopy
  <2>10. Local \subseteq EarlyPhases /\ "none" \in EarlyPhases /\ "download_retry_wait" \notin Local
         /\ "download_retry_wait" \in EarlyPhases
    BY DEF EarlyPhases, Local
  <2>11. \A b \in Attempts :
            /\ att[F][b].ph \notin EarlyPhases => att'[F][b].ph \notin EarlyPhases
            /\ att'[F][b].ph = "download_retry_wait" => att[F][b].ph = "download_retry_wait"
    BY <2>1, <2>3, <2>4, <2>7, <2>10 DEF Attempts
  <2>12. Advances
    BY <2>1, <2>4, <2>5, <2>9, <2>11 DEF Advances
  <2>13. run'.point = run.point /\ run'.f = F
    BY <1>2, RunMoves, StoreTypes
  <2> QED BY <1>1, <2>5, <2>12, <2>13 DEF Touches, remote
<1> QED BY <1>1, <1>2, WithdrawnMoves DEF NewPointAttempt

\* A step that ends with the entry of its file: its attempts stand.
LEMMA EntryEnds ==
    ASSUME IInv, F \in Files, UNCHANGED <<att, remote>>,
           \A g \in Files : g # F => ent'[g] = ent[g],
           ent'[F].at = ent[F].at, ent'[F].st \in {ent[F].st} \cup (EntryStates \ {"planned"}),
           run' = Idle \/ Go("f3")
    PROVE  Advances /\ Touches(F)
<1>1. run'.point => run.point /\ run'.f = F
  BY RunMoves, StoreTypes
<1>2. EntriesStand
  BY DEF EntriesStand
<1> QED BY <1>1, <1>2, RowsStandAdvance DEF Touches, remote

LEMMA FinishPointStepMoves ==
    ASSUME IInv, F \in Files, FinishPointStep
    PROVE  Advances /\ Touches(F)
<1>1. UNCHANGED <<att, remote>> /\ run' = Idle /\ (ent' = ent \/ ent' = Finished(F))
  BY DEF FinishPointStep
<1>2. /\ \A g \in Files : g # F => ent'[g] = ent[g]
      /\ ent'[F].at = ent[F].at /\ ent'[F].st = ent[F].st
  BY <1>1, StoreTypes DEF Finished, EntRows, EntryRows
<1> QED BY <1>1, <1>2, EntryEnds

LEMMA FailEntryMoves ==
    ASSUME IInv, F \in Files, FailEntry
    PROVE  Advances /\ Touches(F)
<1> DEFINE s == CASE run.err = "conflict" -> "conflict"
                  [] run.err = "unknown" -> "outcome_unknown"
                  [] OTHER -> "failed"
<1>1. /\ UNCHANGED <<att, remote>> /\ Go("f3")
      /\ ent' = [ent EXCEPT ![F].timer = "none", ![F].st = s]
  BY DEF FailEntry
<1>2. s \in EntryStates \ {"planned"}
  BY DEF EntryStates
<1> HIDE DEF s
<1>3. /\ \A g \in Files : g # F => ent'[g] = ent[g]
      /\ ent'[F].at = ent[F].at /\ ent'[F].st = s
  BY <1>1, StoreTypes DEF EntRows, EntryRows
<1> QED BY <1>1, <1>2, <1>3, EntryEnds

LEMMA FailJobMoves ==
    ASSUME IInv, F \in Files, FailJob
    PROVE  Advances /\ Touches(F)
<1>1. /\ UNCHANGED <<att, remote>> /\ run' = Idle
      /\ ent' \in {ent, Finished(F), [ent EXCEPT ![F].timer = "future"]}
  BY DEF FailJob
<1>2. /\ \A g \in Files : g # F => ent'[g] = ent[g]
      /\ ent'[F].at = ent[F].at /\ ent'[F].st = ent[F].st
  BY <1>1, StoreTypes DEF Finished, EntRows, EntryRows
<1> QED BY <1>1, <1>2, EntryEnds

LEMMA FailAttemptMoves ==
    ASSUME IInv, F \in Files, FailAttempt
    PROVE  Advances /\ Touches(F)
<1>1. remote' = remote /\ ent' = ent /\ Go("f2")
  BY DEF FailAttempt
<1>2. CASE ent[F].at = 0
  <2>1. att' = att
    BY <1>2 DEF FailAttempt
  <2> QED BY <1>1, <2>1, StillMoves
<1>3. CASE ent[F].at # 0
  <2>1. ent[F].at > 0 /\ Phase(F) = att[F][ent[F].at].ph
    BY <1>3, RowFields DEF IInv, Phase
  <2> DEFINE p == FailedPhase(run.err, Phase(F))
  <2>2. p \in Phases \ EarlyPhases
    BY NotEarly DEF FailedPhase, AbandonedAs, AbandonedPhases, UnknownPhases
  <2>3. Steers(F, p)
    BY <1>3, <2>1 DEF FailAttempt, Steers
  <2> HIDE DEF p
  <2> QED BY <1>1, <2>1, <2>2, <2>3, SteersOn
<1> QED BY <1>2, <1>3

\* Every step of the pipeline, the point retry and their failures.
LEMMA PipelineMoves ==
    ASSUME IInv, F \in Files, Prepare \/ Deliver \/ PointSteps \/ Failure
    PROVE  Advances /\ Touches(F) /\ KeepsForeign
<1>1. CASE Prepare
  <2>1. Advances /\ Touches(F)
    BY <1>1, InterruptMoves, OpenFileMoves, PrepareStillMoves, NewAttemptMoves,
       CheckDestinationMoves, CheckSourceMoves, StageMoves, DownloadMoves, MarkStagedMoves,
       DownloadFailedMoves DEF Prepare
  <2>2. dest' = dest
    BY <1>1 DEF Prepare, Interrupt, OpenFile, CheckNewSource, CheckNewDestination, NewAttempt,
       MarkTransferring, CheckDestination, CheckSourceAndParent, CheckSource, Stage, Download,
       MarkStaged, DownloadFailed, ReadFails, remote
  <2> QED BY <2>1, <2>2 DEF KeepsForeign
<1>2. CASE Deliver /\ ~Put /\ ~Move
  <2>1. Advances /\ Touches(F)
    BY <1>2, GetUploadUrlMoves, PersistIntentMoves, RecordUploadMoves, PointStillMoves,
       PolledMoves, EnterFinalMoves, VerifyMoves, PersistMoveMoves, RecordMoveMoves, SucceedMoves,
       FinishEntryMoves DEF Deliver
  <2>2. dest' = dest
    BY <1>2 DEF Deliver, GetUploadUrl, PersistIntent, RecordUpload, Poll, Polled, EnterFinal,
       Verify, PersistMove, RecordMove, Succeed, FinishEntry, ReadFails, remote
  <2> QED BY <2>1, <2>2 DEF KeepsForeign
<1>3. CASE PointSteps \/ Failure
  <2>1. Advances /\ Touches(F)
    BY <1>3, PointStillMoves, ConfirmPointCopyMoves, NewPointAttemptMoves, FinishPointStepMoves,
       FailAttemptMoves, FailEntryMoves, FailJobMoves DEF PointSteps, Failure
  <2>2. dest' = dest
    BY <1>3 DEF PointSteps, Failure, PointFile, ConfirmPointCopy, NewPointAttempt, FinishPointStep,
       HandleError, FailAttempt, FailEntry, FailJob, ReadFails, remote
  <2> QED BY <2>1, <2>2 DEF KeepsForeign
<1> QED BY <1>1, <1>2, <1>3, PutMoves, MoveMoves

LEMMA ScheduleMoves ==
    ASSUME IInv, Schedule
    PROVE  Advances /\ dest' = dest
<1>1. att' = att /\ dest' = dest
  BY DEF Schedule, ParkPaused, ParkAwaiting, RefuseNamespace, BeginClaim, EndClaim, CompleteJob,
     BeginPoint, BeginActive, BeginPlanned
<1>2. EntriesStand
  <2>1. CASE ent' = ent
    BY <2>1 DEF EntriesStand
  <2>2. CASE ParkPaused
    BY <2>2, StoreTypes DEF ParkPaused, EntRows, EntryRows, EntriesStand
  <2>3. ASSUME NEW f \in Files, BeginPoint(f)
        PROVE  EntriesStand
    <3>1. ent \in EntRows
      BY StoreTypes
    <3> DEFINE e == [ent EXCEPT ![f].st = "outcome_unknown"]
    <3>2. Noted(f) \in {ent, e}
      BY DEF Noted
    <3>3. ent' = ent \/ \E base \in {ent, e} :
             ent' \in {[base EXCEPT ![f].ptries = @ + 1, ![f].timer = "none"],
                       [Finished(f) EXCEPT ![f].st = base[f].st]}
      BY <2>3, <3>2 DEF BeginPoint
    <3> QED BY <3>1, <3>3 DEF EntRows, EntryRows, EntriesStand, Finished
  <2> QED BY <2>1, <2>2, <2>3 DEF Schedule, ParkAwaiting, RefuseNamespace, BeginClaim, EndClaim,
          CompleteJob, BeginActive, BeginPlanned
<1> QED BY <1>1, <1>2, RowsStandAdvance

LEMMA BulkAttemptMoves ==
    ASSUME IInv, NEW f \in Files, BulkAttempt(f)
    PROVE  /\ Advances /\ dest' = dest
           /\ \A g \in Files : /\ ent'[g].st = ent[g].st /\ ent'[g].point = ent[g].point
                               /\ g # f => ent'[g] = ent[g]
           /\ run'.pc = "bulkEnt" => ent'[f].at \in Attempts /\ att'[f][ent'[f].at].ph \in Local
           /\ run' = Idle \/ (run'.pc = "bulkEnt" /\ run'.f = f /\ ~run'.point)
<1>1. /\ run.pc = "bulk" /\ f \in run.todo /\ dest' = dest
  BY DEF BulkAttempt, Proceeds, At, remote
<1>2. /\ ent[f].st = "failed" /\ ent[f].at < MaxAttempts /\ ~run.point
  BY <1>1, StoreTypes, TransferAssumption DEF IInv, Holder, BulkInv, BulkPCs, JobPCs, RunStates, F
<1>3. CASE run' = Idle /\ UNCHANGED <<ent, att>>
  BY <1>1, <1>3, RowsStandAdvance DEF EntriesStand, Idle
<1> PICK a \in 0..MaxAttempts : a = ent[f].at /\ a < MaxAttempts
  BY <1>2, RowFields DEF IInv
<1> DEFINE full == Row(f).copy = "full"
           row == [NoAttempt EXCEPT !.ph = IF full THEN "staged" ELSE "prepared",
                                    !.copy = IF full THEN "full" ELSE "none"]
           old == [Row(f) EXCEPT !.err = "none", !.copy = IF full THEN "none" ELSE @]
<1>4. CASE /\ att' = [att EXCEPT ![f] = [b \in Attempts |->
                 CASE b = a + 1 -> row [] b = a -> old [] OTHER -> @[b]]]
           /\ ent' = [ent EXCEPT ![f].at = a + 1]
           /\ run' = [run EXCEPT !.pc = "bulkEnt", !.f = f]
  <2>1. /\ row.ph \in Local /\ (full => row.copy = "full")
        /\ Row(f) \in AttemptRows
    BY RowFields DEF IInv, NoAttempt, Local
  <2>2. old.ph = Row(f).ph /\ (~full => old.copy = Row(f).copy)
    BY <2>1 DEF AttemptRows
  <2>3. HandsOver(f, a, row, old)
    BY <1>4 DEF HandsOver
  <2> HIDE DEF row, old, full
  <2>4. /\ a + 1 \in Attempts /\ att'[f][a + 1] = row
        /\ a > 0 => a \in Attempts /\ att'[f][a] = old
        /\ \A b \in Attempts : b # a /\ b # a + 1 => att'[f][b] = att[f][b]
        /\ \A g \in Files : g # f => att'[g] = att[g]
    BY <2>3, HandedOver
  <2>5. /\ ent'[f].at = a + 1 /\ ent'[f].st = ent[f].st /\ ent'[f].point = ent[f].point
        /\ \A g \in Files : g # f => ent'[g] = ent[g]
    BY <1>4, StoreTypes DEF EntRows, EntryRows
  <2>6. FileInv(f) /\ (a > 0 => Row(f) = att[f][a])
    BY RowFields DEF IInv
  <2>7. att[f][a + 1].ph = "none" /\ att[f][a + 1].copy = "none"
    BY <2>4, <2>6 DEF FileInv, RowsInOrder
  <2>8. \A b \in Attempts : att[f][b].copy = "full" =>
            att'[f][b].copy = "full" \/ att'[f][a + 1].copy = "full"
    BY <2>1, <2>2, <2>4, <2>6, <2>7 DEF full, Attempts
  <2>9. \A g \in Files : HasCopy(g) => HasCopy(g)'
    BY <2>4, <2>8 DEF HasCopy
  <2>10. "none" \in EarlyPhases /\ "download_retry_wait" \notin Local
    BY DEF EarlyPhases, Local
  <2>11. \A b \in Attempts :
            /\ att[f][b].ph \notin EarlyPhases => att'[f][b].ph \notin EarlyPhases
            /\ att'[f][b].ph = "download_retry_wait" => att[f][b].ph = "download_retry_wait"
    BY <2>1, <2>2, <2>4, <2>6, <2>7, <2>10 DEF Attempts
  <2>12. Advances
    BY <1>2, <2>1, <2>4, <2>5, <2>9, <2>11 DEF Advances
  <2>13. run'.pc = "bulkEnt" /\ run'.f = f /\ ~run'.point
    BY <1>2, <1>4, StoreTypes DEF RunStates
  <2> QED BY <1>1, <2>1, <2>4, <2>5, <2>12, <2>13
<1> QED BY <1>3, <1>4 DEF BulkAttempt

LEMMA BulkEntryMoves ==
    ASSUME IInv, BulkEntry
    PROVE  /\ Advances /\ dest' = dest /\ att' = att /\ F \in Files /\ run.pc = "bulkEnt"
           /\ ~run'.point /\ ent'[F].at = ent[F].at
           /\ \A g \in Files : g # F => ent'[g] = ent[g]
<1>1. /\ run.pc = "bulkEnt" /\ UNCHANGED <<att, dest>>
      /\ ent' = [ent EXCEPT ![F].st = "planned", ![F].dls = 0, ![F].timer = "none"]
      /\ run' = [run EXCEPT !.pc = "bulk", !.f = NoFile, !.todo = @ \ {F}]
  BY DEF BulkEntry, At, remote
<1>2. F \in Files /\ ~run.point
  BY <1>1 DEF IInv, Holder, JobPCs
<1>3. ent'[F].at = ent[F].at /\ \A g \in Files : g # F => ent'[g] = ent[g]
  BY <1>1, StoreTypes DEF EntRows, EntryRows
<1>4. ~run'.point
  BY <1>1, <1>2, StoreTypes DEF RunStates
<1> QED BY <1>1, <1>2, <1>3, <1>4 DEF Advances, HasCopy

LEMMA CancelledStand ==
    ASSUME IInv, ent' = Cancelled
    PROVE  /\ EntriesStand
           /\ \A g \in Files : ent'[g] = ent[g] \/ (ent'[g].st = "cancelled" /\ ~ent'[g].point)
<1>1. \A g \in Files : \/ ent'[g] = ent[g]
                       \/ ent'[g] = [ent[g] EXCEPT !.st = "cancelled", !.point = FALSE, !.timer = "none"]
  BY DEF Cancelled
<1>2. ASSUME NEW g \in Files
      PROVE  /\ ent'[g] = ent[g] \/ (ent'[g].st = "cancelled" /\ ~ent'[g].point)
             /\ ent'[g].at = ent[g].at /\ (ent'[g].st = "planned" => ent[g].st = "planned")
  <2>1. ent[g] \in EntryRows
    BY StoreTypes DEF EntRows
  <2> QED BY <1>1, <2>1 DEF EntryRows
<1> QED BY <1>2 DEF EntriesStand

LEMMA StopMoves ==
    ASSUME IInv, StopJob \/ CancelLocal \/ BulkStart
    PROVE  Advances /\ dest' = dest
<1>1. UNCHANGED <<att, dest>> /\ ent' \in {ent, Cancelled}
  BY DEF StopJob, CancelLocal, BulkStart, remote
<1> QED BY <1>1, CancelledStand, RowsStandAdvance DEF EntriesStand

\* Requests of the user, which may take copies back and withdraw a scheduled retry.
LEMMA UserMoves ==
    ASSUME IInv, User
    PROVE  Advances /\ dest' = dest
<1>1. dest' = dest /\ Spend
  BY DEF User, PauseJob, FullStop, EnableRetry, DisableRetry, Credentials, Resume, BulkRetry,
     ClearCache, PointRetry, Request, remote
<1>2. budget'.user # budget.user
  <2>1. budget \in Budgets
    BY DEF IInv, TypeOK, Budgets
  <2> QED BY <1>1, <2>1 DEF Spend, Budgets
<1>3. \A g \in Files : ent[g] \in EntryRows
  BY StoreTypes DEF EntRows
<1>4. EntriesStand
  <2>1. CASE ent' = ent
    BY <2>1 DEF EntriesStand
  <2>2. CASE FullStop
    BY <1>3, <2>2 DEF FullStop, EntryRows, EntriesStand
  <2>3. CASE DisableRetry
    BY <1>3, <2>3 DEF DisableRetry, EntryRows, EntriesStand
  <2>4. CASE ClearCache
    <3>1. \A g \in Files : ent'[g] = ent[g] \/ ent'[g] = [ent[g] EXCEPT !.dls = 0]
      BY <2>4 DEF ClearCache
    <3> QED BY <1>3, <3>1 DEF EntryRows, EntriesStand
  <2>5. ASSUME NEW f \in Files, PointRetry(f)
        PROVE  EntriesStand
    BY <2>5, StoreTypes DEF PointRetry, EntRows, EntryRows, EntriesStand
  <2> QED BY <2>1, <2>2, <2>3, <2>4, <2>5 DEF User, PauseJob, EnableRetry, Credentials, Resume,
          BulkRetry, store
<1>5. \A g \in Files, b \in Attempts :
         \/ att'[g][b].ph = att[g][b].ph
         \/ att[g][b].ph \in EarlyPhases /\ att'[g][b].ph \in {"staged"}
         \/ att'[g][b].ph = "failed"
  <2>1. CASE att' = att
    BY <2>1
  <2>2. CASE DisableRetry
    <3>1. ASSUME NEW g \in Files, NEW b \in Attempts
          PROVE  att'[g][b].ph = att[g][b].ph \/ att'[g][b].ph = "failed"
      <4>1. att'[g][b] = att[g][b] \/ att'[g][b] = [att[g][b] EXCEPT !.ph = "failed"]
        BY <2>2 DEF DisableRetry
      <4>2. att[g][b] \in AttemptRows
        BY StoreTypes DEF AttRows
      <4> QED BY <4>1, <4>2 DEF AttemptRows
    <3> QED BY <3>1
  <2>3. CASE ClearCache
    BY <2>3, EmptiedRows DEF ClearCache, Withdrawable, EarlyPhases, Local
  <2> QED BY <2>1, <2>2, <2>3 DEF User, PauseJob, FullStop, EnableRetry, Credentials, Resume,
          BulkRetry, PointRetry, store
<1>6. "staged" # "download_retry_wait" /\ "failed" \notin EarlyPhases
      /\ "download_retry_wait" \in EarlyPhases
  BY DEF EarlyPhases, Local
<1> QED BY <1>1, <1>2, <1>4, <1>5, <1>6 DEF Advances, EntriesStand, Relinquished

LEMMA CrashMoves ==
    ASSUME IInv, CrashRestart
    PROVE  /\ Advances /\ dest' = dest /\ run' = Idle
           /\ ent' = IF job.st = "stopped" /\ job.stop THEN Cancelled ELSE ent
<1>1. /\ dest' = dest /\ run' = Idle /\ budget' = [budget EXCEPT !.crash = @ - 1]
      /\ ent' = IF job.st = "stopped" /\ job.stop THEN Cancelled ELSE ent
  BY DEF CrashRestart, remote
<1>2. budget'.crash # budget.crash
  <2>1. budget \in Budgets
    BY DEF IInv, TypeOK, Budgets
  <2> QED BY <1>1, <2>1 DEF Budgets
<1>3. EntriesStand
  BY <1>1, CancelledStand DEF EntriesStand
<1>4. PICK rows \in {att, Emptied("gone")} : att' = Cleaned(rows, ent')
  BY DEF CrashRestart
<1>5. /\ rows \in AttRows
      /\ \A g \in Files, b \in Attempts :
            \/ rows[g][b].ph = att[g][b].ph
            \/ att[g][b].ph \in EarlyPhases /\ rows[g][b].ph = "staged"
  BY <1>4, EmptiedRows, StoreTypes DEF Withdrawable, EarlyPhases, Local
<1>6. \A g \in Files, b \in Attempts : att'[g][b].ph = rows[g][b].ph
  BY <1>4, <1>5, CleanedRows
<1> QED BY <1>1, <1>2, <1>3, <1>5, <1>6 DEF Advances, EntriesStand, Relinquished

\* What others do: answers that come late, operations that end, edits.
LEMMA EnvironmentMoves ==
    ASSUME IInv, Environment
    PROVE  Advances /\ KeepsForeign /\ UNCHANGED <<job, ent, att, run>>
           /\ \E f \in Files : \A g \in Files : g # f => dest'[g] = dest[g]
<1>1. UNCHANGED <<job, ent, att, run>>
  BY DEF Environment, Land, EndOperation, ForeignWrite, SourceEdit
<1>2. Advances
  BY <1>1, RowsStandAdvance DEF EntriesStand
<1>3. ASSUME NEW f \in Files, NEW a \in Attempts, Land(f, a) \/ EndOperation(f, a)
      PROVE  KeepsForeign /\ \E h \in Files : \A g \in Files : g # h => dest'[g] = dest[g]
  <2>1. /\ wire[f][a].st \in Late
        /\ NoEffect \/ (Applicable(f, a, wire[f][a].to, wire[f][a].ow)
                        /\ Apply(f, a, wire[f][a].to, "ours"))
    BY <1>3 DEF Land, EndOperation, Late
  <2>2. /\ \A g \in Files : g # f => dest'[g] = dest[g]
        /\ dest'[f] \in {dest[f], "ours"}
    BY <2>1, EffectOnDest
  <2>3. ASSUME dest[f] = "foreign", dest'[f] # "foreign"
        PROVE  HadUpload(f)
    <3>1. Applicable(f, a, wire[f][a].to, wire[f][a].ow) /\ wire[f][a].to # "temp"
      BY <2>1, <2>3 DEF NoEffect, Apply
    <3>2. wire[f][a] \in WireRows
      BY RemoteTypes DEF TypeRemote
    <3>3. wire[f][a].to = "final" /\ wire[f][a].ow
      BY <2>3, <3>1, <3>2 DEF Applicable, WireRows
    <3>4. FileInv(f)
      BY DEF IInv
    <3>5. \E b \in Attempts : b < a /\ att[f][b].ph \in AbandonedPhases
      BY <2>1, <3>3, <3>4 DEF FileInv, RequestsKnown
    <3>6. a <= ent[f].at
      BY <2>1, <3>4, RowFields DEF IInv, FileInv, RowsInOrder, Late, Attempts
    <3>7. ent[f].at \in Int
      BY RowFields DEF IInv
    <3> QED BY <3>5, <3>6, <3>7 DEF HadUpload, Attempts
  <2> QED BY <2>2, <2>3 DEF KeepsForeign
<1>4. ASSUME NEW f \in Files, ForeignWrite(f) \/ SourceEdit(f)
      PROVE  KeepsForeign /\ \E h \in Files : \A g \in Files : g # h => dest'[g] = dest[g]
  <2>1. dest' = dest \/ (dest[f] = "none" /\ dest' = [dest EXCEPT ![f] = "foreign"])
    BY <1>4 DEF ForeignWrite, SourceEdit
  <2>2. dest \in [Files -> Contents]
    BY DEF IInv, TypeOK
  <2> QED BY <2>1, <2>2 DEF KeepsForeign
<1> QED BY <1>1, <1>2, <1>3, <1>4 DEF Environment

LEMMA ClockMoves ==
    ASSUME IInv, NEW f \in Files, CancelPoint(f) \/ TimerFires(f)
    PROVE  /\ Advances /\ UNCHANGED <<att, run, dest>>
           /\ \A g \in Files : ent'[g].st = ent[g].st /\ (g # f => ent'[g] = ent[g])
           /\ ent'[f].point = ent[f].point \/ ~ent'[f].point
<1>1. UNCHANGED <<att, run, dest>>
  BY DEF CancelPoint, TimerFires, remote
<1>2. ent' \in {ent, Finished(f), [ent EXCEPT ![f].timer = "due"]}
  BY DEF CancelPoint, TimerFires
<1>3. /\ \A g \in Files : /\ ent'[g].st = ent[g].st /\ ent'[g].at = ent[g].at
                          /\ g # f => ent'[g] = ent[g]
      /\ ent'[f].point = ent[f].point \/ ~ent'[f].point
  BY <1>2, StoreTypes DEF Finished, EntRows, EntryRows
<1> QED BY <1>1, <1>3, RowsStandAdvance DEF EntriesStand

\* The runner between two files.
LEMMA StepFileOrIdle ==
    ASSUME IInv, Prepare \/ Deliver \/ PointSteps \/ Failure
    PROVE  F \in Files \/ Interrupt
<1>1. run.pc \notin JobPCs \/ Interrupt
  BY DEF Prepare, Deliver, PointSteps, Failure, OpenFile, CheckNewSource,
     CheckNewDestination, NewAttempt, MarkTransferring, CheckDestination, CheckSourceAndParent,
     CheckSource, Stage, Download, MarkStaged, DownloadFailed, GetUploadUrl, PersistIntent, Put,
     RecordUpload, Poll, Polled, EnterFinal, Verify, PersistMove, Move, RecordMove, Succeed,
     FinishEntry, PointFile, ConfirmPointCopy, NewPointAttempt, FinishPointStep, HandleError,
     FailAttempt, FailEntry, FailJob, Proceeds, At, JobPCs
<1> QED BY <1>1 DEF IInv, Holder

LEMMA NextAdvances ==
    ASSUME IInv, [Next]_vars
    PROVE  Advances /\ KeepsForeign
<1>1. CASE Prepare \/ Deliver \/ PointSteps \/ Failure
  <2>1. CASE F \in Files
    BY <1>1, <2>1, PipelineMoves
  <2>2. CASE Interrupt
    BY <2>2, InterruptMoves DEF Interrupt, remote, KeepsForeign
  <2> QED BY <1>1, <2>1, <2>2, StepFileOrIdle
<1>2. CASE Schedule \/ Bulk \/ StopJob \/ CancelLocal
  BY <1>2, ScheduleMoves, BulkAttemptMoves, BulkEntryMoves, StopMoves DEF Bulk, KeepsForeign
<1>3. CASE User \/ CrashRestart
  BY <1>3, UserMoves, CrashMoves DEF KeepsForeign
<1>4. CASE Environment
  BY <1>4, EnvironmentMoves
<1>5. CASE \E f \in Files : CancelPoint(f) \/ TimerFires(f)
  BY <1>5, ClockMoves DEF KeepsForeign
<1>6. CASE UNCHANGED vars
  BY <1>6, RowsStandAdvance DEF vars, EntriesStand, KeepsForeign
<1> QED BY <1>1, <1>2, <1>3, <1>4, <1>5, <1>6 DEF Next, Runner, AwaitUser

----------------------------------------------------------------------------
(* The action properties the runs check. *)

\* No attempt whose request may have left is ever sent again, for any interleaving of
\* point retries, switches and crashes (runner._file, recover, cleanup_cache).
THEOREM AttemptsSentOnce == Spec => AttemptSendsOnce
<1>1. IInv /\ [Next]_vars =>
        [\A f \in Files, a \in Attempts :
            att[f][a].ph \notin Local \cup {"none", "download_retry_wait"} =>
              att'[f][a].ph \notin Local \cup {"none", "download_retry_wait"}]_vars
  BY NextAdvances DEF Advances, EarlyPhases
<1> QED BY <1>1, Invariant, PTL DEF Spec, AttemptSendsOnce

\* Only a file with an interrupted upload of its own can lose somebody else's copy
\* (runner._point_overwrite and what is still on the wire).
THEOREM ForeignAlwaysKept == Spec => ForeignKeptByOrdinary
<1>1. IInv /\ [Next]_vars =>
        [\A f \in Files : dest[f] = "foreign" /\ dest'[f] # "foreign" =>
            \E a \in Attempts : a < ent[f].at /\ att[f][a].ph \in AbandonedPhases]_vars
  BY NextAdvances DEF KeepsForeign, HadUpload
<1> QED BY <1>1, Invariant, PTL DEF Spec, ForeignKeptByOrdinary

\* A complete cached copy is handed from attempt to attempt until the destination is
\* verified (new_attempt, runner.retry, cleanup).
THEOREM CopiesAlwaysKept == Spec => CacheKept
<1>1. IInv /\ [Next]_vars =>
        [\A f \in Files : HasCopy(f) /\ ~HasCopy(f)' =>
            \/ ent'[f].st \in Success
            \/ budget'.user # budget.user \/ budget'.crash # budget.crash]_vars
  BY NextAdvances DEF Advances, Relinquished
<1> QED BY <1>1, Invariant, PTL DEF Spec, CacheKept

----------------------------------------------------------------------------
(* The refinement of FileDelivery needs one more invariant: a file that    *)
(* waits for its turn is not waiting for the retry of a download, so that  *)
(* switching automatic retries off withdraws at most the file under way.   *)

PlannedIsFresh ==
    /\ \A f \in Files : ent[f].st = "planned" => Phase(f) # "download_retry_wait"
    /\ run.pc = "bulkEnt" => Phase(F) # "download_retry_wait"

\* A bulk retry comes to its entry from its attempt only.
LEMMA BulkEntered ==
    ASSUME IInv, BulkInv', [Next]_vars, run'.pc = "bulkEnt"
    PROVE  run' = run \/ \E f \in Files : BulkAttempt(f)
<1>1. job'.st # "running"
  BY DEF BulkInv, BulkPCs
<1>2. CASE Prepare \/ Deliver \/ PointSteps \/ Failure
  <2>1. ~Interrupt /\ run' # Idle
    BY DEF Interrupt, Idle
  <2>2. job' = job
    BY <1>2, <2>1 DEF Prepare, Deliver, PointSteps, Failure, OpenFile, CheckNewSource,
       CheckNewDestination, NewAttempt, MarkTransferring, CheckDestination, CheckSourceAndParent,
       CheckSource, Stage, Download, MarkStaged, DownloadFailed, GetUploadUrl, PersistIntent, Put,
       RecordUpload, Poll, Polled, EnterFinal, Verify, PersistMove, Move, RecordMove, Succeed,
       FinishEntry, PointFile, ConfirmPointCopy, NewPointAttempt, FinishPointStep, HandleError,
       FailAttempt, FailEntry, FailJob, ReadFails, store
  <2>3. run.pc \notin {"idle", "cancel"} \cup BulkPCs
    BY <1>2, <2>1 DEF Prepare, Deliver, PointSteps, Failure, OpenFile, CheckNewSource,
       CheckNewDestination, NewAttempt, MarkTransferring, CheckDestination, CheckSourceAndParent,
       CheckSource, Stage, Download, MarkStaged, DownloadFailed, GetUploadUrl, PersistIntent, Put,
       RecordUpload, Poll, Polled, EnterFinal, Verify, PersistMove, Move, RecordMove, Succeed,
       FinishEntry, PointFile, ConfirmPointCopy, NewPointAttempt, FinishPointStep, HandleError,
       FailAttempt, FailEntry, FailJob, Proceeds, At, BulkPCs
  <2> QED BY <1>1, <2>2, <2>3 DEF IInv, JobInv
<1>3. CASE Schedule
  <2>1. CASE ParkPaused \/ ParkAwaiting \/ RefuseNamespace \/ CompleteJob
    BY <2>1 DEF ParkPaused, ParkAwaiting, RefuseNamespace, CompleteJob
  <2>2. CASE BeginClaim \/ EndClaim
    BY <2>2 DEF BeginClaim, EndClaim, Idle
  <2>3. ASSUME NEW f \in Files, BeginPoint(f)
        PROVE  run' = run \/ run'.pc = "pt"
    BY <2>3 DEF BeginPoint, Idle
  <2>4. ASSUME NEW f \in Files, BeginActive(f) \/ BeginPlanned(f)
        PROVE  run'.pc \in {"file", "f1"}
    BY <2>4 DEF BeginActive, BeginPlanned, Idle
  <2> QED BY <1>3, <2>1, <2>2, <2>3, <2>4 DEF Schedule
<1>4. CASE Bulk \/ StopJob \/ CancelLocal \/ CrashRestart
  <2>1. CASE BulkEntry
    BY <2>1, StoreTypes DEF BulkEntry, RunStates
  <2>2. CASE BulkStart \/ StopJob \/ CancelLocal \/ CrashRestart
    BY <2>2 DEF BulkStart, StopJob, CancelLocal, CrashRestart, Idle
  <2> QED BY <1>4, <2>1, <2>2 DEF Bulk
<1>5. CASE User
  <2>1. run' = run \/ run'.pc = "bulk"
    BY <1>5 DEF User, PauseJob, FullStop, EnableRetry, DisableRetry, Credentials, Resume,
       BulkRetry, ClearCache, PointRetry, Idle
  <2> QED BY <2>1
<1>6. CASE Environment \/ AwaitUser \/ UNCHANGED vars \/ \E f \in Files : CancelPoint(f) \/ TimerFires(f)
  BY <1>6, EnvironmentMoves, ClockMoves DEF AwaitUser, vars
<1> QED BY <1>2, <1>3, <1>4, <1>5, <1>6 DEF Next, Runner

LEMMA FreshPhase ==
    ASSUME IInv, IInv', Advances, NEW f \in Files, Phase(f) # "download_retry_wait",
           ent'[f].st # "downloading"
    PROVE  Phase(f)' # "download_retry_wait"
<1> PICK a \in 0..MaxAttempts : a = ent'[f].at
  BY DEF IInv, TypeOK, EntryRows
<1>1. CASE a = 0
  BY <1>1 DEF Phase, Row, NoAttempt
<1>2. CASE a # 0
  <2>1. a \in Attempts /\ Phase(f)' = att'[f][a].ph
    BY <1>2, TransferAssumption DEF Phase, Row, Attempts
  <2>2. CASE a = ent[f].at
    BY <1>2, <2>1, <2>2 DEF Advances, Phase, Row
  <2>3. CASE a # ent[f].at
    BY <2>1, <2>3 DEF Advances, Local
  <2> QED BY <2>2, <2>3
<1> QED BY <1>1, <1>2

LEMMA FreshKept ==
    ASSUME IInv, IInv', PlannedIsFresh, [Next]_vars
    PROVE  PlannedIsFresh'
<1>1. Advances
  BY NextAdvances
<1>2. ASSUME NEW f \in Files, ent'[f].st = "planned"
      PROVE  Phase(f)' # "download_retry_wait"
  <2>1. Phase(f) # "download_retry_wait"
    BY <1>1, <1>2 DEF Advances, PlannedIsFresh
  <2> QED BY <1>1, <1>2, <2>1, FreshPhase
<1>3. ASSUME run'.pc = "bulkEnt"
      PROVE  Phase(F)' # "download_retry_wait"
  <2>1. PICK f \in Files : F' = f
    BY <1>3 DEF IInv, Holder, JobPCs
  <2>2. ent'[f].st = "failed" /\ BulkInv'
    BY <1>3, <2>1, StoreTypes DEF IInv, BulkInv, BulkPCs, TypeOK, RunStates, F
  <2>3. Phase(f) # "download_retry_wait" \/ Phase(f)' \in Local
    <3>1. CASE run' = run
      BY <1>3, <2>1, <3>1 DEF PlannedIsFresh, F
    <3>2. ASSUME NEW g \in Files, BulkAttempt(g)
          PROVE  Phase(f)' \in Local
      <4>1. g = f /\ ent'[f].at \in Attempts /\ att'[f][ent'[f].at].ph \in Local
        BY <1>3, <2>1, <3>2, BulkAttemptMoves DEF Idle, F
      <4> QED BY <4>1, TransferAssumption DEF Phase, Row, Attempts
    <3> QED BY <1>3, <2>2, <3>1, <3>2, BulkEntered
  <2>4. Phase(f)' # "download_retry_wait"
    BY <1>1, <2>2, <2>3, FreshPhase DEF Local
  <2> QED BY <2>1, <2>4 DEF Phase, Row
<1> QED BY <1>2, <1>3 DEF PlannedIsFresh

DInv == IInv /\ PlannedIsFresh

LEMMA DeliveryInvariant == Spec => []DInv
<1>1. Init => DInv
  <2> SUFFICES ASSUME Init
               PROVE  DInv
    OBVIOUS
  <2>1. run.pc = "idle" /\ \A f \in Files : Phase(f) = "none"
    BY DEF Init, Idle, Phase, Row, NoAttempt
  <2> QED BY <2>1, InitIInv DEF DInv, PlannedIsFresh
<1>2. DInv /\ [Next]_vars => DInv'
  BY NextIInv, FreshKept DEF DInv
<1> QED BY <1>1, <1>2, PTL DEF Spec

----------------------------------------------------------------------------
(* The runner, the store and the requests implement FileDelivery.  A step  *)
(* of one file, whichever it is, is one of the abstract steps as soon as   *)
(* it leaves the other files alone and takes back no delivery.             *)

\* What a step does to the files, the verdict apart.
Step(f) == \/ Delivery!Take(f) \/ Delivery!Deliver(f) \/ Delivery!Settle(f) \/ Delivery!Requeue(f)
           \/ Delivery!Arrive(f) \/ Delivery!Vanish(f)
Moves == (\E f \in Files : Step(f)) \/ Delivery!Cancel \/ Delivery!Decide

OneAtWork == \A f, g \in AtWork : f = g

LEMMA AtWorkOne == IInv => OneAtWork
<1> SUFFICES ASSUME IInv
             PROVE  OneAtWork
  OBVIOUS
<1>1. run.point => run.pc \notin JobPCs
  BY DEF IInv, Holder
<1>2. run.point => Busy \subseteq {F}
  BY <1>1 DEF IInv, Holder
<1>3. \A f, g \in Busy : f = g
  BY DEF IInv, Holder
<1>4. AtWork = Busy \cup {f \in Files : run.point /\ f = F}
  BY DEF AtWork, Busy
<1> QED BY <1>2, <1>3, <1>4 DEF OneAtWork

LEMMA AtWorkOneNext == IInv' => OneAtWork'
  BY AtWorkOne, PTL

LEMMA ProgressIs ==
    ASSUME NEW f \in Files
    PROVE  /\ Progress(f) \in {"working", "delivered", "waiting", "settled"}
           /\ Progress(f) = "working" <=> f \in AtWork
           /\ Progress(f) = "delivered" => f \notin AtWork /\ ent[f].st \in Success
           /\ Progress(f) = "delivered" <=> f \notin AtWork /\ ent[f].st \in Success
  BY DEF Progress

LEMMA ProgressIsNext ==
    ASSUME NEW f \in Files
    PROVE  /\ Progress(f)' \in {"working", "delivered", "waiting", "settled"}
           /\ Progress(f)' = "working" <=> f \in AtWork'
           /\ Progress(f)' = "delivered" <=> f \notin AtWork' /\ ent'[f].st \in Success
  BY DEF Progress

LEMMA OneMoves ==
    ASSUME IInv', NEW f \in Files, dest' = dest,
           \A g \in Files : g # f => Progress(g)' = Progress(g),
           Progress(f) = "delivered" => Progress(f)' = "delivered"
    PROVE  Moves
<1> DEFINE p == [g \in Files |-> Progress(g)]
           q == [g \in Files |-> Progress(g)']
<1>1. {g \in Files : dest'[g] = "ours"} = {g \in Files : dest[g] = "ours"}
  OBVIOUS
<1>2. q = [p EXCEPT ![f] = Progress(f)']
  OBVIOUS
<1>3. Progress(f)' = "working" /\ Progress(f) # "working" => \A g \in Files : p[g] # "working"
  BY AtWorkOneNext, ProgressIsNext DEF OneAtWork
<1>4. Progress(f)' = "delivered" => dest[f] = "ours"
  <2>1. Progress(f)' = "delivered" => ent'[f].st \in Success
    BY ProgressIsNext
  <2> QED BY <2>1 DEF IInv, FileInv, EntryAgrees
<1>5. CASE Progress(f)' = Progress(f)
  <2>1. q = p
    BY <1>2, <1>5
  <2>2. Delivery!Decide
    BY <1>1, <2>1 DEF Delivery!Decide
  <2> QED BY <2>2 DEF Moves
<1>6. CASE Progress(f)' # Progress(f)
  <2>1. p[f] = Progress(f)
    OBVIOUS
  <2>2. CASE Progress(f)' = "working"
    <3>1. Progress(f) \in {"waiting", "settled"}
      BY <1>6, <2>2, ProgressIs
    <3>2. Delivery!In(p, "working") = {}
      BY <1>3, <1>6, <2>2 DEF Delivery!In
    <3>3. Delivery!Take(f)
      BY <1>1, <1>2, <2>2, <3>1, <3>2 DEF Delivery!Take, Delivery!Becomes
    <3> QED BY <3>3 DEF Moves, Step
  <2>3. CASE Progress(f)' = "delivered"
    <3>1. Delivery!Deliver(f)
      BY <1>1, <1>2, <1>4, <1>6, <2>3 DEF Delivery!Deliver, Delivery!Becomes
    <3> QED BY <3>1 DEF Moves, Step
  <2>4. CASE Progress(f)' = "settled"
    <3>1. Progress(f) \in {"waiting", "working"}
      BY <1>6, <2>4, ProgressIs
    <3>2. Delivery!Settle(f)
      BY <1>1, <1>2, <2>4, <3>1 DEF Delivery!Settle, Delivery!Becomes
    <3> QED BY <3>2 DEF Moves, Step
  <2>5. CASE Progress(f)' = "waiting"
    <3>1. Progress(f) \in {"settled", "working"}
      BY <1>6, <2>5, ProgressIs
    <3>2. Delivery!Requeue(f)
      BY <1>1, <1>2, <2>5, <3>1 DEF Delivery!Requeue, Delivery!Becomes
    <3> QED BY <3>2 DEF Moves, Step
  <2> QED BY <2>2, <2>3, <2>4, <2>5, ProgressIsNext
<1> QED BY <1>5, <1>6

\* Nothing changes but, perhaps, what the destination holds under one name.
LEMMA DestMoves ==
    ASSUME IInv', NEW f \in Files, \A g \in Files : Progress(g)' = Progress(g),
           \A g \in Files : g # f => dest'[g] = dest[g]
    PROVE  Moves
<1> DEFINE h == {g \in Files : dest[g] = "ours"}
           k == {g \in Files : dest'[g] = "ours"}
<1>1. [g \in Files |-> Progress(g)'] = [g \in Files |-> Progress(g)]
  OBVIOUS
<1>2. CASE dest'[f] = "ours"
  <2>1. k = h \cup {f}
    BY <1>2
  <2>2. Delivery!Arrive(f)
    BY <1>1, <2>1 DEF Delivery!Arrive
  <2> QED BY <2>2 DEF Moves, Step
<1>3. CASE dest'[f] # "ours"
  <2>1. k = h \ {f}
    BY <1>3
  <2>2. Progress(f) # "delivered"
    <3>1. Progress(f)' = "delivered" => ent'[f].st \in Success
      BY ProgressIsNext
    <3> QED BY <1>3, <3>1 DEF IInv, FileInv, EntryAgrees
  <2>3. Delivery!Vanish(f)
    BY <1>1, <2>1, <2>2 DEF Delivery!Vanish
  <2> QED BY <2>3 DEF Moves, Step
<1> QED BY <1>2, <1>3

\* No file changes its progress.
LEMMA StillDecides ==
    ASSUME dest' = dest, \A g \in Files : Progress(g)' = Progress(g)
    PROVE  Moves
<1>1. [g \in Files |-> Progress(g)'] = [g \in Files |-> Progress(g)]
  OBVIOUS
<1>2. Delivery!Decide
  BY <1>1 DEF Delivery!Decide
<1> QED BY <1>2 DEF Moves

\* What the job may say of itself follows from its files.
VerdictFits == Verdict \in Delivery!Verdicts([f \in Files |-> Progress(f)])

LEMMA VerdictAgrees == IInv => VerdictFits
<1> SUFFICES ASSUME IInv
             PROVE  VerdictFits
  OBVIOUS
<1> DEFINE p == [f \in Files |-> Progress(f)]
<1>1. run.pc = "idle" => ~run.point
  BY DEF IInv, Holder, JobPCs
<1>2. run.pc = "idle" /\ Busy = {} => \A f \in Files : Progress(f) # "working"
  BY <1>1, ProgressIs DEF AtWork, Busy
<1>3. CASE run.pc = "idle" /\ job.st = "completed"
  <2>1. Busy = {} /\ \A f \in Files : ent[f].st \in Success
    BY <1>3 DEF IInv, JobInv
  <2>2. \A f \in Files : Progress(f) = "delivered"
    BY <1>1, <1>3, <2>1, ProgressIs DEF AtWork, Busy
  <2>3. Delivery!In(p, "delivered") = Files
    BY <2>2 DEF Delivery!In
  <2>4. Verdict = "completed"
    BY <1>3 DEF Verdict, At
  <2> QED BY <2>3, <2>4 DEF VerdictFits, Delivery!Verdicts
<1>4. CASE run.pc = "idle" /\ job.st = "completed_with_issues"
  <2>1. Busy = {}
    BY <1>4 DEF IInv, JobInv
  <2>2. Delivery!In(p, "working") = {}
    BY <1>2, <1>4, <2>1 DEF Delivery!In
  <2>3. Verdict = "ended"
    BY <1>4 DEF Verdict, At
  <2> QED BY <2>2, <2>3 DEF VerdictFits, Delivery!Verdicts
<1>5. CASE run.pc = "idle" /\ job.st = "stopped"
  <2>1. \A f \in Files : ~ent[f].point /\ ent[f].st \notin Active \cup {"planned"}
    BY <1>5 DEF IInv, JobInv
  <2>2. Busy = {}
    BY <2>1 DEF Busy, ActiveFiles, Pointed
  <2>3. \A f \in Files : Progress(f) # "waiting"
    BY <2>1 DEF Progress
  <2>4. Delivery!In(p, "waiting") = {} /\ Delivery!In(p, "working") = {}
    BY <1>2, <1>5, <2>2, <2>3 DEF Delivery!In
  <2>5. Verdict = "stopped"
    BY <1>5 DEF Verdict, At
  <2> QED BY <2>4, <2>5 DEF VerdictFits, Delivery!Verdicts
<1>6. CASE ~(run.pc = "idle" /\ job.st \in {"completed", "completed_with_issues", "stopped"})
  <2>1. Verdict = "open"
    BY <1>6 DEF Verdict, At
  <2> QED BY <2>1 DEF VerdictFits, Delivery!Verdicts
<1> QED BY <1>3, <1>4, <1>5, <1>6

LEMMA VerdictAgreesNext == IInv' => VerdictFits'
  BY VerdictAgrees, PTL

\* The progress of a file follows from its entry and from who holds the guard.
LEMMA ProgressKept ==
    ASSUME NEW f \in Files, ent'[f].st = ent[f].st, ent'[f].point = ent[f].point,
           (run'.point /\ f = run'.f) <=> (run.point /\ f = run.f)
    PROVE  Progress(f)' = Progress(f)
<1>1. f \in AtWork' <=> f \in AtWork
  BY DEF AtWork, ActiveFiles, Pointed, F
<1> QED BY <1>1 DEF Progress

LEMMA PipelineImplements ==
    ASSUME IInv, IInv', F \in Files, Prepare \/ Deliver \/ PointSteps \/ Failure
    PROVE  Moves
<1>1. Touches(F)
  BY PipelineMoves
<1> PICK f \in Files : F = f
  OBVIOUS
<1>2. \A g \in Files : g # f => Progress(g)' = Progress(g)
  BY <1>1, ProgressKept DEF Touches, F
<1>3. CASE dest' = dest
  <2>1. run.pc \notin JobPCs
    BY TransferAssumption DEF IInv, Holder, F
  <2>2. Progress(f) # "delivered"
    BY <2>1, ProgressIs DEF IInv, Holder, AtWork
  <2> QED BY <1>2, <1>3, <2>2, OneMoves
<1>4. CASE /\ ent' = ent /\ run'.point = run.point /\ run'.f = f
           /\ \A g \in Files : g # f => dest'[g] = dest[g]
  <2>1. \A g \in Files : Progress(g)' = Progress(g)
    BY <1>4, ProgressKept DEF F
  <2> QED BY <1>4, <2>1, DestMoves
<1> QED BY <1>1, <1>3, <1>4 DEF Touches

\* Between two steps of the runner.
LEMMA IdleStill ==
    ASSUME IInv, run.pc \in JobPCs, ~run'.point, dest' = dest,
           \A g \in Files : ent'[g].point = ent[g].point
                            /\ (ent'[g].st = ent[g].st \/ ent[g].point)
    PROVE  Moves
<1>1. ~run.point
  BY DEF IInv, Holder
<1>2. ASSUME NEW g \in Files
      PROVE  Progress(g)' = Progress(g)
  <2>1. CASE ent'[g].st = ent[g].st
    BY <1>1, <2>1, ProgressKept
  <2>2. CASE ent[g].point
    BY <2>2 DEF Progress, AtWork, Pointed
  <2> QED BY <2>1, <2>2
<1> QED BY <1>2, StillDecides

LEMMA BeginPointImplements ==
    ASSUME IInv, IInv', NEW f \in Files, BeginPoint(f)
    PROVE  Moves
<1>1. /\ run.pc = "idle" /\ dest' = dest /\ ent[f].point
      /\ run' = run \/ run' = [Idle EXCEPT !.pc = "pt", !.f = f, !.point = TRUE]
  BY DEF BeginPoint, Runnable, At, Pointed
<1>2. ~run.point
  BY <1>1 DEF IInv, Holder, JobPCs
<1>3. run'.point => run'.f = f
  BY <1>1, <1>2 DEF Idle
<1>4. ASSUME NEW g \in Files, g # f
      PROVE  ent'[g] = ent[g]
  <2> DEFINE e == [ent EXCEPT ![f].st = "outcome_unknown"]
  <2>1. ent' = ent \/ \E base \in {ent, e} :
           ent' \in {[base EXCEPT ![f].ptries = @ + 1, ![f].timer = "none"],
                     [Finished(f) EXCEPT ![f].st = base[f].st]}
    <3>1. Noted(f) \in {ent, e}
      BY DEF Noted
    <3> QED BY <3>1 DEF BeginPoint
  <2> QED BY <1>4, <2>1, StoreTypes DEF EntRows, Finished
<1>5. \A g \in Files : g # f => Progress(g)' = Progress(g)
  BY <1>2, <1>3, <1>4, ProgressKept
<1>6. Progress(f) # "delivered"
  BY <1>1, ProgressIs DEF AtWork, Pointed
<1> QED BY <1>1, <1>5, <1>6, OneMoves

LEMMA ScheduleImplements ==
    ASSUME IInv, IInv', Schedule
    PROVE  Moves
<1>1. CASE ParkPaused
  <2>1. run.pc = "idle" /\ run' = run /\ dest' = dest
    BY <1>1 DEF ParkPaused, Runnable, At
  <2>2. \A g \in Files : ent[g] \in EntryRows
    BY StoreTypes DEF EntRows
  <2>3. \A g \in Files : ent'[g] = ent[g] \/ (ent[g].point /\ ent'[g] = [ent[g] EXCEPT !.st = "outcome_unknown"])
    BY <1>1 DEF ParkPaused
  <2>4. ASSUME NEW g \in Files
        PROVE  ent'[g].point = ent[g].point /\ (ent'[g].st = ent[g].st \/ ent[g].point)
    <3>1. ent[g] \in EntryRows
      BY <2>2
    <3> QED BY <2>3, <3>1 DEF EntryRows
  <2>5. ~run'.point
    BY <2>1 DEF IInv, Holder, JobPCs
  <2> QED BY <2>1, <2>4, <2>5, IdleStill DEF JobPCs
<1>2. CASE ParkAwaiting \/ RefuseNamespace \/ CompleteJob \/ BeginClaim \/ EndClaim
  <2>1. run.pc \in {"idle", "claim"} /\ ent' = ent /\ dest' = dest
    BY <1>2 DEF ParkAwaiting, RefuseNamespace, CompleteJob, BeginClaim, EndClaim, Runnable, At
  <2>2. run' = run \/ ~run'.point
    BY <1>2 DEF ParkAwaiting, RefuseNamespace, CompleteJob, BeginClaim, EndClaim, Idle
  <2>3. ~run'.point
    BY <2>1, <2>2 DEF IInv, Holder, JobPCs
  <2> QED BY <2>1, <2>3, IdleStill DEF JobPCs
<1>3. ASSUME NEW f \in Files, BeginActive(f) \/ BeginPlanned(f)
      PROVE  Moves
  <2>1. run.pc = "idle" /\ ent' = ent /\ dest' = dest /\ ~run'.point
    BY <1>3 DEF BeginActive, BeginPlanned, Runnable, At, Idle
  <2> QED BY <2>1, IdleStill DEF JobPCs
<1> QED BY <1>1, <1>2, <1>3, BeginPointImplements DEF Schedule

LEMMA CancelImplements ==
    ASSUME IInv, ent' = Cancelled, dest' = dest, ~run.point, ~run'.point,
           \A f \in Files : ~ent[f].point
    PROVE  Moves
<1>1. ASSUME NEW f \in Files
      PROVE  Progress(f)' = IF Progress(f) = "delivered" THEN "delivered" ELSE "settled"
  <2>1. ent[f] \in EntryRows
    BY StoreTypes DEF EntRows
  <2>2. CASE ent[f].st \in Active \cup {"planned", "outcome_unknown"}
    <3>1. ent'[f] = [ent[f] EXCEPT !.st = "cancelled", !.point = FALSE, !.timer = "none"]
      BY <2>2 DEF Cancelled
    <3>2. ent'[f].st = "cancelled" /\ ~ent'[f].point
      BY <2>1, <3>1 DEF EntryRows
    <3>3. Progress(f)' = "settled"
      BY <3>2 DEF Progress, AtWork, ActiveFiles, Pointed, Active, Success
    <3>4. Progress(f) # "delivered"
      BY <2>2 DEF Progress, Active, Success
    <3> QED BY <3>3, <3>4
  <2>3. CASE ent[f].st \notin Active \cup {"planned", "outcome_unknown"}
    <3>1. ent'[f] = ent[f]
      BY <2>3 DEF Cancelled
    <3>2. Progress(f)' = Progress(f)
      BY <3>1, ProgressKept
    <3>3. f \notin AtWork
      BY <2>3 DEF AtWork, ActiveFiles, Pointed
    <3>4. Progress(f) \in {"delivered", "settled"}
      BY <2>3, <3>3 DEF Progress
    <3> QED BY <3>2, <3>4
  <2> QED BY <2>2, <2>3
<1>2. [f \in Files |-> Progress(f)'] =
        [f \in Files |-> IF Progress(f) = "delivered" THEN "delivered" ELSE "settled"]
  BY <1>1
<1>3. Delivery!Cancel
  BY <1>2 DEF Delivery!Cancel
<1> QED BY <1>3 DEF Moves

LEMMA GuardImplements ==
    ASSUME IInv, IInv', Bulk \/ StopJob \/ CancelLocal
    PROVE  Moves
<1>1. ASSUME NEW f \in Files, BulkAttempt(f)
      PROVE  Moves
  <2>1. run.pc = "bulk"
    BY <1>1 DEF BulkAttempt, Proceeds, At
  <2>2. ~run.point
    BY <2>1 DEF IInv, Holder, JobPCs
  <2>3. ~run'.point
    <3>1. run' = Idle \/ run' = [run EXCEPT !.pc = "bulkEnt", !.f = f]
      BY <1>1 DEF BulkAttempt
    <3>2. run \in RunStates
      BY StoreTypes
    <3>3. run' = Idle => ~run'.point
      BY DEF Idle
    <3>4. run' = [run EXCEPT !.pc = "bulkEnt", !.f = f] => run'.point = run.point
      BY <3>2 DEF RunStates
    <3> QED BY <2>2, <3>1, <3>3, <3>4
  <2>4. dest' = dest
    BY <1>1 DEF BulkAttempt, remote
  <2>5. \A g \in Files : ent'[g].st = ent[g].st /\ ent'[g].point = ent[g].point
    BY <1>1, BulkAttemptMoves
  <2> QED BY <2>1, <2>3, <2>4, <2>5, IdleStill DEF JobPCs
<1>2. CASE BulkEntry
  <2>1. /\ dest' = dest /\ F \in Files /\ run.pc = "bulkEnt" /\ ~run'.point
        /\ \A g \in Files : g # F => ent'[g] = ent[g]
    BY <1>2, BulkEntryMoves
  <2> PICK f \in Files : F = f
    BY <2>1
  <2>2. ~run.point /\ ent[f].st = "failed"
    BY <2>1 DEF IInv, Holder, BulkInv, BulkPCs
  <2>3. \A g \in Files : g # f => Progress(g)' = Progress(g)
    BY <2>1, <2>2, ProgressKept
  <2>4. Progress(f) # "delivered"
    BY <2>2, ProgressIs DEF Success
  <2> QED BY <2>1, <2>3, <2>4, OneMoves
<1>3. CASE BulkStart \/ StopJob
  <2>1. /\ run.pc \in {"bulk", "idle"} /\ ent' = ent /\ dest' = dest /\ ~run'.point
    BY <1>3 DEF BulkStart, StopJob, Proceeds, At, remote, Idle
  <2> QED BY <2>1, IdleStill DEF JobPCs
<1>4. CASE CancelLocal
  <2>1. run.pc = "cancel" /\ ent' = Cancelled /\ dest' = dest /\ ~run'.point
    BY <1>4 DEF CancelLocal, At, remote, Idle
  <2>2. ~run.point /\ \A f \in Files : ~ent[f].point
    BY <2>1 DEF IInv, Holder, JobPCs, JobInv
  <2> QED BY <2>1, <2>2, CancelImplements
<1> QED BY <1>1, <1>2, <1>3, <1>4 DEF Bulk

LEMMA FullStopImplements ==
    ASSUME IInv, IInv', FullStop
    PROVE  Moves
<1>1. /\ run' = run /\ dest' = dest
      /\ ent' = [f \in Files |-> [ent[f] EXCEPT !.point = FALSE, !.timer = "none"]]
  BY DEF FullStop, remote
<1>2. \A g \in Files : ent'[g].st = ent[g].st /\ ~ent'[g].point
  <2>1. \A g \in Files : ent[g] \in EntryRows
    BY StoreTypes DEF EntRows
  <2> QED BY <1>1, <2>1 DEF EntryRows
<1>3. ASSUME NEW g \in Files, ~ent[g].point
      PROVE  Progress(g)' = Progress(g)
  <2>1. ent[g].point \in BOOLEAN
    BY StoreTypes DEF EntRows, EntryRows
  <2>2. ent'[g].point \in BOOLEAN
    BY DEF IInv, TypeOK, EntryRows
  <2>3. ent'[g].point = ent[g].point
    BY <1>2, <1>3, <2>1, <2>2
  <2> QED BY <1>1, <1>2, <2>3, ProgressKept
<1>4. CASE Pointed = {}
  BY <1>1, <1>3, <1>4, StillDecides DEF Pointed
<1>5. ASSUME NEW f \in Pointed
      PROVE  Moves
  <2>1. \A g \in Files : g # f => ~ent[g].point
    BY DEF IInv, Holder, Busy, Pointed
  <2>2. f \in Files /\ Progress(f) # "delivered"
    BY ProgressIs DEF Pointed, AtWork
  <2>3. \A g \in Files : g # f => Progress(g)' = Progress(g)
    BY <1>3, <2>1
  <2> QED BY <1>1, <2>2, <2>3, OneMoves
<1> QED BY <1>4, <1>5

\* Switching automatic retries off withdraws the file that is under way, or none.
LEMMA DisableRetryImplements ==
    ASSUME DInv, IInv', DisableRetry
    PROVE  Moves
<1>1. /\ run' = run /\ dest' = dest
      /\ ent' = [f \in Files |-> [ent[f] EXCEPT !.timer = "none",
                                                !.st = IF Withdraws(f) THEN "failed" ELSE @]]
  BY DEF DisableRetry, remote
<1>2. \A g \in Files : ent[g] \in EntryRows
  BY StoreTypes DEF DInv, EntRows
<1>3. ASSUME NEW g \in Files
      PROVE  /\ ent'[g].point = ent[g].point
             /\ ent'[g].st = IF Withdraws(g) THEN "failed" ELSE ent[g].st
  BY <1>1, <1>2 DEF EntryRows
<1>4. ASSUME NEW g \in Files, Withdraws(g)
      PROVE  ent[g].st # "planned" /\ ent[g].st \notin Success
  <2>1. Phase(g) = "download_retry_wait" /\ FileInv(g)
    BY <1>4 DEF Withdraws, DInv, IInv
  <2> QED BY <2>1 DEF DInv, PlannedIsFresh, FileInv, EntryAgrees, Resting, AbandonedPhases
<1>5. ASSUME NEW g \in Files, g \notin ActiveFiles
      PROVE  Progress(g)' = Progress(g)
  <2>1. CASE ~Withdraws(g)
    BY <1>1, <1>3, <2>1, ProgressKept
  <2>2. CASE Withdraws(g)
    <3>1. g \in AtWork' <=> g \in AtWork
      <4>1. ent'[g].st = "failed"
        BY <1>3, <2>2
      <4>2. g \notin ActiveFiles'
        BY <4>1 DEF ActiveFiles, Active
      <4>3. g \in Pointed' <=> g \in Pointed
        BY <1>3 DEF Pointed
      <4>4. g \in {x \in Files : run.point /\ x = F}' <=> g \in {x \in Files : run.point /\ x = F}
        BY <1>1 DEF F
      <4> QED BY <1>5, <4>2, <4>3, <4>4 DEF AtWork
    <3> QED BY <1>3, <1>4, <2>2, <3>1 DEF Progress, Success
  <2> QED BY <2>1, <2>2
<1>6. CASE ActiveFiles = {}
  BY <1>1, <1>5, <1>6, StillDecides
<1>7. ASSUME NEW f \in ActiveFiles
      PROVE  Moves
  <2>1. \A g \in Files : g # f => g \notin ActiveFiles
    BY DEF DInv, IInv, Holder, Busy
  <2>2. f \in Files /\ Progress(f) # "delivered"
    BY ProgressIs DEF ActiveFiles, AtWork
  <2>3. \A g \in Files : g # f => Progress(g)' = Progress(g)
    BY <1>5, <2>1
  <2> QED BY <1>1, <2>2, <2>3, OneMoves
<1> QED BY <1>6, <1>7

LEMMA UserImplements ==
    ASSUME DInv, IInv', User
    PROVE  Moves
<1>1. CASE PauseJob \/ EnableRetry \/ Credentials \/ Resume \/ ClearCache
  <2>1. dest' = dest /\ run' = run
    BY <1>1 DEF PauseJob, EnableRetry, Credentials, Resume, ClearCache, remote
  <2>2. ASSUME NEW g \in Files
        PROVE  ent'[g].st = ent[g].st /\ ent'[g].point = ent[g].point
    <3>1. ent'[g] = ent[g] \/ ent'[g] = [ent[g] EXCEPT !.dls = 0]
      BY <1>1 DEF PauseJob, EnableRetry, Credentials, Resume, ClearCache, store
    <3>2. ent[g] \in EntryRows
      BY StoreTypes DEF DInv, EntRows
    <3> QED BY <3>1, <3>2 DEF EntryRows
  <2> QED BY <2>1, <2>2, ProgressKept, StillDecides
<1>2. CASE BulkRetry
  <2>1. run.pc = "idle" /\ ent' = ent /\ dest' = dest /\ ~run'.point
    BY <1>2 DEF BulkRetry, Request, At, store, remote, Idle
  <2> QED BY <2>1, IdleStill DEF DInv, JobPCs
<1>3. ASSUME NEW f \in Files, PointRetry(f)
      PROVE  Moves
  <2>1. /\ run.pc = "idle" /\ run' = run /\ dest' = dest /\ ent[f].st \in {"failed", "outcome_unknown"}
        /\ ent' = [ent EXCEPT ![f].point = TRUE, ![f].ptries = 0, ![f].timer = "none"]
    BY <1>3 DEF PointRetry, Request, At, remote
  <2>2. \A g \in Files : g # f => ent'[g] = ent[g]
    BY <2>1, StoreTypes DEF DInv, EntRows
  <2>3. \A g \in Files : g # f => Progress(g)' = Progress(g)
    BY <2>1, <2>2, ProgressKept
  <2>4. Progress(f) # "delivered"
    BY <2>1, ProgressIs DEF Success
  <2> QED BY <2>1, <2>3, <2>4, OneMoves
<1> QED BY <1>1, <1>2, <1>3, FullStopImplements, DisableRetryImplements DEF User, DInv

LEMMA CrashImplements ==
    ASSUME IInv, IInv', CrashRestart
    PROVE  Moves
<1>1. /\ dest' = dest /\ ~run'.point
      /\ ent' = IF job.st = "stopped" /\ job.stop THEN Cancelled ELSE ent
  BY CrashMoves DEF Idle
<1>2. CASE job.st = "stopped" /\ job.stop
  <2>1. run.pc \in {"idle", "cancel"} /\ \A f \in Files : ~ent[f].point
    BY <1>2 DEF IInv, JobInv
  <2>2. ~run.point
    BY <2>1 DEF IInv, Holder, JobPCs
  <2> QED BY <1>1, <1>2, <2>1, <2>2, CancelImplements
<1>3. CASE ent' = ent /\ ~run.point
  BY <1>1, <1>3, ProgressKept, StillDecides
<1>4. CASE ent' = ent /\ run.point
  <2>1. run.pc \notin JobPCs
    BY <1>4 DEF IInv, Holder
  <2> PICK f \in Files : F = f
    BY <2>1 DEF IInv, Holder
  <2>2. \A g \in Files : g # f => Progress(g)' = Progress(g)
    BY <1>1, <1>4, ProgressKept DEF F
  <2>3. Progress(f) # "delivered"
    BY <1>4, ProgressIs DEF AtWork
  <2> QED BY <1>1, <2>2, <2>3, OneMoves
<1> QED BY <1>1, <1>2, <1>3, <1>4

LEMMA OthersImplement ==
    ASSUME IInv, IInv',
           \/ Environment \/ AwaitUser \/ UNCHANGED vars
           \/ \E f \in Files : CancelPoint(f) \/ TimerFires(f)
    PROVE  Moves
<1>1. CASE Environment
  <2>1. PICK f \in Files : \A g \in Files : g # f => dest'[g] = dest[g]
    BY <1>1, EnvironmentMoves
  <2>2. \A g \in Files : Progress(g)' = Progress(g)
    BY <1>1, EnvironmentMoves, ProgressKept
  <2> QED BY <2>1, <2>2, DestMoves
<1>2. CASE AwaitUser \/ UNCHANGED vars
  <2>1. UNCHANGED <<ent, run, dest>>
    BY <1>2 DEF AwaitUser, vars
  <2> QED BY <2>1, ProgressKept, StillDecides
<1>3. ASSUME NEW f \in Files, CancelPoint(f) \/ TimerFires(f)
      PROVE  Moves
  <2>1. /\ UNCHANGED <<run, dest>>
        /\ \A g \in Files : ent'[g].st = ent[g].st /\ (g # f => ent'[g] = ent[g])
        /\ ent'[f].point = ent[f].point \/ ~ent'[f].point
    BY <1>3, ClockMoves
  <2>2. \A g \in Files : g # f => Progress(g)' = Progress(g)
    BY <2>1, ProgressKept
  <2>3. Progress(f) = "delivered" => Progress(f)' = "delivered"
    BY <2>1, ProgressIs, ProgressIsNext DEF AtWork, ActiveFiles, Pointed, F
  <2> QED BY <2>1, <2>2, <2>3, OneMoves
<1> QED BY <1>1, <1>2, <1>3

\* A confirmed stop stands.
LEMMA StoppedStands ==
    ASSUME IInv, [Next]_vars, run.pc = "idle", job.st = "stopped"
    PROVE  run'.pc = "idle" /\ job'.st = "stopped"
<1>1. ASSUME NEW f \in Files
      PROVE  ~ent[f].point /\ ent[f].st \notin Active \cup {"planned"}
  BY DEF IInv, JobInv
<1>2. CASE Prepare \/ Deliver \/ PointSteps \/ Failure \/ Bulk \/ CancelLocal \/ EndClaim
  <2>1. ~Interrupt
    BY DEF Interrupt, Guarded
  <2> QED BY <1>2, <2>1 DEF Prepare, Deliver, PointSteps, Failure, OpenFile, CheckNewSource,
       CheckNewDestination, NewAttempt, MarkTransferring, CheckDestination, CheckSourceAndParent,
       CheckSource, Stage, Download, MarkStaged, DownloadFailed, GetUploadUrl, PersistIntent, Put,
       RecordUpload, Poll, Polled, EnterFinal, Verify, PersistMove, Move, RecordMove, Succeed,
       FinishEntry, PointFile, ConfirmPointCopy, NewPointAttempt, FinishPointStep, HandleError,
       FailAttempt, FailEntry, FailJob, Proceeds, At, Bulk, BulkAttempt, BulkEntry, BulkStart,
       CancelLocal, EndClaim
<1>3. CASE Schedule /\ ~EndClaim
  BY <1>3 DEF Schedule, ParkPaused, ParkAwaiting, RefuseNamespace, CompleteJob, BeginClaim,
     BeginPoint, BeginActive, BeginPlanned, Runnable, At
<1>4. CASE StopJob
  BY <1>4 DEF StopJob
<1>5. CASE User
  <2>1. ~Request
    BY DEF Request
  <2>2. CASE PauseJob \/ FullStop \/ EnableRetry \/ DisableRetry \/ ClearCache
    BY <2>2, StoreTypes DEF PauseJob, FullStop, EnableRetry, DisableRetry, ClearCache, store, JobRows
  <2> QED BY <1>5, <2>1, <2>2 DEF User, Credentials, Resume, BulkRetry, PointRetry
<1>6. CASE CrashRestart
  BY <1>6, StoreTypes DEF CrashRestart, Recovered, Idle
<1>7. CASE Environment \/ AwaitUser \/ UNCHANGED vars
  BY <1>7 DEF Environment, Land, EndOperation, ForeignWrite, SourceEdit, AwaitUser, vars
<1>8. CASE \E f \in Files : CancelPoint(f) \/ TimerFires(f)
  BY <1>8 DEF CancelPoint, TimerFires, FinishedJob
<1> QED BY <1>2, <1>3, <1>4, <1>5, <1>6, <1>7, <1>8 DEF Next, Runner

LEMMA StepMoves ==
    ASSUME DInv, IInv', [Next]_vars
    PROVE  Moves
<1>1. CASE Prepare \/ Deliver \/ PointSteps \/ Failure
  <2>1. CASE F \in Files
    BY <1>1, <2>1, PipelineImplements DEF DInv
  <2>2. CASE F \notin Files
    <3>1. run.pc \in JobPCs
      BY <2>2 DEF DInv, IInv, Holder
    <3>2. Interrupt
      BY <1>1, <3>1 DEF JobPCs, BulkPCs, Prepare, Deliver, PointSteps, Failure, OpenFile,
         CheckNewSource, CheckNewDestination, NewAttempt, MarkTransferring, CheckDestination,
         CheckSourceAndParent, CheckSource, Stage, Download, MarkStaged, DownloadFailed,
         GetUploadUrl, PersistIntent, Put, RecordUpload, Poll, Polled, EnterFinal, Verify,
         PersistMove, Move, RecordMove, Succeed, FinishEntry, PointFile, ConfirmPointCopy,
         NewPointAttempt, FinishPointStep, HandleError, FailAttempt, FailEntry, FailJob,
         Proceeds, At
    <3>3. ent' = ent /\ dest' = dest /\ run' = Idle
      BY <3>2 DEF Interrupt, remote, store
    <3> QED BY <3>1, <3>3, IdleStill DEF DInv, Idle
  <2> QED BY <2>1, <2>2
<1>2. CASE Schedule
  BY <1>2, ScheduleImplements DEF DInv
<1>3. CASE Bulk \/ StopJob \/ CancelLocal
  BY <1>3, GuardImplements DEF DInv
<1>4. CASE User
  BY <1>4, UserImplements
<1>5. CASE CrashRestart
  BY <1>5, CrashImplements DEF DInv
<1>6. CASE \/ Environment \/ AwaitUser \/ UNCHANGED vars
           \/ \E f \in Files : CancelPoint(f) \/ TimerFires(f)
  BY <1>6, OthersImplement DEF DInv
<1> QED BY <1>1, <1>2, <1>3, <1>4, <1>5, <1>6 DEF Next, Runner

LEMMA StepImplements ==
    ASSUME DInv, IInv', [Next]_vars
    PROVE  Delivery!Next
<1>1. Moves
  BY StepMoves
<1>2. Verdict' \in Delivery!Verdicts([f \in Files |-> Progress(f)'])
  BY VerdictAgreesNext DEF VerdictFits
<1>3. Verdict = "stopped" => Verdict' = "stopped"
  <2>1. Verdict = "stopped" => run.pc = "idle" /\ job.st = "stopped"
    BY DEF Verdict, At
  <2>2. run'.pc = "idle" /\ job'.st = "stopped" => Verdict' = "stopped"
    BY DEF Verdict, At
  <2> QED BY <2>1, <2>2, StoppedStands DEF DInv
<1> QED BY <1>1, <1>2, <1>3 DEF Moves, Step, Delivery!Next

LEMMA InitImplements ==
    ASSUME Init
    PROVE  Delivery!Init
<1>1. ASSUME NEW f \in Files
      PROVE  Progress(f) = "waiting"
  BY DEF Init, Idle, Progress, AtWork, ActiveFiles, Pointed, Active, Success
<1>2. Verdict = "open"
  BY DEF Init, Idle, Verdict, At
<1>3. [f \in Files |-> Progress(f)] = [f \in Files |-> "waiting"]
  BY <1>1
<1> QED BY <1>2, <1>3 DEF Delivery!Init

\* Every behaviour of the runner, the store, the requests and the destination is one of
\* the abstract job: one file at work at a time, delivered only when the destination
\* holds it and then for good, and completed, over or stopped only when the files allow
\* it (step, finish_point_retry, _complete_job).
THEOREM ImplementsDelivery == Spec => DeliverySpec
<1>1. Init => Delivery!Init
  BY InitImplements
<1>2. DInv /\ DInv' /\ [Next]_vars => [Delivery!Next]_(Delivery!vars)
  BY StepImplements DEF DInv
<1> QED BY <1>1, <1>2, DeliveryInvariant, PTL DEF Spec, DeliverySpec, Delivery!Spec
=============================================================================
