---------------------------- MODULE FileDelivery ----------------------------
(***************************************************************************)
(* What a staged migration job promises about the files of its plan,       *)
(* without attempts, phases, caches, retries and crashes.                  *)
(*                                                                         *)
(* One file is at work at a time; a file counts as delivered only once the *)
(* destination holds it, and then for good; a job is completed only when   *)
(* every file is delivered, is over with issues only when no file is at    *)
(* work, and is stopped only when nothing is left to do, for good.         *)
(***************************************************************************)
CONSTANT Files

VARIABLES
    held,       \* the files the destination holds as the plan describes them
    progress,   \* what the job knows of each file
    verdict     \* whether the job is over, and how

vars == <<held, progress, verdict>>

In(p, state) == {f \in Files : p[f] = state}

\* What may be said of a job whose files stand as p says.
Verdicts(p) ==
    {"open"}
    \cup {v \in {"ended"} : In(p, "working") = {}}
    \cup {v \in {"completed"} : In(p, "delivered") = Files}
    \cup {v \in {"stopped"} : In(p, "waiting") \cup In(p, "working") = {}}

Init ==
    /\ held \subseteq Files
    /\ progress = [f \in Files |-> "waiting"]
    /\ verdict = "open"

Becomes(f, state) == progress' = [progress EXCEPT ![f] = state] /\ UNCHANGED held

Take(f) ==
    /\ progress[f] \in {"waiting", "settled"} /\ In(progress, "working") = {}
    /\ Becomes(f, "working")

Deliver(f) == progress[f] # "delivered" /\ f \in held /\ Becomes(f, "delivered")

\* Failed, in conflict, of unknown outcome or cancelled.
Settle(f) == progress[f] \in {"waiting", "working"} /\ Becomes(f, "settled")

Requeue(f) == progress[f] \in {"settled", "working"} /\ Becomes(f, "waiting")

Cancel ==
    /\ progress' = [f \in Files |-> IF progress[f] = "delivered" THEN "delivered" ELSE "settled"]
    /\ UNCHANGED held

\* Writes of the job and of others.
Arrive(f) == held' = held \cup {f} /\ UNCHANGED progress
Vanish(f) == progress[f] # "delivered" /\ held' = held \ {f} /\ UNCHANGED progress

Decide == UNCHANGED <<held, progress>>

Next ==
    /\ \/ \E f \in Files : \/ Take(f) \/ Deliver(f) \/ Settle(f) \/ Requeue(f)
                           \/ Arrive(f) \/ Vanish(f)
       \/ Cancel \/ Decide
    /\ verdict' \in Verdicts(progress')
    /\ verdict = "stopped" => verdict' = "stopped"

Spec == Init /\ [][Next]_vars
=============================================================================
