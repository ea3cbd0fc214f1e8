-------------------------- MODULE BatchCoordinator --------------------------
(***************************************************************************)
(* BatchService (app/source_batches/service.py) on one list of sources:    *)
(* the requests of the user, the coordinator thread, and the threads of    *)
(* the executor that plan and transfer a source each.                      *)
(*                                                                         *)
(* guard, the service's lock, is held by a request and by one pass of the  *)
(* coordinator; the threads write the list and their source without it     *)
(* wherever the code does.  A request is one step, except that it can fail *)
(* part of the way, and the pass is two: what it reads of the list, and    *)
(* what it does with it.                                                   *)
(*                                                                         *)
(* In the mode "onprem" a source has a child: a job of MigrationStore,     *)
(* which only this module's threads step (excluded_job_ids).  A step of    *)
(* the child is abstract here: it begins an object, ends it, or ends the   *)
(* queue; FileTransfer has its inside.  In the mode "local" the thread     *)
(* copies the objects itself.  Lanes, always as many as threads or more,   *)
(* are in SourceSlots: a lease is granted at any time.                     *)
(*                                                                         *)
(* A definition just before the one its name begins like, and used nowhere *)
(* else, is a seeded defect: in its neighbour's place it must break one of *)
(* the properties.                                                         *)
(***************************************************************************)
EXTENDS Integers, FiniteSets

CONSTANTS
    Sources,        \* the sources of the list
    Modes,          \* the modes the list is created in
    Starts,         \* the runs begin with a list just created, or with one that is ready
    Limit,          \* slots.limit: threads of the executor
    Objects,        \* objects of a plan that is not empty
    MaxRequests,    \* bound: requests of the user
    MaxCrashes      \* bound: crashes

ASSUME BatchAssumption ==
    /\ Sources # {} /\ IsFiniteSet(Sources)
    /\ Modes \subseteq {"local", "onprem"} /\ Starts \subseteq {"draft", "ready"}
    /\ Limit \in Nat \ {0} /\ Objects \in Nat \ {0}
    /\ MaxRequests \in Nat /\ MaxCrashes \in Nat

VARIABLES
    mode,       \* batches.mode
    list,       \* the row of "batches"
    src,        \* the rows of "sources", with what their plan holds
    child,      \* the child job of each source
    thread,     \* _active: where the future of each source stands
    loop,       \* where the coordinator thread stands
    check,      \* _planning_checks: a check of the group in flight
    asked,      \* a request that changed the selection has yet to check the group
    creds,      \* credentials are in memory
    retry,      \* a retry of the child asked for by the user, and how far it is
    word,       \* what came last: the answer to a pause or a stop, a crash, or neither
    budget      \* requests and crashes that may still come

vars == <<mode, list, src, child, thread, loop, check, asked, creds, retry, word, budget>>

Terminal == {"completed", "completed_with_issues", "stopped"}
ListStates == {"draft", "planning", "ready", "needs_attention", "running", "paused",
               "awaiting_credentials"} \cup Terminal
SourceStates == {"pending", "planning", "ready", "error", "running", "paused",
                 "awaiting_credentials"} \cup Terminal
ChildStates == {"none", "queued", "planning", "ready", "needs_attention", "running", "paused",
                "awaiting_credentials"} \cup Terminal
Plans == {"none", "clean", "conflicts", "empty"}
PlanPCs == {"p_queued", "p_lease", "p_describe", "p_retire", "p_make", "p_create", "p_scan",
            "p_commit", "p_int", "p_intchild", "p_exc", "p_excchild", "p_fin"}
TransferPCs == {"t_queued", "t_lease", "t_loop", "t_step", "t_go", "t_pausing", "t_read",
                "t_note", "t_list", "t_outage", "t_outset", "t_outsrc", "t_int", "t_intset", "t_exc",
                "t_auth", "t_fin"}
Seen == ChildStates \cup ListStates \cup {"-", "auth", "error", "raise"}

NoChild == [state |-> "none", resume |-> "none", pause |-> FALSE, full |-> FALSE,
            planned |-> FALSE, busy |-> FALSE]
Idle == [pc |-> "none", seen |-> "-"]
NoCheck == [on |-> FALSE, fresh |-> FALSE, ok |-> FALSE, of |-> {}]

Selected == {s \in Sources : src[s].selected}
Active == {s \in Sources : thread[s].pc # "none"}
HasChild(s) == child[s].state # "none"
\* Over: the future is done, or it raised.
Over(s) == thread[s].pc \in {"none", "done", "raised"}
\* The thread holds the guard of the child's job.
Holding(s) == thread[s].pc \in {"p_scan", "t_step", "t_go", "t_pausing", "t_read", "t_note",
                                "t_list", "t_outage", "t_outset", "t_outsrc"}
GuardFree == loop.pc # "pass"

NewSource == [state |-> "pending", selected |-> TRUE, planned |-> FALSE, plan |-> "none",
              fixable |-> TRUE, left |-> 0, bad |-> FALSE]

\* create; or, later, a list whose sources are planned and whose check has passed.
Init ==
    /\ mode \in Modes
    /\ \E start \in Starts :
         /\ list = [state |-> start, started |-> FALSE, outage |-> FALSE,
                    resume |-> IF start = "draft" THEN "none" ELSE "planning"]
         /\ src = [s \in Sources |-> IF start = "draft" THEN NewSource
                 ELSE [NewSource EXCEPT !.state = "ready", !.planned = TRUE, !.plan = "clean"]]
         /\ child = [s \in Sources |-> IF start = "draft" \/ mode = "local" THEN NoChild
                 ELSE [NoChild EXCEPT !.state = "ready", !.planned = TRUE]]
    /\ thread = [s \in Sources |-> Idle]
    /\ loop = [pc |-> "top", seen |-> "-"]
    /\ check = NoCheck
    /\ asked = FALSE
    /\ creds = TRUE
    /\ retry = [s \in Sources |-> "no"]
    /\ word = "none"
    /\ budget = [requests |-> MaxRequests, crashes |-> MaxCrashes]

\* store.update: every write of the list's row changes updated_at, the fence of a check.
Update(row) ==
    /\ list' = row
    /\ check' = [check EXCEPT !.fresh = FALSE]
KeepList == UNCHANGED <<list, check>>

----------------------------------------------------------------------------
(* The child's row. *)

\* update_job refuses to change the state of a job that is stopped or being stopped.
Closed(c) == c.full \/ c.state = "stopped"

\* request_full_stop refuses a completed job.
Stoppable(c) == c.full \/ c.state # "completed"

\* runner.stop_job.
Halted(c) == [c EXCEPT !.state = "stopped", !.resume = "none", !.pause = FALSE]
FullyStopped(c) == [Halted(c) EXCEPT !.full = TRUE]
Running(c) == [c EXCEPT !.state = "running", !.pause = FALSE]

----------------------------------------------------------------------------
(* The check of the group. *)

\* _group_check without what it asks the disk and the destination.
GroupOK ==
    /\ \A s \in Selected : src[s].planned /\ src[s].state \in {"ready", "completed"}
    /\ \A s \in Selected : src[s].plan # "conflicts"

\* _finish_planning, up to the check.
CanCheck ==
    /\ list.state \in {"planning", "draft", "ready", "needs_attention"}
    /\ ~check.on
    /\ Selected # {}
    /\ \A s \in Selected : src[s].state \notin {"pending", "planning"}

BeginCheck == check' = IF CanCheck THEN [on |-> TRUE, fresh |-> TRUE, ok |-> GroupOK,
                                       of |-> Selected] ELSE check

Frame == UNCHANGED <<mode, asked, creds, retry, word, budget>>

\* By the coordinator, after a pass that saw the list being planned.
FinishPlanning ==
    /\ loop.pc = "finish"
    /\ BeginCheck
    /\ loop' = [loop EXCEPT !.pc = IF CanCheck THEN "check" ELSE "top"]
    /\ Frame /\ UNCHANGED <<list, src, child, thread>>

\* By the request that changed the selection.
FinishSelection ==
    /\ asked /\ GuardFree
    /\ BeginCheck
    /\ asked' = FALSE
    /\ UNCHANGED <<mode, list, src, child, thread, loop, creds, retry, word, budget>>

\* What the check asks the destination needs credentials; for nothing it asks nothing.
CanAsk == creds \/ mode = "local" \/ \A s \in check.of : src[s].plan = "empty"

\* Seeded defect: the verdict is written whatever happened since the check began.
EndCheckUnfenced ==
    /\ check.on /\ GuardFree
    /\ \E ok \in BOOLEAN :
          /\ ok => check.ok /\ CanAsk
          /\ list' = [list EXCEPT !.state = IF ok THEN "ready" ELSE "needs_attention",
                                  !.outage = FALSE]
    /\ check' = NoCheck
    /\ loop' = [loop EXCEPT !.pc = IF @ = "check" THEN "top" ELSE @]
    /\ Frame /\ UNCHANGED <<src, child, thread>>

\* The disk or the destination can refuse a group that is in order.
EndCheck ==
    /\ check.on /\ GuardFree
    /\ \/ /\ check.fresh
          /\ \E ok \in BOOLEAN :
                /\ ok => check.ok /\ CanAsk
                /\ list' = [list EXCEPT !.state = IF ok THEN "ready" ELSE "needs_attention",
                                        !.outage = FALSE]
       \/ ~check.fresh /\ UNCHANGED list
    /\ check' = NoCheck
    /\ loop' = [loop EXCEPT !.pc = IF @ = "check" THEN "top" ELSE @]
    /\ Frame /\ UNCHANGED <<src, child, thread>>

----------------------------------------------------------------------------
(* Requests of the user. *)

Request ==
    /\ GuardFree
    /\ budget.requests > 0
    /\ budget' = [budget EXCEPT !.requests = @ - 1]

Editing == list.state \notin {"running", "stopped"} /\ ~list.started

Pending(r) == [r EXCEPT !.state = "pending", !.planned = FALSE, !.fixable = TRUE]

\* plan: of the selected sources, or of one, which it selects.  The sources before
\* a busy one are already reset when the request is refused.
Plan(of) ==
    /\ Request
    /\ Editing /\ creds
    /\ LET one == of # Sources
           Reset(S) == [s \in Sources |->
                IF s \in S /\ (one \/ src[s].selected)
                THEN [Pending(src[s]) EXCEPT !.selected = TRUE] ELSE src[s]]
       IN \/ /\ of \cap Active = {}
             /\ src' = Reset(of)
             /\ Update([list EXCEPT !.state = "planning", !.resume = "planning", !.outage = FALSE])
          \/ /\ of \cap Active # {}
             /\ \E S \in SUBSET (of \ Active) : src' = Reset(S)
             /\ KeepList
    /\ word' = "none"
    /\ UNCHANGED <<mode, child, thread, loop, asked, creds, retry>>

\* selection: which sources of the list are included.
Selection(S) ==
    /\ Request
    /\ Editing /\ S # {}
    /\ src' = [s \in Sources |-> [src[s] EXCEPT !.selected = s \in S]]
    /\ IF list.state # "planning" /\ (\E s \in S : ~src[s].planned)
       THEN Update([list EXCEPT !.state = "needs_attention", !.outage = FALSE])
       ELSE Update([list EXCEPT !.state = "planning", !.resume = "planning", !.outage = FALSE])
    /\ asked' = TRUE /\ word' = "none"
    /\ UNCHANGED <<mode, child, thread, loop, creds, retry>>

\* _entry_selection_editable.
Editable(s) ==
    /\ ~list.started
    /\ \/ list.state \in {"ready", "needs_attention"}
       \/ list.state = "awaiting_credentials" /\ list.resume \in {"ready", "needs_attention"}
    /\ src[s].planned /\ src[s].state \in {"ready", "error"} /\ src[s].fixable
    /\ thread[s].pc = "none" /\ ~check.on

Planned(r, plan) ==
    [r EXCEPT !.state = IF plan = "conflicts" THEN "error" ELSE "ready",
              !.fixable = TRUE, !.plan = plan]

\* entry_selection: which objects of a source are included, hence what is left of its plan.
EntrySelection(s, plan) ==
    /\ Request
    /\ Editable(s) /\ ~Closed(child[s])
    /\ src' = [src EXCEPT ![s] = Planned(@, plan)]
    /\ IF list.state = "awaiting_credentials" \/ (mode = "onprem" /\ ~creds)
       THEN /\ Update([list EXCEPT !.state = "awaiting_credentials", !.resume = "ready",
                                   !.outage = FALSE])
            /\ UNCHANGED <<asked, word>>
       ELSE /\ Update([list EXCEPT !.state = "planning", !.resume = "planning",
                                   !.outage = FALSE])
            /\ asked' = TRUE /\ word' = "none"
    /\ UNCHANGED <<mode, child, thread, loop, creds, retry>>

\* _restore_unstarted_children: what a start that did not come to its end has moved.
Moved(s) == HasChild(s) /\ (\/ src[s].state \in {"running", "paused", "completed"}
                            \/ child[s].state \in {"running", "paused", "completed"})
CanRestore == \A s \in Sources : Moved(s) =>
    /\ src[s].planned /\ child[s].planned /\ ~child[s].full
    /\ child[s].state \in {"ready", "needs_attention", "running", "paused", "completed"}
RestoredSource(r) == Planned(r, r.plan)
RestoredChild(r, c) ==
    [c EXCEPT !.state = IF r.plan = "conflicts" THEN "needs_attention" ELSE "ready",
              !.resume = "none", !.pause = FALSE]

\* What start_transfer writes of a selected source and of its child.
StartedSource(r) ==
    [r EXCEPT !.state = IF r.plan = "empty" THEN "completed" ELSE "running", !.fixable = TRUE,
              !.left = IF r.plan = "empty" THEN 0 ELSE Objects, !.bad = FALSE]
StartedChild(r, c) ==
    IF r.plan = "empty" THEN [c EXCEPT !.state = "completed"] ELSE Running(c)

\* The sources of S are started, and with them the list when they are all.
StartSources(S) ==
    /\ src' = [s \in Sources |-> IF s \in S THEN StartedSource(src[s])
                                 ELSE IF Moved(s) THEN RestoredSource(src[s]) ELSE src[s]]
    /\ child' = [s \in Sources |->
                    IF ~HasChild(s) THEN child[s]
                    ELSE IF s \in S THEN StartedChild(src[s], child[s])
                    ELSE IF Moved(s) THEN RestoredChild(src[s], child[s]) ELSE child[s]]

CanStart ==
    /\ list.state = "ready" /\ creds
    /\ \E s \in Selected : ~src[s].planned \/ src[s].plan # "empty"
    /\ \A s \in Sources : HasChild(s) => ~Holding(s)
    /\ CanRestore

\* Seeded defect: the verdict of the last check is trusted.
RestoredGroupTrusted == list.state = "ready"

\* The group as it is once the children are restored.
RestoredGroupOK ==
    \A s \in Selected : /\ src[s].planned /\ src[s].plan # "conflicts"
                        /\ Moved(s) \/ src[s].state \in {"ready", "completed"}

\* start_transfer: refused by the check of the group, or done.
StartTransfer ==
    /\ Request
    /\ CanStart
    /\ \/ /\ Update([list EXCEPT !.state = "needs_attention", !.outage = FALSE])
          /\ StartSources({})
       \/ /\ RestoredGroupOK
          /\ StartSources(Selected)
          /\ Update([list EXCEPT !.state = "running", !.started = TRUE, !.outage = FALSE,
                                 !.resume = "running"])
    /\ word' = "none"
    /\ UNCHANGED <<mode, thread, loop, asked, creds, retry>>

PauseChildren == child' = [s \in Sources |->
    IF HasChild(s) THEN [child[s] EXCEPT !.pause = TRUE] ELSE child[s]]

Pause ==
    /\ Request
    /\ list.state \in {"running", "planning"}
    /\ Update([list EXCEPT !.state = "paused", !.resume = list.state])
    /\ PauseChildren
    /\ UNCHANGED <<mode, src, thread, loop, asked, creds, retry>>
    /\ word' = "pause"

\* resume, with the probe of the destination answered: the sources that are not at
\* their end run again, up to the first whose child is being stopped.
Resume ==
    /\ Request
    /\ list.state = "paused" /\ creds
    /\ LET state == IF list.resume # "none" THEN list.resume
                    ELSE IF list.started THEN "running" ELSE "planning"
           again == {s \in Selected : state = "running" /\ src[s].state \notin Terminal}
           refused == {s \in again : HasChild(s) /\ Closed(child[s])
                                     /\ child[s].state # "running"}
           Again(S, T) ==
              /\ src' = [s \in Sources |->
                    IF s \in S THEN [src[s] EXCEPT !.state = "running"] ELSE src[s]]
              /\ child' = [s \in Sources |->
                    IF s \in T /\ HasChild(s) THEN Running(child[s]) ELSE child[s]]
       IN /\ Update([list EXCEPT !.state = state, !.outage = FALSE])
          /\ \/ refused = {} /\ Again(again, again)
             \/ \E f \in refused, S \in SUBSET (again \ refused) : Again(S \cup {f}, S)
    /\ UNCHANGED <<mode, thread, loop, asked, creds, retry>>
    /\ word' = "none"

\* stop reaches a source: a future that has not begun is cancelled, and a source
\* with no future left has its child halted at once.
StopSources(S, flagged) ==
    /\ src' = [s \in Sources |-> IF s \in S THEN [src[s] EXCEPT !.state = "stopped"] ELSE src[s]]
    /\ thread' = [s \in Sources |->
          IF s \in S /\ thread[s].pc \in {"p_queued", "t_queued"}
          THEN [pc |-> "done", seen |-> "-"] ELSE thread[s]]
    /\ child' = [s \in Sources |->
          IF s \notin flagged \/ ~HasChild(s) THEN child[s]
          ELSE IF thread[s].pc = "none" THEN FullyStopped(child[s])
          ELSE [child[s] EXCEPT !.full = TRUE]]

\* stop: whatever the state.  A child that is completed refuses, and with it the
\* request, at the sources that come after and before the credentials are dropped.
Stop ==
    /\ Request
    /\ LET refused == {s \in Sources : HasChild(s) /\ ~Stoppable(child[s])}
       IN /\ Update([list EXCEPT !.state = "stopped", !.outage = FALSE])
          /\ \/ /\ refused = {}
                /\ StopSources(Sources, Sources)
                /\ creds' = FALSE /\ word' = "stop"
             \/ /\ \E f \in refused, S \in SUBSET (Sources \ refused) :
                      StopSources(S \cup {f}, S)
                /\ UNCHANGED <<creds, word>>
    /\ UNCHANGED <<mode, loop, asked, retry>>

\* runner.attach_credentials on the child: what ran before is paused.
Attached(c) ==
    [c EXCEPT !.state = IF c.resume \in {"running", "paused"} THEN "paused"
                        ELSE IF c.resume = "none" THEN "ready" ELSE c.resume]

\* attach_credentials.  Nothing starts.  A child that is being stopped refuses, and with it
\* the request, when the children before it have theirs.
AttachCredentials ==
    /\ Request
    /\ list.state # "stopped"
    /\ ~creds \/ list.state = "awaiting_credentials"
    /\ Active = {}
    /\ LET await == {s \in Sources : child[s].state = "awaiting_credentials"}
           state == IF list.state # "awaiting_credentials" THEN list.state
                    ELSE IF list.resume = "ready" THEN "ready"
                    ELSE IF list.resume \in {"running", "paused", "planning"} THEN "paused"
                    ELSE "draft"
           restores == mode = "onprem" /\ ~list.started /\ state \in {"ready", "needs_attention"}
           next == [s \in Sources |-> IF s \in await THEN Attached(child[s]) ELSE child[s]]
           moved == {s \in Sources : /\ HasChild(s)
                                     /\ \/ src[s].state \in {"running", "paused", "completed"}
                                        \/ next[s].state \in {"running", "paused", "completed"}}
       IN IF \E s \in await : child[s].full
          THEN /\ \E S \in SUBSET {s \in await : ~child[s].full} :
                    child' = [s \in Sources |->
                                IF s \in S THEN Attached(child[s]) ELSE child[s]]
               /\ UNCHANGED src /\ KeepList
          ELSE /\ IF list.state = "awaiting_credentials"
                  THEN Update([list EXCEPT !.state = state, !.outage = FALSE]) ELSE KeepList
               /\ IF restores /\ (\A s \in moved : src[s].planned /\ next[s].planned
                                                   /\ ~next[s].full)
                  THEN /\ src' = [s \in Sources |->
                              IF s \in moved THEN RestoredSource(src[s]) ELSE src[s]]
                       /\ child' = [s \in Sources |->
                              IF s \in moved THEN RestoredChild(src[s], next[s]) ELSE next[s]]
                  ELSE child' = next /\ UNCHANGED src
    /\ creds' = TRUE
    /\ UNCHANGED <<mode, thread, loop, asked, retry, word>>

----------------------------------------------------------------------------
(* A retry of the child, or of one of its files (migration/api.py): three   *)
(* steps, of which only the last holds the list's guard.                    *)

\* require_child_active: a list that was paused by an outage admits it.
ChildActive(s) ==
    /\ list.started /\ list.state # "stopped" /\ src[s].selected
    /\ list.state # "awaiting_credentials"
    /\ list.state = "paused" => list.outage

\* require_batch_active and prepare_child_retry.
PrepareChildRetry(s) ==
    /\ budget.requests > 0
    /\ budget' = [budget EXCEPT !.requests = @ - 1]
    /\ retry[s] = "no" /\ HasChild(s) /\ ChildActive(s)
    /\ retry' = [retry EXCEPT ![s] = "prepared"]
    /\ UNCHANGED <<mode, list, src, child, thread, loop, check, asked, creds, word>>

\* Under the guard of the child: runner.retry and queue_point_retry, which put objects
\* back, resume, which does not, or a refusal.
QueueChildRetry(s) ==
    /\ retry[s] = "prepared"
    /\ \/ /\ ~Holding(s) /\ creds /\ ~Closed(child[s])
          /\ child[s].state \in {"needs_attention", "paused", "completed_with_issues"}
          /\ child' = [child EXCEPT ![s] = [Running(@) EXCEPT !.resume = "none"]]
          /\ \/ src' = [src EXCEPT ![s].left = IF @ = 0 THEN 1 ELSE @, ![s].bad = FALSE]
             \/ child[s].state # "completed_with_issues" /\ UNCHANGED src
          /\ retry' = [retry EXCEPT ![s] = "queued"]
          /\ word' = IF word = "crash" THEN "none" ELSE word
       \/ /\ retry' = [retry EXCEPT ![s] = "no"]
          /\ UNCHANGED <<child, src, word>>
    /\ UNCHANGED <<mode, list, thread, loop, check, asked, creds, budget>>

\* activate_child_retry; after an outage its siblings run again too.
ActivateChildRetry(s) ==
    /\ retry[s] = "queued" /\ GuardFree
    /\ retry' = [retry EXCEPT ![s] = "no"]
    /\ IF ~ChildActive(s) THEN UNCHANGED <<src, child, word>> /\ KeepList
       ELSE LET siblings == {t \in Selected : list.outage /\ t # s /\ src[t].state = "paused"}
                refused == {t \in siblings : Closed(child[t]) /\ child[t].state # "running"}
                again == siblings \ refused
            IN /\ word' = "none"
               /\ Update([list EXCEPT !.state = "running", !.outage = FALSE])
               /\ src' = [t \in Sources |-> IF t \in siblings \cup {s}
                                            THEN [src[t] EXCEPT !.state = "running"] ELSE src[t]]
               /\ child' = [t \in Sources |->
                                IF t \in again THEN Running(child[t]) ELSE child[t]]
    /\ UNCHANGED <<mode, thread, loop, asked, creds, budget>>

----------------------------------------------------------------------------
(* The coordinator thread (_run). *)

\* A future that raised ends the thread; the others that are over are forgotten.
BeginPass ==
    /\ loop.pc = "top"
    /\ IF \E s \in Sources : thread[s].pc = "raised"
       THEN loop' = [pc |-> "dead", seen |-> "-"] /\ UNCHANGED thread
       ELSE /\ loop' = [pc |-> "pass", seen |-> list.state]
            /\ thread' = [s \in Sources |-> IF Over(s) THEN Idle ELSE thread[s]]
    /\ Frame /\ KeepList /\ UNCHANGED <<src, child>>

\* A completed source whose child a retry has set running.
Reopened(s) == /\ loop.seen \in {"completed", "completed_with_issues"} /\ list.started
               /\ src[s].state \in {"completed", "completed_with_issues"}
               /\ child[s].state = "running"

Due(s) == /\ s \in Selected \ Active
          /\ \/ loop.seen = "planning" /\ src[s].state = "pending"
             \/ loop.seen = "running" /\ src[s].state = "running"
             \/ Reopened(s)

\* With the state it has seen of the list, the pass submits the sources that are
\* due, as many as there are threads, and ends a list whose sources are at their end.
Pass ==
    /\ loop.pc = "pass"
    /\ LET due == {s \in Sources : Due(s)}
           room == Limit - Cardinality(Active)
           ends == loop.seen = "running" /\ Selected # {}
                   /\ \A s \in Selected : src[s].state \in Terminal \cup {"error"}
       IN \E D \in SUBSET due :
            /\ Cardinality(D) = IF Cardinality(due) < room THEN Cardinality(due) ELSE room
            /\ thread' = [s \in Sources |->
                 IF s \notin D THEN thread[s]
                 ELSE [pc |-> IF loop.seen = "planning" THEN "p_queued" ELSE "t_queued",
                       seen |-> "-"]]
            /\ src' = [s \in Sources |->
                 IF s \notin D THEN src[s]
                 ELSE [src[s] EXCEPT !.state = IF loop.seen = "planning" THEN "planning"
                                               ELSE "running"]]
            /\ IF \E s \in D : Reopened(s)
               THEN Update([list EXCEPT !.state = "running"])
               ELSE IF ends
               THEN Update([list EXCEPT !.state =
                       IF \A s \in Selected : src[s].state = "completed"
                       THEN "completed" ELSE "completed_with_issues"])
               ELSE KeepList
    /\ loop' = [pc |-> IF loop.seen = "planning" THEN "finish" ELSE "top", seen |-> "-"]
    /\ Frame /\ UNCHANGED child

----------------------------------------------------------------------------
(* A thread that plans a source (_plan_one). *)

At(s, pc) == thread[s].pc = pc
GoSeeing(s, pc, seen) == thread' = [thread EXCEPT ![s] = [pc |-> pc, seen |-> seen]]
Go(s, pc) == GoSeeing(s, pc, "-")
Rest == Frame /\ UNCHANGED loop

\* _checkpoint: the list is where the thread expects it, or the thread is interrupted;
\* credentials are there, or it fails.
Passes(state) == list.state = state /\ creds
Turned(s, state, interrupted, failed) ==
    /\ ~Passes(state)
    /\ GoSeeing(s, IF list.state # state THEN interrupted ELSE failed, "auth")
    /\ KeepList /\ UNCHANGED <<src, child>> /\ Rest

\* request_full_stop and stop_job, under the guard of the child.
StopChild(s) == child' = IF HasChild(s) /\ Stoppable(child[s])
                         THEN [child EXCEPT ![s] = FullyStopped(@)] ELSE child

PlanEnter(s) ==
    /\ At(s, "p_queued") /\ Go(s, "p_lease")
    /\ KeepList /\ UNCHANGED <<src, child>> /\ Rest

\* With the lane, under the guard: begin_plan.
Begun(r) == [r EXCEPT !.state = "planning", !.planned = FALSE, !.fixable = TRUE,
                      !.plan = IF mode = "local" THEN "none" ELSE r.plan]
PlanBegin(s) ==
    /\ At(s, "p_lease") /\ GuardFree /\ Passes("planning")
    /\ src' = [src EXCEPT ![s] = Begun(src[s])]
    /\ Go(s, "p_describe")
    /\ KeepList /\ UNCHANGED child /\ Rest

\* The folder of the source is known and written.
PlanDescribe(s) ==
    /\ At(s, "p_describe") /\ GuardFree /\ Passes("planning")
    /\ Go(s, IF mode = "local" THEN "p_scan" ELSE IF HasChild(s) THEN "p_retire" ELSE "p_make")
    /\ KeepList /\ UNCHANGED <<src, child>> /\ Rest

\* Seeded defect: the child of the earlier plan is left as it is.
PlanKeepOld(s) ==
    /\ At(s, "p_retire")
    /\ Go(s, "p_make")
    /\ KeepList /\ UNCHANGED <<src, child>> /\ Rest

\* The child of an earlier plan is stopped.
PlanRetire(s) ==
    /\ At(s, "p_retire")
    /\ StopChild(s)
    /\ Go(s, IF Stoppable(child[s]) THEN "p_make" ELSE "p_exc")
    /\ KeepList /\ UNCHANGED src /\ Rest

PlanMake(s) ==
    /\ At(s, "p_make") /\ Passes("planning")
    /\ Go(s, "p_create")
    /\ KeepList /\ UNCHANGED <<src, child>> /\ Rest

\* The child is created after the checkpoint, whatever came between.
PlanCreate(s) ==
    /\ At(s, "p_create")
    /\ child' = [child EXCEPT ![s] = [NoChild EXCEPT !.state = "planning"]]
    /\ src' = [src EXCEPT ![s].plan = "none"]
    /\ Go(s, "p_scan")
    /\ KeepList /\ Rest

\* The inventory is complete; a local one is kept in the rows of the list itself.
PlanScanLocal(s) ==
    /\ At(s, "p_scan") /\ Passes("planning") /\ mode = "local"
    /\ \E plan \in Plans \ {"none"} : src' = [src EXCEPT ![s].plan = plan]
    /\ Go(s, "p_commit")
    /\ KeepList /\ UNCHANGED child /\ Rest

\* The inventory of the child is complete before the source hears of it.
PlanScanChild(s) ==
    /\ At(s, "p_scan") /\ Passes("planning") /\ mode = "onprem"
    /\ \E plan \in Plans \ {"none"} :
         /\ src' = [src EXCEPT ![s].plan = plan]
         /\ child' = [child EXCEPT ![s].planned = TRUE,
                ![s].state = IF plan = "conflicts" THEN "needs_attention" ELSE "ready"]
    /\ Go(s, "p_commit")
    /\ KeepList /\ Rest

PlanCommit(s) ==
    /\ At(s, "p_commit") /\ GuardFree /\ Passes("planning")
    /\ src' = [src EXCEPT ![s] = [Planned(@, @.plan) EXCEPT !.planned = TRUE]]
    /\ Go(s, "p_fin")
    /\ KeepList /\ UNCHANGED child /\ Rest

\* The list is no longer being planned, or its credentials are gone.
PlanTurned(s) ==
    /\ \/ (At(s, "p_lease") \/ At(s, "p_describe") \/ At(s, "p_commit")) /\ GuardFree
       \/ At(s, "p_make") \/ At(s, "p_scan")
    /\ Turned(s, "planning", "p_int", "p_exc")

\* The source, the destination or the disk fails.
PlanFails(s) ==
    /\ At(s, "p_describe") \/ At(s, "p_scan")
    /\ Go(s, "p_exc")
    /\ KeepList /\ UNCHANGED <<src, child>> /\ Rest

\* The plan is complete and the quota of the destination is too small for it.
PlanTooLarge(s) ==
    /\ At(s, "p_scan") /\ mode = "onprem" /\ Passes("planning")
    /\ src' = [src EXCEPT ![s].plan = "clean"]
    /\ child' = [child EXCEPT ![s] = [@ EXCEPT !.planned = TRUE, !.state = "needs_attention"]]
    /\ GoSeeing(s, "p_exc", "needs_attention")
    /\ KeepList /\ Rest

\* except Interrupted.
PlanInterrupted(s) ==
    /\ At(s, "p_int") /\ GuardFree
    /\ src' = [src EXCEPT ![s].state = IF list.state = "stopped" THEN "stopped" ELSE "pending"]
    /\ Go(s, IF HasChild(s) THEN "p_intchild" ELSE "p_fin")
    /\ KeepList /\ UNCHANGED child /\ Rest
PlanInterruptedChild(s) ==
    /\ At(s, "p_intchild")
    /\ StopChild(s)
    /\ GoSeeing(s, "p_fin", IF Stoppable(child[s]) THEN "-" ELSE "raise")
    /\ KeepList /\ UNCHANGED src /\ Rest

\* except Exception.  The child can be the one of an earlier plan.
PlanFailed(s) ==
    /\ At(s, "p_exc") /\ GuardFree
    /\ LET stopped == list.state = "stopped"
       IN /\ src' = [src EXCEPT ![s] = [@ EXCEPT
                !.state = IF stopped THEN "stopped" ELSE "error",
                !.fixable = stopped \/ thread[s].seen = "needs_attention",
                !.planned = ~stopped /\ child[s].planned]]
          /\ Go(s, IF HasChild(s) /\ ~stopped THEN "p_excchild" ELSE "p_fin")
    /\ KeepList /\ UNCHANGED child /\ Rest

\* Outside of the guard: a child stopped in the meantime refuses, and the handler raises.
PlanFailedChild(s) ==
    /\ At(s, "p_excchild")
    /\ IF Closed(child[s])
       THEN GoSeeing(s, "p_fin", "raise") /\ UNCHANGED child
       ELSE /\ child' = [child EXCEPT ![s].state = "needs_attention"]
            /\ Go(s, "p_fin")
    /\ KeepList /\ UNCHANGED src /\ Rest

\* Seeded defect: a stop that came during the planning is not looked for.
PlanEndsBlind(s) ==
    /\ At(s, "p_fin")
    /\ Go(s, IF thread[s].seen = "raise" THEN "raised" ELSE "done")
    /\ KeepList /\ UNCHANGED <<src, child>> /\ Rest

\* finally.
PlanEnds(s) ==
    /\ At(s, "p_fin")
    /\ IF list.state = "stopped"
       THEN src' = [src EXCEPT ![s].state = "stopped"] /\ StopChild(s)
       ELSE UNCHANGED <<src, child>>
    /\ Go(s, IF \/ thread[s].seen = "raise"
                \/ list.state = "stopped" /\ ~Stoppable(child[s]) THEN "raised" ELSE "done")
    /\ KeepList /\ Rest

----------------------------------------------------------------------------
(* A thread that transfers a source (_transfer_one). *)

\* A child's two checkpoints in a row, with the lane and at the head of the loop, are one.
TransferEnter(s) ==
    /\ At(s, "t_queued")
    /\ Go(s, IF mode = "local" THEN "t_lease" ELSE "t_loop")
    /\ KeepList /\ UNCHANGED <<src, child>> /\ Rest

\* Seeded defect: an empty local queue is not noticed.
TransferLoopForever(s) ==
    /\ At(s, "t_lease") \/ At(s, "t_loop")
    /\ Passes("running")
    /\ Go(s, IF At(s, "t_lease") THEN "t_loop" ELSE "t_step")
    /\ KeepList /\ UNCHANGED <<src, child>> /\ Rest

\* With the lane, or at the head of the loop; a local queue that is empty is not asked.
TransferLoop(s) ==
    /\ At(s, "t_lease") \/ (At(s, "t_loop") /\ (mode = "onprem" \/ src[s].left > 0))
    /\ Passes("running")
    /\ Go(s, IF At(s, "t_lease") THEN "t_loop" ELSE "t_step")
    /\ KeepList /\ UNCHANGED <<src, child>> /\ Rest
TransferTurned(s) ==
    /\ \/ At(s, "t_lease")
       \/ At(s, "t_loop") /\ (mode = "onprem" \/ src[s].left > 0)
       \/ At(s, "t_step") /\ mode = "local"
    /\ Turned(s, "running", "t_int", "t_exc")

\* _transfer_local: an object is copied or fails, the source refuses the credentials,
\* or the folder of the source cannot be made.
CopyLocal(s) ==
    /\ At(s, "t_step") /\ mode = "local"
    /\ \/ /\ \E bad \in BOOLEAN :
               src' = [src EXCEPT ![s].left = @ - 1, ![s].bad = @ \/ bad]
          /\ Go(s, "t_loop")
       \/ \E why \in {"auth", "error"} : GoSeeing(s, "t_exc", why) /\ UNCHANGED src
    /\ KeepList /\ UNCHANGED child /\ Rest
CopyLocalEnds(s) ==
    /\ At(s, "t_loop") /\ mode = "local" /\ src[s].left = 0
    /\ src' = [src EXCEPT ![s].state = IF src[s].bad THEN "completed_with_issues"
                                       ELSE "completed"]
    /\ Go(s, "t_fin")
    /\ KeepList /\ UNCHANGED child /\ Rest

\* runner.step on a job that does not run, or on one that is to pause.
ChildRuns(s) == child[s].state = "running" /\ ~child[s].full
ChildIdle(s) ==
    /\ At(s, "t_step") /\ mode = "onprem" /\ ~ChildRuns(s)
    /\ Go(s, "t_read")
    /\ KeepList /\ UNCHANGED <<src, child>> /\ Rest
ChildPauses(s) ==
    /\ At(s, "t_step") /\ mode = "onprem" /\ ChildRuns(s)
    /\ child[s].pause /\ ~child[s].busy
    /\ Go(s, "t_pausing")
    /\ KeepList /\ UNCHANGED <<src, child>> /\ Rest
\* A child that is being stopped by then refuses, outside of the step's try block.
ChildPaused(s) ==
    /\ At(s, "t_pausing")
    /\ IF Closed(child[s])
       THEN GoSeeing(s, "t_exc", "error") /\ UNCHANGED child
       ELSE Go(s, "t_read") /\ child' = [child EXCEPT ![s].state = "paused"]
    /\ KeepList /\ UNCHANGED src /\ Rest

\* Seeded defect: the step does not look for a pause.
ChildGoesOn(s) ==
    /\ At(s, "t_step") /\ mode = "onprem" /\ ChildRuns(s)
    /\ ~child[s].busy
    /\ Go(s, "t_go")
    /\ KeepList /\ UNCHANGED <<src, child>> /\ Rest

\* The step has read its job: it is not to pause.  The clients, the publications and the
\* technical folder come before anything begins.
ChildGoes(s) ==
    /\ At(s, "t_step") /\ mode = "onprem" /\ ChildRuns(s)
    /\ ~child[s].busy /\ ~child[s].pause
    /\ Go(s, "t_go")
    /\ KeepList /\ UNCHANGED <<src, child>> /\ Rest

\* A stop is looked for again, a pause is not.
ChildCut(s) ==
    /\ At(s, "t_go") /\ child[s].full
    /\ Go(s, "t_loop")
    /\ KeepList /\ UNCHANGED <<src, child>> /\ Rest
ChildBegins(s) ==
    /\ At(s, "t_go") /\ ~child[s].full /\ src[s].left > 0
    /\ child' = [child EXCEPT ![s].busy = TRUE]
    /\ Go(s, "t_loop")
    /\ KeepList /\ UNCHANGED src /\ Rest

\* An object ends, well or not; with automatic retries, a destination that is out is
\* reported by the object that failed.
ChildEndsObject(s) ==
    /\ At(s, "t_step") /\ mode = "onprem" /\ ChildRuns(s) /\ child[s].busy
    /\ child' = [child EXCEPT ![s].busy = FALSE]
    /\ \E bad, outage \in BOOLEAN :
         /\ outage => bad
         /\ src' = [src EXCEPT ![s].left = @ - 1, ![s].bad = @ \/ bad]
         /\ Go(s, IF outage THEN "t_outage" ELSE "t_loop")
    /\ KeepList /\ Rest

ChildEndsQueue(s) ==
    /\ At(s, "t_go") /\ ~child[s].full /\ src[s].left = 0
    /\ \E state \in {"completed", "completed_with_issues", "needs_attention"} :
         /\ (state = "completed") = ~src[s].bad
         /\ child' = [child EXCEPT ![s].state = state]
         /\ Go(s, "t_read")
    /\ KeepList /\ UNCHANGED src /\ Rest

ChildLosesAccess(s) ==
    /\ At(s, "t_step") /\ mode = "onprem" /\ ChildRuns(s)
    /\ child' = [child EXCEPT ![s].state = "awaiting_credentials", ![s].resume = "running"]
    /\ Go(s, "t_read")
    /\ KeepList /\ UNCHANGED src /\ Rest

\* What the thread reads of the child after the step goes into the source's row, then
\* the list's.
ReadChild(s) ==
    /\ At(s, "t_read")
    /\ IF child[s].state = "running" THEN Go(s, "t_loop")
       ELSE GoSeeing(s, "t_note", child[s].state)
    /\ KeepList /\ UNCHANGED <<src, child>> /\ Rest
NoteChild(s) ==
    /\ At(s, "t_note")
    /\ LET seen == thread[s].seen
       IN /\ src' = [src EXCEPT ![s].state =
                IF seen = "needs_attention" THEN "completed_with_issues" ELSE seen]
          /\ IF seen \in {"paused", "awaiting_credentials"}
             THEN GoSeeing(s, "t_list", seen) ELSE Go(s, "t_fin")
    /\ KeepList /\ UNCHANGED child /\ Rest
NoteList(s) ==
    /\ At(s, "t_list")
    /\ Update([list EXCEPT !.state = thread[s].seen, !.resume = "running",
                           !.outage = @ /\ thread[s].seen = "paused"])
    /\ Go(s, "t_fin")
    /\ UNCHANGED <<src, child>> /\ Rest

\* _pause_destination: the list is read, then it and its children are paused.
ReadOutage(s) ==
    /\ At(s, "t_outage")
    /\ Go(s, IF list.state = "running" THEN "t_outset" ELSE "t_outsrc")
    /\ KeepList /\ UNCHANGED <<src, child>> /\ Rest
PauseDestination(s) ==
    /\ At(s, "t_outset")
    /\ Update([list EXCEPT !.state = "paused", !.resume = "running", !.outage = TRUE])
    /\ PauseChildren
    /\ Go(s, "t_outsrc")
    /\ UNCHANGED src /\ Rest
PauseSource(s) ==
    /\ At(s, "t_outsrc")
    /\ src' = [src EXCEPT ![s].state = "paused"]
    /\ Go(s, "t_fin")
    /\ KeepList /\ UNCHANGED child /\ Rest

\* except Interrupted: the list is read, then the source is written.
TransferInterrupted(s) ==
    /\ At(s, "t_int")
    /\ GoSeeing(s, "t_intset", list.state)
    /\ KeepList /\ UNCHANGED <<src, child>> /\ Rest
TransferInterruptedSource(s) ==
    /\ At(s, "t_intset")
    /\ src' = [src EXCEPT ![s].state = IF thread[s].seen = "stopped" THEN "stopped" ELSE "paused"]
    /\ Go(s, "t_fin")
    /\ KeepList /\ UNCHANGED child /\ Rest

\* Seeded defect: the source is left as it is.
TransferFailedMutely(s) ==
    /\ At(s, "t_exc")
    /\ Go(s, IF thread[s].seen = "auth" THEN "t_auth" ELSE "t_fin")
    /\ KeepList /\ UNCHANGED <<src, child>> /\ Rest

\* except Exception: the source is written, then, for credentials, the list.
TransferFailed(s) ==
    /\ At(s, "t_exc")
    /\ src' = [src EXCEPT ![s].state = "error"]
    /\ Go(s, IF thread[s].seen = "auth" THEN "t_auth" ELSE "t_fin")
    /\ KeepList /\ UNCHANGED child /\ Rest
TransferUnauthorised(s) ==
    /\ At(s, "t_auth")
    /\ Update([list EXCEPT !.state = "awaiting_credentials", !.resume = "running",
                           !.outage = FALSE])
    /\ Go(s, "t_fin")
    /\ UNCHANGED <<src, child>> /\ Rest

\* finally.
TransferEnds(s) ==
    /\ At(s, "t_fin")
    /\ child' = IF HasChild(s) /\ list.state = "stopped"
                THEN [child EXCEPT ![s] = Halted(@)] ELSE child
    /\ Go(s, "done")
    /\ KeepList /\ UNCHANGED src /\ Rest

----------------------------------------------------------------------------
(* A crash and the restart: MigrationStore.recover and BatchStore.recover. *)

RecoveredChild(c) ==
    IF c.full \/ c.state \notin {"queued", "planning", "ready", "running", "paused",
                                 "needs_attention"} THEN c
    ELSE [c EXCEPT !.state = "awaiting_credentials",
                   !.resume = IF c.state = "planning" THEN "queued" ELSE c.state]
RecoveredSource(r) ==
    [r EXCEPT !.state = IF @ = "planning" /\ ~r.planned THEN "pending"
                        ELSE IF @ = "running" THEN "paused" ELSE @]

\* Seeded defect: a list that was running goes on by itself.
RecoveredBlind(l) == l

RecoveredList(l) ==
    IF l.state \notin {"planning", "running", "ready", "paused"} THEN l
    ELSE [l EXCEPT !.state = "awaiting_credentials", !.outage = FALSE,
                   !.resume = IF l.state = "paused" THEN @ ELSE l.state]

\* The start of the transfer can be cut after any of its sources.
Crash ==
    /\ budget.crashes > 0
    /\ budget' = [budget EXCEPT !.crashes = @ - 1]
    /\ \E S \in SUBSET Selected :
         /\ S # {} => mode = "onprem" /\ GuardFree /\ CanStart /\ RestoredGroupOK
         /\ src' = [s \in Sources |-> RecoveredSource(IF s \in S THEN StartedSource(src[s])
                                                      ELSE src[s])]
         /\ child' = [s \in Sources |-> RecoveredChild(IF s \in S
                        THEN StartedChild(src[s], child[s]) ELSE child[s])]
    /\ list' = RecoveredList(list)
    /\ thread' = [s \in Sources |-> Idle]
    /\ loop' = [pc |-> "top", seen |-> "-"]
    /\ check' = NoCheck /\ asked' = FALSE /\ creds' = FALSE
    /\ retry' = [s \in Sources |-> "no"]
    /\ word' = "crash"
    /\ UNCHANGED mode

----------------------------------------------------------------------------

Planning(s) ==
    \/ PlanEnter(s) \/ PlanBegin(s) \/ PlanDescribe(s) \/ PlanRetire(s) \/ PlanMake(s)
    \/ PlanCreate(s) \/ PlanScanLocal(s) \/ PlanScanChild(s) \/ PlanCommit(s)
    \/ PlanTurned(s) \/ PlanFails(s)
    \/ PlanTooLarge(s) \/ PlanInterrupted(s) \/ PlanInterruptedChild(s) \/ PlanFailed(s)
    \/ PlanFailedChild(s) \/ PlanEnds(s)
ChildStep(s) ==
    \/ ChildIdle(s) \/ ChildPauses(s) \/ ChildPaused(s) \/ ChildGoes(s) \/ ChildCut(s)
    \/ ChildBegins(s) \/ ChildEndsObject(s) \/ ChildEndsQueue(s) \/ ChildLosesAccess(s)
Transfer(s) ==
    \/ TransferEnter(s) \/ TransferLoop(s) \/ TransferTurned(s) \/ CopyLocal(s)
    \/ CopyLocalEnds(s) \/ ChildStep(s) \/ ReadChild(s) \/ NoteChild(s) \/ NoteList(s)
    \/ ReadOutage(s) \/ PauseDestination(s) \/ PauseSource(s) \/ TransferInterrupted(s)
    \/ TransferInterruptedSource(s) \/ TransferFailed(s) \/ TransferUnauthorised(s)
    \/ TransferEnds(s)
Coordinator == BeginPass \/ Pass \/ FinishPlanning
UserRequests ==
    \/ Plan(Sources) \/ (\E s \in Sources : Plan({s}))
    \/ (\E S \in SUBSET Sources : Selection(S))
    \/ (\E s \in Sources, plan \in Plans \ {"none"} : EntrySelection(s, plan))
    \/ StartTransfer \/ Pause \/ Resume \/ Stop \/ AttachCredentials
    \/ (\E s \in Sources : PrepareChildRetry(s))
Handlers == FinishSelection \/ (\E s \in Sources : QueueChildRetry(s) \/ ActivateChildRetry(s))

Next ==
    \/ Coordinator \/ EndCheck \/ Handlers \/ UserRequests \/ Crash
    \/ \E s \in Sources : Planning(s) \/ Transfer(s)

\* The threads run, and the calls they make end: checks, requests to the servers.  The
\* coordinator waits 0.2 s between two passes: who waits for the guard then has it.
Fairness ==
    /\ WF_vars(Coordinator) /\ SF_vars(EndCheck) /\ SF_vars(FinishSelection)
    /\ \A s \in Sources :
          /\ SF_vars(Planning(s)) /\ WF_vars(Transfer(s))
          /\ WF_vars(QueueChildRetry(s)) /\ SF_vars(ActivateChildRetry(s))

Spec == Init /\ [][Next]_vars
FairSpec == Spec /\ Fairness

----------------------------------------------------------------------------
(* Properties. *)

TypeOK ==
    /\ mode \in Modes
    /\ list \in [state : ListStates, resume : ListStates \cup {"none"}, started : BOOLEAN,
                 outage : BOOLEAN]
    /\ src \in [Sources -> [state : SourceStates, selected : BOOLEAN, planned : BOOLEAN,
                            plan : Plans, fixable : BOOLEAN, left : 0..Objects, bad : BOOLEAN]]
    /\ child \in [Sources -> [state : ChildStates, resume : ChildStates, pause : BOOLEAN,
                              full : BOOLEAN, planned : BOOLEAN, busy : BOOLEAN]]
    /\ thread \in [Sources -> [pc : PlanPCs \cup TransferPCs \cup {"none", "done", "raised"},
                               seen : Seen]]
    /\ loop \in [pc : {"top", "pass", "finish", "check", "dead"}, seen : Seen]
    /\ check \in [on : BOOLEAN, fresh : BOOLEAN, ok : BOOLEAN, of : SUBSET Sources]
    /\ {asked, creds} \subseteq BOOLEAN
    /\ word \in {"none", "pause", "stop", "crash"}
    /\ retry \in [Sources -> {"no", "prepared", "queued"}]
    /\ budget \in [requests : 0..MaxRequests, crashes : 0..MaxCrashes]

\* A list runs, and threads transfer its sources, only once its transfer was started; and
\* what is started has complete plans without conflicts of every source it includes.
StartsComplete ==
    /\ list.state = "running" \/ (\E s \in Sources : thread[s].pc \in TransferPCs)
          => list.started
    /\ list.started => \A s \in Selected : src[s].planned /\ src[s].plan \in {"clean", "empty"}

\* A check that makes the list ready has checked the sources that are included by then.
VerdictIsCurrent == [][list.state = "planning" /\ list'.state = "ready" =>
    check.of = Selected]_vars

\* No child is left behind by a new plan: the one replaced is stopped, paths released.
ReplacedIsStopped == [][\A s \in Sources :
    /\ HasChild(s) /\ thread[s].pc = "p_create" /\ thread'[s].pc = "p_scan"
    => child[s].state = "stopped" /\ child[s].full]_vars

\* From the answer to a pause until the user resumes or retries, no thread takes up another
\* object; the one a step was about to begin is begun.
PausedBeginsNothing == [][word = "pause" =>
    \A s \in Sources : /\ thread'[s].pc = "t_go" => thread[s].pc = "t_go"
                       /\ child'[s].busy /\ ~child[s].busy => thread[s].pc = "t_go"]_vars

\* Once a request to stop is answered, every child that no thread is about to stop is
\* being stopped.
ObeyedStopReaches ==
    word = "stop" /\ list.state = "stopped" =>
        \A s \in Sources : HasChild(s) /\ Over(s) => child[s].full

\* Nothing runs by itself after a crash: the credentials given again are not enough, the
\* user has to resume, to start, to plan or to retry.  Except that a completed list is
\* reopened for a child that runs, and one that was being stopped may be left so.
NothingRunsUnasked == word = "crash" =>
    /\ list.state = "running" => \E s \in Sources : child[s].full
    /\ \A s \in Active : child[s].full

\* An error of one source ends the planning of that source only: the thread that serves
\* every list goes on.  It does not (docs/ONPREM.md says so of the other sources).
CoordinatorSurvives == loop.pc # "dead"

\* The three ways in which the code leaves a list where it is: the coordinator thread is
\* gone; a thread that was told to pause has written so after the list was resumed; the
\* list was stopped, set running again, and its child does no more steps.
Lost ==
    \/ loop.pc = "dead"
    \/ list.state = "running" /\ \E s \in Selected : src[s].state = "paused" /\ Over(s)
    \/ list.state = "running" /\ \E s \in Selected : child[s].full

\* A list that is planned, or runs, comes to rest, unless it is lost.
ComesToRest == list.state \in {"planning", "running"} ~>
                    list.state \notin {"planning", "running"} \/ Lost
=============================================================================
