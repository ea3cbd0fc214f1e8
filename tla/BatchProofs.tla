---------------------------- MODULE BatchProofs ----------------------------
(***************************************************************************)
(* Theorems of BatchCoordinator, for any sources, modes, limits, sizes and *)
(* bounds.  They rest on one inductive invariant, IInv: the types, what    *)
(* the list, the coordinator and the check say of each other, and          *)
(* SourceFits, what the row, the child and the thread of one source say of *)
(* each other and of the list.  A step of a thread changes one source: it  *)
(* is enough that the new rows fit (OneSourceMoves).                       *)
(***************************************************************************)
EXTENDS BatchCoordinator, TLAPS

----------------------------------------------------------------------------
(* The inductive invariant. *)

ListRows == [state : ListStates, resume : ListStates \cup {"none"}, started : BOOLEAN,
             outage : BOOLEAN]
SourceRows == [state : SourceStates, selected : BOOLEAN, planned : BOOLEAN, plan : Plans,
               fixable : BOOLEAN, left : 0..Objects, bad : BOOLEAN]
ChildRows == [state : ChildStates, resume : ChildStates, pause : BOOLEAN, full : BOOLEAN,
              planned : BOOLEAN, busy : BOOLEAN]
ThreadRows == [pc : PlanPCs \cup TransferPCs \cup {"none", "done", "raised"}, seen : Seen]

UnstartedStates == {"draft", "planning", "ready", "needs_attention"}
Halts == {"paused", "awaiting_credentials", "stopped"}
\* Where a child is before its inventory is complete.
Unplannable == {"none", "queued", "planning"}
\* A thread that plans and has not yet written how the planning came out.
Unwritten == PlanPCs \ {"p_excchild", "p_fin"}
\* A thread that plans and looks for a stop of the list before it ends.
LooksForStop == {"p_scan", "p_commit", "p_int", "p_intchild", "p_exc", "p_excchild", "p_fin"}
\* Where only a thread of a source with a child is.
ChildPCs == {"p_retire", "p_make", "p_create", "p_intchild", "p_excchild", "t_go", "t_pausing",
             "t_read", "t_note", "t_list", "t_outage", "t_outset", "t_outsrc"}

\* A list that was started can only be resumed to run; the fence of a check holds as
\* long as the list can be checked and the same sources are included.
ListInv ==
    /\ list.started <=> list.resume = "running"
    /\ list.started => list.state \notin UnstartedStates
    /\ list.state = "running" => list.started
    /\ loop.pc = "pass" /\ loop.seen = "running" => list.started
    /\ check.on /\ check.fresh => list.state \in UnstartedStates /\ check.of = Selected

\* The plan in the row of a source, r, that of its child, c, and the thread, t, that plans.
PlanFits(m, r, c, t) ==
    /\ r.state \in {"pending", "planning"} => ~r.planned
    /\ t.pc \in Unwritten => ~r.planned
    /\ r.planned \/ c.planned => r.plan # "none"
    /\ m = "onprem" /\ r.planned => c.planned
    /\ t.pc = "p_commit" => r.plan # "none" /\ (m = "onprem" => c.planned)
    /\ c.planned => c.state \notin Unplannable
    /\ c.planned \/ t.pc = "p_scan" => c.resume \notin {"queued", "planning"}
    /\ c.resume # "completed"
    /\ t.pc \in {"p_make", "p_create"} /\ c.state # "none" => c.full /\ c.state = "stopped"

\* A list that is copied locally has no children.
ModeFits(m, q, c, t) ==
    m = "local" => c = NoChild /\ t.pc \notin ChildPCs /\ q = "no"

\* What is started: the list, l, a retry, q, and the thread that transfers.
WorkFits(m, l, q, r, c, t) ==
    /\ t.pc \in TransferPCs => l.started /\ r.selected
    /\ q # "no" => l.started /\ r.selected
    /\ l.started /\ r.selected => r.planned /\ r.plan \in {"clean", "empty"}
    /\ t.pc = "t_step" /\ m = "local" => r.left > 0
    /\ c.busy => l.started /\ r.left > 0
    /\ t.pc = "t_note" => t.seen \in ChildStates \ (Unplannable \cup {"running"})
    /\ t.pc = "t_list" => t.seen \in {"paused", "awaiting_credentials"}

\* What the answer to a pause or to a stop, w, leaves behind.
WordFits(l, w, r, c, t) ==
    /\ w = "pause" /\ t.pc = "t_step" /\ c.state = "running" => c.pause
    /\ w = "stop" /\ c.state # "none" /\ ~c.full =>
          /\ c.state # "completed"
          /\ ~(l.started /\ r.selected)
          /\ l.state = "stopped" => t.pc \in LooksForStop

SourceFits(m, l, w, q, r, c, t) ==
    /\ PlanFits(m, r, c, t)
    /\ ModeFits(m, q, c, t)
    /\ WorkFits(m, l, q, r, c, t)
    /\ WordFits(l, w, r, c, t)

SourceInv(s) == SourceFits(mode, list, word, retry[s], src[s], child[s], thread[s])

\* After the answer the list waits, and what has not been started is not waiting for
\* credentials, nor for anything once it is stopped.
WordInv ==
    /\ word = "pause" =>
          /\ list.state \in Halts
          /\ list.state = "awaiting_credentials" => list.started
          /\ loop.pc = "pass" => loop.seen \in Halts
    /\ word = "stop" /\ list.state # "stopped" => list.started

IInv == TypeOK /\ ListInv /\ WordInv /\ \A s \in Sources : SourceInv(s)

----------------------------------------------------------------------------
(* Rows and their types. *)

LEMMA RowsTyped ==
    ASSUME TypeOK, NEW s \in Sources
    PROVE  /\ src[s] \in SourceRows
           /\ child[s] \in ChildRows
           /\ thread[s] \in ThreadRows
BY DEF TypeOK, SourceRows, ChildRows, ThreadRows

\* Writing a row back changes nothing.
LEMMA SameRows ==
    ASSUME TypeOK, NEW s \in Sources
    PROVE  /\ src = [src EXCEPT ![s] = src[s]]
           /\ child = [child EXCEPT ![s] = child[s]]
           /\ thread = [thread EXCEPT ![s] = thread[s]]
BY DEF TypeOK

\* The rows of one source change, and nothing else.
Moves(s, r, c, t) ==
    /\ src' = [src EXCEPT ![s] = r]
    /\ child' = [child EXCEPT ![s] = c]
    /\ thread' = [thread EXCEPT ![s] = t]
    /\ UNCHANGED <<mode, list, loop, check, asked, creds, retry, word, budget>>

LEMMA OneSourceMoves ==
    ASSUME IInv, NEW s \in Sources,
           NEW r \in SourceRows, NEW c \in ChildRows, NEW t \in ThreadRows,
           Moves(s, r, c, t),
           r.selected = src[s].selected,
           SourceFits(mode, list, word, retry[s], r, c, t)
    PROVE  IInv'
<1>1. TypeOK'
  <2>1. /\ src' \in [Sources -> SourceRows]
        /\ child' \in [Sources -> ChildRows]
        /\ thread' \in [Sources -> ThreadRows]
    BY DEF IInv, TypeOK, Moves, SourceRows, ChildRows, ThreadRows
  <2> QED
    BY <2>1 DEF IInv, TypeOK, Moves, SourceRows, ChildRows, ThreadRows
<1>2. \A u \in Sources : src'[u].selected = src[u].selected
  BY DEF IInv, TypeOK, Moves
<1>3. ListInv'
  BY <1>2 DEF IInv, ListInv, Moves, Selected
<1>4. WordInv'
  BY DEF IInv, WordInv, Moves
<1>5. ASSUME NEW u \in Sources PROVE SourceInv(u)'
  <2>1. CASE u = s
    <3>1. src'[u] = r /\ child'[u] = c /\ thread'[u] = t
      BY <2>1 DEF IInv, TypeOK, Moves
    <3> QED
      BY <2>1, <3>1 DEF SourceInv, Moves
  <2>2. CASE u # s
    <3>1. src'[u] = src[u] /\ child'[u] = child[u] /\ thread'[u] = thread[u]
      BY <2>2 DEF IInv, TypeOK, Moves
    <3> QED
      BY <3>1 DEF IInv, SourceInv, Moves
  <2> QED
    BY <2>1, <2>2
<1> QED
  BY <1>1, <1>3, <1>4, <1>5 DEF IInv

----------------------------------------------------------------------------
(* The threads that plan. *)

\* The child after request_full_stop and stop_job.
Retired(c) == IF c.state # "none" /\ Stoppable(c) THEN FullyStopped(c) ELSE c

LEMMA StopChildRetires ==
    ASSUME TypeOK, NEW s \in Sources, StopChild(s)
    PROVE  child' = [child EXCEPT ![s] = Retired(child[s])]
BY SameRows DEF StopChild, Retired, HasChild

LEMMA RetiredRow ==
    ASSUME NEW c \in ChildRows
    PROVE  /\ Retired(c) \in ChildRows
           /\ Retired(c).planned = c.planned /\ Retired(c).busy = c.busy
           /\ c.state # "none" /\ Stoppable(c) =>
                 /\ Retired(c).state = "stopped" /\ Retired(c).resume = "none"
                 /\ Retired(c).full
           /\ c.state = "none" \/ ~Stoppable(c) => Retired(c) = c
BY DEF Retired, FullyStopped, Halted, Stoppable, ChildRows, ChildStates, Terminal

LEMMA PlanningBegins ==
    ASSUME IInv, NEW s \in Sources,
           PlanEnter(s) \/ PlanBegin(s) \/ PlanDescribe(s) \/ PlanRetire(s)
              \/ PlanMake(s)
    PROVE  IInv'
<1> DEFINE r == src[s]
           c == child[s]
           t == thread[s]
           Seeing(pc, seen) == [pc |-> pc, seen |-> seen]
           Now(pc) == Seeing(pc, "-")
<1>1. SourceFits(mode, list, word, retry[s], r, c, t) /\ mode \in {"local", "onprem"}
  BY BatchAssumption DEF IInv, SourceInv, TypeOK
<1>2. r \in SourceRows /\ c \in ChildRows /\ t \in ThreadRows
  BY RowsTyped DEF IInv
<1>3. \A pc \in PlanPCs \cup TransferPCs \cup {"done", "raised"}, seen \in Seen :
          Seeing(pc, seen) \in ThreadRows
  BY DEF ThreadRows
<1>4. src = [src EXCEPT ![s] = r] /\ child = [child EXCEPT ![s] = c]
  BY SameRows DEF IInv
<1> USE DEF Go, GoSeeing, Rest, Frame, KeepList, At, HasChild
<1>5. CASE PlanEnter(s)
  <2>1. Moves(s, r, c, Now("p_lease"))
    BY <1>5, <1>4 DEF PlanEnter, Moves
  <2>2. SourceFits(mode, list, word, retry[s], r, c, Now("p_lease"))
    BY <1>5, <1>1, <1>2
    DEF PlanEnter,
         SourceFits, PlanFits, ModeFits, WorkFits, WordFits, Unwritten, LooksForStop,
         PlanPCs, TransferPCs, ChildPCs, Unplannable
  <2>4. Now("p_lease") \in ThreadRows
    BY <1>3 DEF PlanPCs, TransferPCs, Seen
  <2> QED
    BY <2>1, <2>2, <2>4, <1>2, OneSourceMoves
<1>6. CASE PlanBegin(s)
  <2> DEFINE rr == Begun(r)
  <2>1. Moves(s, rr, c, Now("p_describe"))
    BY <1>6, <1>4 DEF PlanBegin, Moves
  <2>2. SourceFits(mode, list, word, retry[s], rr, c, Now("p_describe"))
    BY <1>6, <1>1, <1>2
    DEF PlanBegin, Begun, Passes, IInv, ListInv, SourceRows, UnstartedStates, NoChild,
         SourceFits, PlanFits, ModeFits, WorkFits, WordFits, Unwritten, LooksForStop,
         PlanPCs, TransferPCs, ChildPCs, Unplannable
  <2>3. rr \in SourceRows /\ rr.selected = r.selected
    BY <1>6, <1>1, <1>2 DEF PlanBegin, Begun, SourceRows, SourceStates, Plans, Terminal
  <2>4. Now("p_describe") \in ThreadRows
    BY <1>3 DEF PlanPCs, TransferPCs, Seen
  <2> QED
    BY <2>1, <2>2, <2>3, <2>4, <1>2, OneSourceMoves
<1>7. CASE PlanDescribe(s)
  <2> DEFINE tt == Now(IF mode = "local" THEN "p_scan"
                       ELSE IF c.state # "none" THEN "p_retire" ELSE "p_make")
  <2>1. Moves(s, r, c, tt)
    BY <1>7, <1>4 DEF PlanDescribe, Moves
  <2>2. SourceFits(mode, list, word, retry[s], r, c, tt)
    BY <1>7, <1>1, <1>2
    DEF PlanDescribe, NoChild,
         SourceFits, PlanFits, ModeFits, WorkFits, WordFits, Unwritten, LooksForStop,
         PlanPCs, TransferPCs, ChildPCs, Unplannable
  <2>4. tt \in ThreadRows
    BY <1>3 DEF PlanPCs, TransferPCs, Seen
  <2> QED
    BY <2>1, <2>2, <2>4, <1>2, OneSourceMoves
<1>8. CASE PlanRetire(s)
  <2> DEFINE tt == Now(IF Stoppable(c) THEN "p_make" ELSE "p_exc")
  <2>1. Moves(s, r, Retired(c), tt)
    BY <1>8, <1>4, StopChildRetires DEF PlanRetire, IInv, Moves
  <2>2. SourceFits(mode, list, word, retry[s], r, Retired(c), tt)
    BY <1>8, <1>1, <1>2, RetiredRow
    DEF PlanRetire, Stoppable,
         SourceFits, PlanFits, ModeFits, WorkFits, WordFits, Unwritten, LooksForStop,
         PlanPCs, TransferPCs, ChildPCs, Unplannable
  <2>3. Retired(c) \in ChildRows
    BY <1>8, <1>1, <1>2, RetiredRow DEF PlanRetire, ChildRows, ChildStates, Terminal
  <2>4. tt \in ThreadRows
    BY <1>3 DEF PlanPCs, TransferPCs, Seen
  <2> QED
    BY <2>1, <2>2, <2>3, <2>4, <1>2, OneSourceMoves
<1>9. CASE PlanMake(s)
  <2>1. Moves(s, r, c, Now("p_create"))
    BY <1>9, <1>4 DEF PlanMake, Moves
  <2>2. SourceFits(mode, list, word, retry[s], r, c, Now("p_create"))
    BY <1>9, <1>1, <1>2
    DEF PlanMake,
         SourceFits, PlanFits, ModeFits, WorkFits, WordFits, Unwritten, LooksForStop,
         PlanPCs, TransferPCs, ChildPCs, Unplannable
  <2>4. Now("p_create") \in ThreadRows
    BY <1>3 DEF PlanPCs, TransferPCs, Seen
  <2> QED
    BY <2>1, <2>2, <2>4, <1>2, OneSourceMoves
<1> QED
  BY <1>5, <1>6, <1>7, <1>8, <1>9

LEMMA PlanningScans ==
    ASSUME IInv, NEW s \in Sources,
           PlanCreate(s) \/ PlanScanLocal(s) \/ PlanScanChild(s) \/ PlanCommit(s)
              \/ PlanFails(s) \/ PlanTurned(s) \/ PlanTooLarge(s)
    PROVE  IInv'
<1> DEFINE r == src[s]
           c == child[s]
           t == thread[s]
           Seeing(pc, seen) == [pc |-> pc, seen |-> seen]
           Now(pc) == Seeing(pc, "-")
<1>1. SourceFits(mode, list, word, retry[s], r, c, t) /\ mode \in {"local", "onprem"}
  BY BatchAssumption DEF IInv, SourceInv, TypeOK
<1>2. r \in SourceRows /\ c \in ChildRows /\ t \in ThreadRows
  BY RowsTyped DEF IInv
<1>3. \A pc \in PlanPCs \cup TransferPCs \cup {"done", "raised"}, seen \in Seen :
          Seeing(pc, seen) \in ThreadRows
  BY DEF ThreadRows
<1>4. src = [src EXCEPT ![s] = r] /\ child = [child EXCEPT ![s] = c]
  BY SameRows DEF IInv
<1> USE DEF Go, GoSeeing, Rest, Frame, KeepList, At, HasChild
<1>5. CASE PlanCreate(s)
  <2> DEFINE rr == [r EXCEPT !.plan = "none"]
             cc == [NoChild EXCEPT !.state = "planning"]
  <2>1. Moves(s, rr, cc, Now("p_scan"))
    BY <1>5, <1>4 DEF PlanCreate, Moves
  <2>2. SourceFits(mode, list, word, retry[s], rr, cc, Now("p_scan"))
    BY <1>5, <1>1, <1>2
    DEF PlanCreate, NoChild, SourceRows,
         SourceFits, PlanFits, ModeFits, WorkFits, WordFits, Unwritten, LooksForStop,
         PlanPCs, TransferPCs, ChildPCs, Unplannable
  <2>3. rr \in SourceRows /\ rr.selected = r.selected /\ cc \in ChildRows
    BY <1>5, <1>1, <1>2
       DEF PlanCreate, NoChild, SourceRows, SourceStates, Plans, Terminal, ChildRows,
           ChildStates
  <2>4. Now("p_scan") \in ThreadRows
    BY <1>3 DEF PlanPCs, TransferPCs, Seen
  <2> QED
    BY <2>1, <2>2, <2>3, <2>4, <1>2, OneSourceMoves
<1>6. CASE PlanScanLocal(s)
  <2>1. PICK plan \in Plans \ {"none"} : src' = [src EXCEPT ![s].plan = plan]
    BY <1>6 DEF PlanScanLocal
  <2> DEFINE rr == [r EXCEPT !.plan = plan]
  <2>2. Moves(s, rr, c, Now("p_commit"))
    BY <1>6, <2>1, <1>4 DEF PlanScanLocal, Moves
  <2>3. SourceFits(mode, list, word, retry[s], rr, c, Now("p_commit"))
    BY <1>6, <1>1, <1>2
       DEF PlanScanLocal, Passes, IInv, ListInv, UnstartedStates, NoChild, SourceRows,
         SourceFits, PlanFits, ModeFits, WorkFits, WordFits, Unwritten, LooksForStop,
         PlanPCs, TransferPCs, ChildPCs, Unplannable
  <2>4. rr \in SourceRows /\ rr.selected = r.selected /\ Now("p_commit") \in ThreadRows
    BY <1>2, <1>3 DEF SourceRows, PlanPCs, Seen
  <2> QED
    BY <2>2, <2>3, <2>4, <1>2, OneSourceMoves
<1>7. CASE PlanScanChild(s)
  <2>1. PICK plan \in Plans \ {"none"} :
             /\ src' = [src EXCEPT ![s].plan = plan]
             /\ child' = [child EXCEPT ![s].planned = TRUE,
                    ![s].state = IF plan = "conflicts" THEN "needs_attention" ELSE "ready"]
    BY <1>7 DEF PlanScanChild
  <2> DEFINE rr == [r EXCEPT !.plan = plan]
             cc == [c EXCEPT !.planned = TRUE,
                             !.state = IF plan = "conflicts" THEN "needs_attention" ELSE "ready"]
  <2>2. child' = [child EXCEPT ![s] = cc]
    BY <2>1, <1>2 DEF IInv, TypeOK, ChildRows
  <2>3. Moves(s, rr, cc, Now("p_commit"))
    BY <1>7, <2>1, <2>2 DEF PlanScanChild, Moves
  <2>4. SourceFits(mode, list, word, retry[s], rr, cc, Now("p_commit"))
    BY <1>7, <1>1, <1>2
       DEF PlanScanChild, Passes, IInv, ListInv, WordInv, Halts, UnstartedStates, NoChild,
         SourceRows, ChildRows,
         SourceFits, PlanFits, ModeFits, WorkFits, WordFits, Unwritten, LooksForStop,
         PlanPCs, TransferPCs, ChildPCs, Unplannable
  <2>5. rr \in SourceRows /\ rr.selected = r.selected /\ cc \in ChildRows
        /\ Now("p_commit") \in ThreadRows
    BY <1>2, <1>3 DEF SourceRows, ChildRows, ChildStates, Terminal, PlanPCs, Seen
  <2> QED
    BY <2>3, <2>4, <2>5, <1>2, OneSourceMoves
<1>8. CASE PlanCommit(s)
  <2> DEFINE rr == [Planned(r, r.plan) EXCEPT !.planned = TRUE]
  <2>1. Moves(s, rr, c, Now("p_fin"))
    BY <1>8, <1>4 DEF PlanCommit, Moves
  <2>2. SourceFits(mode, list, word, retry[s], rr, c, Now("p_fin"))
    BY <1>8, <1>1, <1>2
    DEF PlanCommit, Passes, Planned, IInv, ListInv, UnstartedStates, NoChild, SourceRows,
         SourceFits, PlanFits, ModeFits, WorkFits, WordFits, Unwritten, LooksForStop,
         PlanPCs, TransferPCs, ChildPCs, Unplannable
  <2>3. rr \in SourceRows /\ rr.selected = r.selected
    BY <1>8, <1>1, <1>2 DEF PlanCommit, Planned, SourceRows, SourceStates, Plans, Terminal
  <2>4. Now("p_fin") \in ThreadRows
    BY <1>3 DEF PlanPCs, TransferPCs, Seen
  <2> QED
    BY <2>1, <2>2, <2>3, <2>4, <1>2, OneSourceMoves
<1>9. CASE PlanFails(s)
  <2>1. Moves(s, r, c, Now("p_exc"))
    BY <1>9, <1>4 DEF PlanFails, Moves
  <2>2. SourceFits(mode, list, word, retry[s], r, c, Now("p_exc"))
    BY <1>9, <1>1, <1>2
    DEF PlanFails,
         SourceFits, PlanFits, ModeFits, WorkFits, WordFits, Unwritten, LooksForStop,
         PlanPCs, TransferPCs, ChildPCs, Unplannable
  <2>4. Now("p_exc") \in ThreadRows
    BY <1>3 DEF PlanPCs, TransferPCs, Seen
  <2> QED
    BY <2>1, <2>2, <2>4, <1>2, OneSourceMoves
<1>10. CASE PlanTurned(s)
  <2> DEFINE tt == Seeing(IF list.state # "planning"
                          THEN "p_int" ELSE "p_exc", "auth")
  <2>1. Moves(s, r, c, tt)
    BY <1>10, <1>4 DEF PlanTurned, Turned, Moves
  <2>2. SourceFits(mode, list, word, retry[s], r, c, tt)
    BY <1>10, <1>1, <1>2
    DEF PlanTurned,
         SourceFits, PlanFits, ModeFits, WorkFits, WordFits, Unwritten, LooksForStop,
         PlanPCs, TransferPCs, ChildPCs, Unplannable
  <2>4. tt \in ThreadRows
    BY <1>3 DEF PlanPCs, TransferPCs, Seen
  <2> QED
    BY <2>1, <2>2, <2>4, <1>2, OneSourceMoves
<1>11. CASE PlanTooLarge(s)
  <2> DEFINE rr == [r EXCEPT !.plan = "clean"]
             cc == [c EXCEPT !.planned = TRUE, !.state = "needs_attention"]
  <2>1. Moves(s, rr, cc, Seeing("p_exc", "needs_attention"))
    BY <1>11, <1>4 DEF PlanTooLarge, Moves
  <2>2. SourceFits(mode, list, word, retry[s], rr, cc, Seeing("p_exc", "needs_attention"))
    BY <1>11, <1>1, <1>2
    DEF PlanTooLarge, Passes, IInv, ListInv, WordInv, Halts, UnstartedStates, NoChild,
        SourceRows, ChildRows,
         SourceFits, PlanFits, ModeFits, WorkFits, WordFits, Unwritten, LooksForStop,
         PlanPCs, TransferPCs, ChildPCs, Unplannable
  <2>3. rr \in SourceRows /\ rr.selected = r.selected /\ cc \in ChildRows
    BY <1>11, <1>1, <1>2
       DEF PlanTooLarge, SourceRows, SourceStates, Plans, Terminal, ChildRows, ChildStates
  <2>4. Seeing("p_exc", "needs_attention") \in ThreadRows
    BY <1>3 DEF PlanPCs, TransferPCs, Seen, ChildStates
  <2> QED
    BY <2>1, <2>2, <2>3, <2>4, <1>2, OneSourceMoves
<1> QED
  BY <1>5, <1>6, <1>7, <1>8, <1>9, <1>10, <1>11

LEMMA PlanningEnds ==
    ASSUME IInv, NEW s \in Sources,
           PlanInterrupted(s) \/ PlanInterruptedChild(s) \/ PlanFailed(s)
              \/ PlanFailedChild(s) \/ PlanEnds(s)
    PROVE  IInv'
<1> DEFINE r == src[s]
           c == child[s]
           t == thread[s]
           Seeing(pc, seen) == [pc |-> pc, seen |-> seen]
           Now(pc) == Seeing(pc, "-")
<1>1. SourceFits(mode, list, word, retry[s], r, c, t) /\ mode \in {"local", "onprem"}
  BY BatchAssumption DEF IInv, SourceInv, TypeOK
<1>2. r \in SourceRows /\ c \in ChildRows /\ t \in ThreadRows
  BY RowsTyped DEF IInv
<1>3. \A pc \in PlanPCs \cup TransferPCs \cup {"done", "raised"}, seen \in Seen :
          Seeing(pc, seen) \in ThreadRows
  BY DEF ThreadRows
<1>4. src = [src EXCEPT ![s] = r] /\ child = [child EXCEPT ![s] = c]
  BY SameRows DEF IInv
<1> USE DEF Go, GoSeeing, Rest, Frame, KeepList, At, HasChild
<1>5. CASE PlanInterrupted(s)
  <2> DEFINE rr == [r EXCEPT !.state = IF list.state = "stopped" THEN "stopped" ELSE "pending"]
             tt == Now(IF c.state # "none" THEN "p_intchild" ELSE "p_fin")
  <2>1. Moves(s, rr, c, tt)
    BY <1>5, <1>4 DEF PlanInterrupted, Moves
  <2>2. SourceFits(mode, list, word, retry[s], rr, c, tt)
    BY <1>5, <1>1, <1>2
    DEF PlanInterrupted, NoChild, SourceRows,
         SourceFits, PlanFits, ModeFits, WorkFits, WordFits, Unwritten, LooksForStop,
         PlanPCs, TransferPCs, ChildPCs, Unplannable
  <2>3. rr \in SourceRows /\ rr.selected = r.selected
    BY <1>5, <1>1, <1>2 DEF PlanInterrupted, SourceRows, SourceStates, Plans, Terminal
  <2>4. tt \in ThreadRows
    BY <1>3 DEF PlanPCs, TransferPCs, Seen
  <2> QED
    BY <2>1, <2>2, <2>3, <2>4, <1>2, OneSourceMoves
<1>6. CASE PlanInterruptedChild(s)
  <2> DEFINE tt == Seeing("p_fin", IF Stoppable(c) THEN "-" ELSE "raise")
  <2>1. Moves(s, r, Retired(c), tt)
    BY <1>6, <1>4, StopChildRetires DEF PlanInterruptedChild, IInv, Moves
  <2>2. SourceFits(mode, list, word, retry[s], r, Retired(c), tt)
    BY <1>6, <1>1, <1>2, RetiredRow
    DEF PlanInterruptedChild, Stoppable,
         SourceFits, PlanFits, ModeFits, WorkFits, WordFits, Unwritten, LooksForStop,
         PlanPCs, TransferPCs, ChildPCs, Unplannable
  <2>3. Retired(c) \in ChildRows
    BY <1>6, <1>1, <1>2, RetiredRow DEF PlanInterruptedChild, ChildRows, ChildStates, Terminal
  <2>4. tt \in ThreadRows
    BY <1>3 DEF PlanPCs, TransferPCs, Seen
  <2> QED
    BY <2>1, <2>2, <2>3, <2>4, <1>2, OneSourceMoves
<1>7. CASE PlanFailed(s)
  <2> DEFINE rr == [r EXCEPT !.state = IF list.state = "stopped" THEN "stopped" ELSE "error",
                  !.fixable = list.state = "stopped" \/ thread[s].seen = "needs_attention",
                  !.planned = list.state # "stopped" /\ child[s].planned]
             tt == Now(IF c.state # "none" /\ list.state # "stopped" THEN "p_excchild" ELSE "p_fin")
  <2>1. Moves(s, rr, c, tt)
    BY <1>7, <1>4 DEF PlanFailed, Moves
  <2>2. SourceFits(mode, list, word, retry[s], rr, c, tt)
    BY <1>7, <1>1, <1>2
    DEF PlanFailed, NoChild, SourceRows, ChildRows, IInv, ListInv,
         SourceFits, PlanFits, ModeFits, WorkFits, WordFits, Unwritten, LooksForStop,
         PlanPCs, TransferPCs, ChildPCs, Unplannable
  <2>3. rr \in SourceRows /\ rr.selected = r.selected
    BY <1>7, <1>1, <1>2 DEF PlanFailed, SourceRows, SourceStates, Plans, Terminal
  <2>4. tt \in ThreadRows
    BY <1>3 DEF PlanPCs, TransferPCs, Seen
  <2> QED
    BY <2>1, <2>2, <2>3, <2>4, <1>2, OneSourceMoves
<1>8. CASE PlanFailedChild(s)
  <2>1. CASE Closed(c)
    <3>1. Moves(s, r, c, Seeing("p_fin", "raise"))
      BY <1>8, <2>1, <1>4 DEF PlanFailedChild, Moves
    <3>2. SourceFits(mode, list, word, retry[s], r, c, Seeing("p_fin", "raise"))
      BY <1>8, <1>1 DEF PlanFailedChild,
         SourceFits, PlanFits, ModeFits, WorkFits, WordFits, Unwritten, LooksForStop,
         PlanPCs, TransferPCs, ChildPCs, Unplannable
    <3>3. Seeing("p_fin", "raise") \in ThreadRows
      BY <1>3 DEF PlanPCs, Seen
    <3> QED
      BY <3>1, <3>2, <3>3, <1>2, OneSourceMoves
  <2>2. CASE ~Closed(c)
    <3> DEFINE cc == [c EXCEPT !.state = "needs_attention"]
    <3>1. Moves(s, r, cc, Now("p_fin"))
      BY <1>8, <2>2, <1>4 DEF PlanFailedChild, Moves
    <3>2. SourceFits(mode, list, word, retry[s], r, cc, Now("p_fin"))
      BY <1>8, <1>1, <1>2 DEF PlanFailedChild, ChildRows,
         SourceFits, PlanFits, ModeFits, WorkFits, WordFits, Unwritten, LooksForStop,
         PlanPCs, TransferPCs, ChildPCs, Unplannable
    <3>3. cc \in ChildRows /\ Now("p_fin") \in ThreadRows
      BY <1>2, <1>3 DEF ChildRows, ChildStates, PlanPCs, Seen
    <3> QED
      BY <3>1, <3>2, <3>3, <1>2, OneSourceMoves
  <2> QED
    BY <2>1, <2>2
<1>9. CASE PlanEnds(s)
  <2>1. CASE list.state = "stopped"
    <3> DEFINE rr == [r EXCEPT !.state = "stopped"]
               tt == Now(IF t.seen = "raise" \/ ~Stoppable(c) THEN "raised" ELSE "done")
    <3>1. Moves(s, rr, Retired(c), tt)
      BY <1>9, <2>1, StopChildRetires DEF PlanEnds, Moves, IInv
    <3>2. SourceFits(mode, list, word, retry[s], rr, Retired(c), tt)
      BY <1>9, <2>1, <1>1, <1>2, RetiredRow DEF PlanEnds, Stoppable, NoChild, SourceRows,
         SourceFits, PlanFits, ModeFits, WorkFits, WordFits, Unwritten, LooksForStop,
         PlanPCs, TransferPCs, ChildPCs, Unplannable
    <3>3. rr \in SourceRows /\ rr.selected = r.selected /\ tt \in ThreadRows
      BY <1>2, <1>3 DEF SourceRows, SourceStates, Terminal, Seen
    <3> QED
      BY <3>1, <3>2, <3>3, <1>2, RetiredRow, OneSourceMoves
  <2>2. CASE list.state # "stopped"
    <3> DEFINE tt == Now(IF t.seen = "raise" THEN "raised" ELSE "done")
    <3>1. Moves(s, r, c, tt)
      BY <1>9, <2>2, <1>4 DEF PlanEnds, Moves
    <3>2. SourceFits(mode, list, word, retry[s], r, c, tt)
      BY <1>9, <2>2, <1>1 DEF PlanEnds,
         SourceFits, PlanFits, ModeFits, WorkFits, WordFits, Unwritten, LooksForStop,
         PlanPCs, TransferPCs, ChildPCs, Unplannable
    <3>3. tt \in ThreadRows
      BY <1>3 DEF Seen
    <3> QED
      BY <3>1, <3>2, <3>3, <1>2, OneSourceMoves
  <2> QED
    BY <2>1, <2>2
<1> QED
  BY <1>5, <1>6, <1>7, <1>8, <1>9

----------------------------------------------------------------------------
(* The threads that transfer. *)

LEMMA TransferLoops ==
    ASSUME IInv, NEW s \in Sources,
           TransferEnter(s) \/ TransferLoop(s) \/ TransferTurned(s) \/ CopyLocal(s)
              \/ CopyLocalEnds(s)
    PROVE  IInv'
<1> DEFINE r == src[s]
           c == child[s]
           t == thread[s]
           Seeing(pc, seen) == [pc |-> pc, seen |-> seen]
           Now(pc) == Seeing(pc, "-")
<1>1. SourceFits(mode, list, word, retry[s], r, c, t) /\ mode \in {"local", "onprem"}
  BY BatchAssumption DEF IInv, SourceInv, TypeOK
<1>2. r \in SourceRows /\ c \in ChildRows /\ t \in ThreadRows
  BY RowsTyped DEF IInv
<1>3. \A pc \in PlanPCs \cup TransferPCs \cup {"done", "raised"}, seen \in Seen :
          Seeing(pc, seen) \in ThreadRows
  BY DEF ThreadRows
<1>4. src = [src EXCEPT ![s] = r] /\ child = [child EXCEPT ![s] = c]
  BY SameRows DEF IInv
<1> USE DEF Go, GoSeeing, Rest, Frame, KeepList, At, HasChild
<1>5. CASE TransferEnter(s)
  <2> DEFINE tt == Now(IF mode = "local" THEN "t_lease" ELSE "t_loop")
  <2>1. Moves(s, r, c, tt)
    BY <1>5, <1>4 DEF TransferEnter, Moves
  <2>2. SourceFits(mode, list, word, retry[s], r, c, tt)
    BY <1>5, <1>1, <1>2
    DEF TransferEnter, NoChild,
         SourceFits, PlanFits, ModeFits, WorkFits, WordFits, Unwritten, LooksForStop,
         PlanPCs, TransferPCs, ChildPCs, Unplannable
  <2>4. tt \in ThreadRows
    BY <1>3 DEF PlanPCs, TransferPCs, Seen
  <2> QED
    BY <2>1, <2>2, <2>4, <1>2, OneSourceMoves
<1>6. CASE TransferLoop(s)
  <2> DEFINE tt == Now(IF t.pc = "t_lease" THEN "t_loop" ELSE "t_step")
  <2>1. Moves(s, r, c, tt)
    BY <1>6, <1>4 DEF TransferLoop, Moves
  <2>2. SourceFits(mode, list, word, retry[s], r, c, tt)
    BY <1>6, <1>1, <1>2
    DEF TransferLoop, NoChild, Passes, IInv, ListInv, WordInv, Halts, SourceRows,
         SourceFits, PlanFits, ModeFits, WorkFits, WordFits, Unwritten, LooksForStop,
         PlanPCs, TransferPCs, ChildPCs, Unplannable
  <2>4. tt \in ThreadRows
    BY <1>3 DEF PlanPCs, TransferPCs, Seen
  <2> QED
    BY <2>1, <2>2, <2>4, <1>2, OneSourceMoves
<1>7. CASE TransferTurned(s)
  <2> DEFINE tt == Seeing(IF list.state # "running"
                          THEN "t_int" ELSE "t_exc", "auth")
  <2>1. Moves(s, r, c, tt)
    BY <1>7, <1>4 DEF TransferTurned, Turned, Moves
  <2>2. SourceFits(mode, list, word, retry[s], r, c, tt)
    BY <1>7, <1>1, <1>2
    DEF TransferTurned,
         SourceFits, PlanFits, ModeFits, WorkFits, WordFits, Unwritten, LooksForStop,
         PlanPCs, TransferPCs, ChildPCs, Unplannable
  <2>4. tt \in ThreadRows
    BY <1>3 DEF PlanPCs, TransferPCs, Seen
  <2> QED
    BY <2>1, <2>2, <2>4, <1>2, OneSourceMoves
<1>8. CASE CopyLocal(s)
  <2>1. CASE \E bad \in BOOLEAN :
                /\ src' = [src EXCEPT ![s].left = @ - 1, ![s].bad = @ \/ bad]
                /\ Go(s, "t_loop")
    <3>1. PICK bad \in BOOLEAN : /\ src' = [src EXCEPT ![s].left = @ - 1, ![s].bad = @ \/ bad]
                                 /\ Go(s, "t_loop")
      BY <2>1
    <3> DEFINE rr == [r EXCEPT !.left = r.left - 1, !.bad = r.bad \/ bad]
    <3>2. src' = [src EXCEPT ![s] = rr]
      BY <3>1, <1>2 DEF IInv, TypeOK, SourceRows
    <3>3. Moves(s, rr, c, Now("t_loop"))
      BY <1>8, <3>1, <3>2, <1>4 DEF CopyLocal, Moves
    <3>4. SourceFits(mode, list, word, retry[s], rr, c, Now("t_loop"))
      BY <1>8, <1>1, <1>2 DEF CopyLocal, NoChild, SourceRows,
         SourceFits, PlanFits, ModeFits, WorkFits, WordFits, Unwritten, LooksForStop,
         PlanPCs, TransferPCs, ChildPCs, Unplannable
    <3>5. r.left > 0
      BY <1>8, <1>1 DEF CopyLocal, SourceFits, WorkFits
    <3>6. r.left - 1 \in 0..Objects
      BY <3>5, <1>2, BatchAssumption DEF SourceRows
    <3>7. rr \in SourceRows /\ rr.selected = r.selected /\ Now("t_loop") \in ThreadRows
      BY <3>6, <1>2, <1>3 DEF SourceRows, TransferPCs, Seen
    <3> QED
      BY <3>3, <3>4, <3>7, <1>2, OneSourceMoves
  <2>2. CASE \E why \in {"auth", "error"} : GoSeeing(s, "t_exc", why) /\ UNCHANGED src
    <3>1. PICK why \in {"auth", "error"} : GoSeeing(s, "t_exc", why) /\ UNCHANGED src
      BY <2>2
    <3>2. Moves(s, r, c, Seeing("t_exc", why))
      BY <1>8, <3>1, <1>4 DEF CopyLocal, Moves
    <3>3. SourceFits(mode, list, word, retry[s], r, c, Seeing("t_exc", why))
      BY <1>8, <1>1 DEF CopyLocal,
         SourceFits, PlanFits, ModeFits, WorkFits, WordFits, Unwritten, LooksForStop,
         PlanPCs, TransferPCs, ChildPCs, Unplannable
    <3>4. Seeing("t_exc", why) \in ThreadRows
      BY <1>3 DEF TransferPCs, Seen
    <3> QED
      BY <3>2, <3>3, <3>4, <1>2, OneSourceMoves
  <2> QED
    BY <1>8, <2>1, <2>2 DEF CopyLocal
<1>9. CASE CopyLocalEnds(s)
  <2> DEFINE rr == [r EXCEPT !.state = IF r.bad THEN "completed_with_issues" ELSE "completed"]
  <2>1. Moves(s, rr, c, Now("t_fin"))
    BY <1>9, <1>4 DEF CopyLocalEnds, Moves
  <2>2. SourceFits(mode, list, word, retry[s], rr, c, Now("t_fin"))
    BY <1>9, <1>1, <1>2
    DEF CopyLocalEnds, NoChild, SourceRows,
         SourceFits, PlanFits, ModeFits, WorkFits, WordFits, Unwritten, LooksForStop,
         PlanPCs, TransferPCs, ChildPCs, Unplannable
  <2>3. rr \in SourceRows /\ rr.selected = r.selected
    BY <1>9, <1>1, <1>2 DEF CopyLocalEnds, SourceRows, SourceStates, Plans, Terminal
  <2>4. Now("t_fin") \in ThreadRows
    BY <1>3 DEF PlanPCs, TransferPCs, Seen
  <2> QED
    BY <2>1, <2>2, <2>3, <2>4, <1>2, OneSourceMoves
<1> QED
  BY <1>5, <1>6, <1>7, <1>8, <1>9

LEMMA ChildRunsOn ==
    ASSUME IInv, NEW s \in Sources,
           ChildIdle(s) \/ ChildPauses(s) \/ ChildPaused(s) \/ ChildGoes(s)
              \/ ChildCut(s) \/ ChildBegins(s)
    PROVE  IInv'
<1> DEFINE r == src[s]
           c == child[s]
           t == thread[s]
           Seeing(pc, seen) == [pc |-> pc, seen |-> seen]
           Now(pc) == Seeing(pc, "-")
<1>1. SourceFits(mode, list, word, retry[s], r, c, t) /\ mode \in {"local", "onprem"}
  BY BatchAssumption DEF IInv, SourceInv, TypeOK
<1>2. r \in SourceRows /\ c \in ChildRows /\ t \in ThreadRows
  BY RowsTyped DEF IInv
<1>3. \A pc \in PlanPCs \cup TransferPCs \cup {"done", "raised"}, seen \in Seen :
          Seeing(pc, seen) \in ThreadRows
  BY DEF ThreadRows
<1>4. src = [src EXCEPT ![s] = r] /\ child = [child EXCEPT ![s] = c]
  BY SameRows DEF IInv
<1> USE DEF Go, GoSeeing, Rest, Frame, KeepList, At, HasChild
<1>5. CASE ChildIdle(s)
  <2>1. Moves(s, r, c, Now("t_read"))
    BY <1>5, <1>4 DEF ChildIdle, Moves
  <2>2. SourceFits(mode, list, word, retry[s], r, c, Now("t_read"))
    BY <1>5, <1>1, <1>2
    DEF ChildIdle, NoChild,
         SourceFits, PlanFits, ModeFits, WorkFits, WordFits, Unwritten, LooksForStop,
         PlanPCs, TransferPCs, ChildPCs, Unplannable
  <2>4. Now("t_read") \in ThreadRows
    BY <1>3 DEF PlanPCs, TransferPCs, Seen
  <2> QED
    BY <2>1, <2>2, <2>4, <1>2, OneSourceMoves
<1>6. CASE ChildPauses(s)
  <2>1. Moves(s, r, c, Now("t_pausing"))
    BY <1>6, <1>4 DEF ChildPauses, Moves
  <2>2. SourceFits(mode, list, word, retry[s], r, c, Now("t_pausing"))
    BY <1>6, <1>1, <1>2
    DEF ChildPauses, NoChild,
         SourceFits, PlanFits, ModeFits, WorkFits, WordFits, Unwritten, LooksForStop,
         PlanPCs, TransferPCs, ChildPCs, Unplannable
  <2>4. Now("t_pausing") \in ThreadRows
    BY <1>3 DEF PlanPCs, TransferPCs, Seen
  <2> QED
    BY <2>1, <2>2, <2>4, <1>2, OneSourceMoves
<1>7. CASE ChildPaused(s)
  <2>1. CASE Closed(c)
    <3>1. Moves(s, r, c, Seeing("t_exc", "error"))
      BY <1>7, <2>1, <1>4 DEF ChildPaused, Moves
    <3>2. SourceFits(mode, list, word, retry[s], r, c, Seeing("t_exc", "error"))
      BY <1>7, <1>1 DEF ChildPaused,
         SourceFits, PlanFits, ModeFits, WorkFits, WordFits, Unwritten, LooksForStop,
         PlanPCs, TransferPCs, ChildPCs, Unplannable
    <3>3. Seeing("t_exc", "error") \in ThreadRows
      BY <1>3 DEF TransferPCs, Seen
    <3> QED
      BY <3>1, <3>2, <3>3, <1>2, OneSourceMoves
  <2>2. CASE ~Closed(c)
    <3> DEFINE cc == [c EXCEPT !.state = "paused"]
    <3>1. Moves(s, r, cc, Now("t_read"))
      BY <1>7, <2>2, <1>4 DEF ChildPaused, Moves
    <3>2. SourceFits(mode, list, word, retry[s], r, cc, Now("t_read"))
      BY <1>7, <1>1, <1>2 DEF ChildPaused, ChildRows, NoChild,
         SourceFits, PlanFits, ModeFits, WorkFits, WordFits, Unwritten, LooksForStop,
         PlanPCs, TransferPCs, ChildPCs, Unplannable
    <3>3. cc \in ChildRows /\ Now("t_read") \in ThreadRows
      BY <1>2, <1>3 DEF ChildRows, ChildStates, TransferPCs, Seen
    <3> QED
      BY <3>1, <3>2, <3>3, <1>2, OneSourceMoves
  <2> QED
    BY <2>1, <2>2
<1>8. CASE ChildGoes(s)
  <2>1. Moves(s, r, c, Now("t_go"))
    BY <1>8, <1>4 DEF ChildGoes, Moves
  <2>2. SourceFits(mode, list, word, retry[s], r, c, Now("t_go"))
    BY <1>8, <1>1, <1>2
    DEF ChildGoes, NoChild,
         SourceFits, PlanFits, ModeFits, WorkFits, WordFits, Unwritten, LooksForStop,
         PlanPCs, TransferPCs, ChildPCs, Unplannable
  <2>4. Now("t_go") \in ThreadRows
    BY <1>3 DEF PlanPCs, TransferPCs, Seen
  <2> QED
    BY <2>1, <2>2, <2>4, <1>2, OneSourceMoves
<1>9. CASE ChildCut(s)
  <2>1. Moves(s, r, c, Now("t_loop"))
    BY <1>9, <1>4 DEF ChildCut, Moves
  <2>2. SourceFits(mode, list, word, retry[s], r, c, Now("t_loop"))
    BY <1>9, <1>1, <1>2
    DEF ChildCut, NoChild,
         SourceFits, PlanFits, ModeFits, WorkFits, WordFits, Unwritten, LooksForStop,
         PlanPCs, TransferPCs, ChildPCs, Unplannable
  <2>4. Now("t_loop") \in ThreadRows
    BY <1>3 DEF PlanPCs, TransferPCs, Seen
  <2> QED
    BY <2>1, <2>2, <2>4, <1>2, OneSourceMoves
<1>10. CASE ChildBegins(s)
  <2> DEFINE cc == [c EXCEPT !.busy = TRUE]
  <2>1. Moves(s, r, cc, Now("t_loop"))
    BY <1>10, <1>4 DEF ChildBegins, Moves
  <2>2. SourceFits(mode, list, word, retry[s], r, cc, Now("t_loop"))
    BY <1>10, <1>1, <1>2
    DEF ChildBegins, NoChild, ChildRows, ChildRuns,
         SourceFits, PlanFits, ModeFits, WorkFits, WordFits, Unwritten, LooksForStop,
         PlanPCs, TransferPCs, ChildPCs, Unplannable
  <2>3. cc \in ChildRows
    BY <1>10, <1>1, <1>2 DEF ChildBegins, ChildRows, ChildStates, Terminal
  <2>4. Now("t_loop") \in ThreadRows
    BY <1>3 DEF PlanPCs, TransferPCs, Seen
  <2> QED
    BY <2>1, <2>2, <2>3, <2>4, <1>2, OneSourceMoves
<1> QED
  BY <1>5, <1>6, <1>7, <1>8, <1>9, <1>10

LEMMA ChildEnds ==
    ASSUME IInv, NEW s \in Sources,
           ChildEndsObject(s) \/ ChildEndsQueue(s) \/ ChildLosesAccess(s)
    PROVE  IInv'
<1> DEFINE r == src[s]
           c == child[s]
           t == thread[s]
           Seeing(pc, seen) == [pc |-> pc, seen |-> seen]
           Now(pc) == Seeing(pc, "-")
<1>1. SourceFits(mode, list, word, retry[s], r, c, t) /\ mode \in {"local", "onprem"}
  BY BatchAssumption DEF IInv, SourceInv, TypeOK
<1>2. r \in SourceRows /\ c \in ChildRows /\ t \in ThreadRows
  BY RowsTyped DEF IInv
<1>3. \A pc \in PlanPCs \cup TransferPCs \cup {"done", "raised"}, seen \in Seen :
          Seeing(pc, seen) \in ThreadRows
  BY DEF ThreadRows
<1>4. src = [src EXCEPT ![s] = r] /\ child = [child EXCEPT ![s] = c]
  BY SameRows DEF IInv
<1> USE DEF Go, GoSeeing, Rest, Frame, KeepList, At, HasChild
<1>5. CASE ChildEndsObject(s)
  <2>1. PICK bad \in BOOLEAN, outage \in BOOLEAN :
             /\ outage => bad
             /\ src' = [src EXCEPT ![s].left = @ - 1, ![s].bad = @ \/ bad]
             /\ Go(s, IF outage THEN "t_outage" ELSE "t_loop")
    BY <1>5 DEF ChildEndsObject
  <2> DEFINE rr == [r EXCEPT !.left = r.left - 1, !.bad = r.bad \/ bad]
             cc == [c EXCEPT !.busy = FALSE]
             tt == Now(IF outage THEN "t_outage" ELSE "t_loop")
  <2>2. src' = [src EXCEPT ![s] = rr]
    BY <2>1, <1>2 DEF IInv, TypeOK, SourceRows
  <2>3. Moves(s, rr, cc, tt)
    BY <1>5, <2>1, <2>2, <1>4 DEF ChildEndsObject, Moves
  <2>4. SourceFits(mode, list, word, retry[s], rr, cc, tt)
    BY <1>5, <1>1, <1>2 DEF ChildEndsObject, NoChild, SourceRows, ChildRows,
         SourceFits, PlanFits, ModeFits, WorkFits, WordFits, Unwritten, LooksForStop,
         PlanPCs, TransferPCs, ChildPCs, Unplannable
  <2>5. r.left > 0
    BY <1>5, <1>1 DEF ChildEndsObject, SourceFits, WorkFits
  <2>6. r.left - 1 \in 0..Objects
    BY <2>5, <1>2, BatchAssumption DEF SourceRows
  <2>7. rr \in SourceRows /\ rr.selected = r.selected /\ cc \in ChildRows /\ tt \in ThreadRows
    BY <2>6, <1>2, <1>3 DEF SourceRows, ChildRows, TransferPCs, Seen
  <2> QED
    BY <2>3, <2>4, <2>7, OneSourceMoves
<1>6. CASE ChildEndsQueue(s)
  <2>1. PICK state \in {"completed", "completed_with_issues", "needs_attention"} :
             /\ child' = [child EXCEPT ![s].state = state]
             /\ Go(s, "t_read")
    BY <1>6 DEF ChildEndsQueue
  <2> DEFINE cc == [c EXCEPT !.state = state]
  <2>2. Moves(s, r, cc, Now("t_read"))
    BY <1>6, <2>1, <1>4 DEF ChildEndsQueue, Moves
  <2>3. SourceFits(mode, list, word, retry[s], r, cc, Now("t_read"))
    BY <1>6, <1>1, <1>2 DEF ChildEndsQueue, NoChild, ChildRows,
         SourceFits, PlanFits, ModeFits, WorkFits, WordFits, Unwritten, LooksForStop,
         PlanPCs, TransferPCs, ChildPCs, Unplannable
  <2>4. cc \in ChildRows /\ Now("t_read") \in ThreadRows
    BY <1>2, <1>3 DEF ChildRows, ChildStates, Terminal, TransferPCs, Seen
  <2> QED
    BY <2>2, <2>3, <2>4, <1>2, OneSourceMoves
<1>7. CASE ChildLosesAccess(s)
  <2> DEFINE cc == [c EXCEPT !.state = "awaiting_credentials", !.resume = "running"]
  <2>a. child' = [child EXCEPT ![s] = cc]
    BY <1>7, <1>2 DEF ChildLosesAccess, IInv, TypeOK, ChildRows
  <2>1. Moves(s, r, cc, Now("t_read"))
    BY <1>7, <1>4, <2>a DEF ChildLosesAccess, Moves
  <2>2. SourceFits(mode, list, word, retry[s], r, cc, Now("t_read"))
    BY <1>7, <1>1, <1>2
    DEF ChildLosesAccess, NoChild, ChildRows, ChildRuns,
         SourceFits, PlanFits, ModeFits, WorkFits, WordFits, Unwritten, LooksForStop,
         PlanPCs, TransferPCs, ChildPCs, Unplannable
  <2>3. cc \in ChildRows
    BY <1>7, <1>1, <1>2 DEF ChildLosesAccess, ChildRows, ChildStates, Terminal
  <2>4. Now("t_read") \in ThreadRows
    BY <1>3 DEF PlanPCs, TransferPCs, Seen
  <2> QED
    BY <2>1, <2>2, <2>3, <2>4, <1>2, OneSourceMoves
<1> QED
  BY <1>5, <1>6, <1>7

LEMMA TransferReports ==
    ASSUME IInv, NEW s \in Sources,
           ReadChild(s) \/ NoteChild(s) \/ ReadOutage(s) \/ PauseSource(s)
    PROVE  IInv'
<1> DEFINE r == src[s]
           c == child[s]
           t == thread[s]
           Seeing(pc, seen) == [pc |-> pc, seen |-> seen]
           Now(pc) == Seeing(pc, "-")
<1>1. SourceFits(mode, list, word, retry[s], r, c, t) /\ mode \in {"local", "onprem"}
  BY BatchAssumption DEF IInv, SourceInv, TypeOK
<1>2. r \in SourceRows /\ c \in ChildRows /\ t \in ThreadRows
  BY RowsTyped DEF IInv
<1>3. \A pc \in PlanPCs \cup TransferPCs \cup {"done", "raised"}, seen \in Seen :
          Seeing(pc, seen) \in ThreadRows
  BY DEF ThreadRows
<1>4. src = [src EXCEPT ![s] = r] /\ child = [child EXCEPT ![s] = c]
  BY SameRows DEF IInv
<1> USE DEF Go, GoSeeing, Rest, Frame, KeepList, At, HasChild
<1>5. CASE ReadChild(s)
  <2> DEFINE tt == Seeing(IF c.state = "running" THEN "t_loop" ELSE "t_note",
                    IF c.state = "running" THEN "-" ELSE c.state)
  <2>1. Moves(s, r, c, tt)
    BY <1>5, <1>4 DEF ReadChild, Moves
  <2>2. SourceFits(mode, list, word, retry[s], r, c, tt)
    BY <1>5, <1>1, <1>2
    DEF ReadChild, NoChild, ChildRows,
         SourceFits, PlanFits, ModeFits, WorkFits, WordFits, Unwritten, LooksForStop,
         PlanPCs, TransferPCs, ChildPCs, Unplannable
  <2>4. tt \in ThreadRows
    BY <1>3, <1>2 DEF PlanPCs, TransferPCs, Seen, ChildRows
  <2> QED
    BY <2>1, <2>2, <2>4, <1>2, OneSourceMoves
<1>6. CASE NoteChild(s)
  <2> DEFINE rr == [r EXCEPT !.state = IF t.seen = "needs_attention" THEN "completed_with_issues"
                                      ELSE t.seen]
             tt == Seeing(IF t.seen \in {"paused", "awaiting_credentials"}
                              THEN "t_list" ELSE "t_fin",
                    IF t.seen \in {"paused", "awaiting_credentials"} THEN t.seen ELSE "-")
  <2>a. t.seen \notin {"pending", "planning"}
    BY <1>6, <1>1 DEF NoteChild, SourceFits, WorkFits, ChildStates, Terminal, Unplannable
  <2>1. Moves(s, rr, c, tt)
    BY <1>6, <1>4 DEF NoteChild, Moves
  <2>2. SourceFits(mode, list, word, retry[s], rr, c, tt)
    BY <1>6, <1>1, <1>2, <2>a
    DEF NoteChild, NoChild, SourceRows,
         SourceFits, PlanFits, ModeFits, WorkFits, WordFits, Unwritten, LooksForStop,
         PlanPCs, TransferPCs, ChildPCs, Unplannable
  <2>3. rr \in SourceRows /\ rr.selected = r.selected
    BY <1>6, <1>1, <1>2
       DEF NoteChild, SourceFits, WorkFits, ChildStates, Unplannable, SourceRows, SourceStates,
           Plans, Terminal
  <2>4. tt \in ThreadRows
    BY <1>3, <1>2 DEF PlanPCs, TransferPCs, Seen, ThreadRows, ChildStates
  <2> QED
    BY <2>1, <2>2, <2>3, <2>4, <1>2, OneSourceMoves
<1>7. CASE ReadOutage(s)
  <2> DEFINE tt == Now(IF list.state = "running" THEN "t_outset" ELSE "t_outsrc")
  <2>1. Moves(s, r, c, tt)
    BY <1>7, <1>4 DEF ReadOutage, Moves
  <2>2. SourceFits(mode, list, word, retry[s], r, c, tt)
    BY <1>7, <1>1, <1>2
    DEF ReadOutage, NoChild,
         SourceFits, PlanFits, ModeFits, WorkFits, WordFits, Unwritten, LooksForStop,
         PlanPCs, TransferPCs, ChildPCs, Unplannable
  <2>4. tt \in ThreadRows
    BY <1>3 DEF PlanPCs, TransferPCs, Seen
  <2> QED
    BY <2>1, <2>2, <2>4, <1>2, OneSourceMoves
<1>8. CASE PauseSource(s)
  <2> DEFINE rr == [r EXCEPT !.state = "paused"]
  <2>1. Moves(s, rr, c, Now("t_fin"))
    BY <1>8, <1>4 DEF PauseSource, Moves
  <2>2. SourceFits(mode, list, word, retry[s], rr, c, Now("t_fin"))
    BY <1>8, <1>1, <1>2
    DEF PauseSource, NoChild, SourceRows,
         SourceFits, PlanFits, ModeFits, WorkFits, WordFits, Unwritten, LooksForStop,
         PlanPCs, TransferPCs, ChildPCs, Unplannable
  <2>3. rr \in SourceRows /\ rr.selected = r.selected
    BY <1>8, <1>1, <1>2 DEF PauseSource, SourceRows, SourceStates, Plans, Terminal
  <2>4. Now("t_fin") \in ThreadRows
    BY <1>3 DEF PlanPCs, TransferPCs, Seen
  <2> QED
    BY <2>1, <2>2, <2>3, <2>4, <1>2, OneSourceMoves
<1> QED
  BY <1>5, <1>6, <1>7, <1>8

LEMMA TransferStops ==
    ASSUME IInv, NEW s \in Sources,
           TransferInterrupted(s) \/ TransferInterruptedSource(s) \/ TransferFailed(s)
              \/ TransferEnds(s)
    PROVE  IInv'
<1> DEFINE r == src[s]
           c == child[s]
           t == thread[s]
           Seeing(pc, seen) == [pc |-> pc, seen |-> seen]
           Now(pc) == Seeing(pc, "-")
<1>1. SourceFits(mode, list, word, retry[s], r, c, t) /\ mode \in {"local", "onprem"}
  BY BatchAssumption DEF IInv, SourceInv, TypeOK
<1>2. r \in SourceRows /\ c \in ChildRows /\ t \in ThreadRows
  BY RowsTyped DEF IInv
<1>3. \A pc \in PlanPCs \cup TransferPCs \cup {"done", "raised"}, seen \in Seen :
          Seeing(pc, seen) \in ThreadRows
  BY DEF ThreadRows
<1>4. src = [src EXCEPT ![s] = r] /\ child = [child EXCEPT ![s] = c]
  BY SameRows DEF IInv
<1> USE DEF Go, GoSeeing, Rest, Frame, KeepList, At, HasChild
<1>5. CASE TransferInterrupted(s)
  <2>1. Moves(s, r, c, Seeing("t_intset", list.state))
    BY <1>5, <1>4 DEF TransferInterrupted, Moves
  <2>2. SourceFits(mode, list, word, retry[s], r, c, Seeing("t_intset", list.state))
    BY <1>5, <1>1, <1>2
    DEF TransferInterrupted,
         SourceFits, PlanFits, ModeFits, WorkFits, WordFits, Unwritten, LooksForStop,
         PlanPCs, TransferPCs, ChildPCs, Unplannable
  <2>4. Seeing("t_intset", list.state) \in ThreadRows
    BY <1>3, <1>1 DEF PlanPCs, TransferPCs, Seen, IInv, TypeOK, ListRows
  <2> QED
    BY <2>1, <2>2, <2>4, <1>2, OneSourceMoves
<1>6. CASE TransferInterruptedSource(s)
  <2> DEFINE rr == [r EXCEPT !.state = IF t.seen = "stopped" THEN "stopped" ELSE "paused"]
  <2>1. Moves(s, rr, c, Now("t_fin"))
    BY <1>6, <1>4 DEF TransferInterruptedSource, Moves
  <2>2. SourceFits(mode, list, word, retry[s], rr, c, Now("t_fin"))
    BY <1>6, <1>1, <1>2
    DEF TransferInterruptedSource, NoChild, SourceRows,
         SourceFits, PlanFits, ModeFits, WorkFits, WordFits, Unwritten, LooksForStop,
         PlanPCs, TransferPCs, ChildPCs, Unplannable
  <2>3. rr \in SourceRows /\ rr.selected = r.selected
    BY <1>6, <1>1, <1>2 DEF TransferInterruptedSource, SourceRows, SourceStates, Plans, Terminal
  <2>4. Now("t_fin") \in ThreadRows
    BY <1>3 DEF PlanPCs, TransferPCs, Seen
  <2> QED
    BY <2>1, <2>2, <2>3, <2>4, <1>2, OneSourceMoves
<1>7. CASE TransferFailed(s)
  <2> DEFINE rr == [r EXCEPT !.state = "error"]
             tt == Now(IF t.seen = "auth" THEN "t_auth" ELSE "t_fin")
  <2>1. Moves(s, rr, c, tt)
    BY <1>7, <1>4 DEF TransferFailed, Moves
  <2>2. SourceFits(mode, list, word, retry[s], rr, c, tt)
    BY <1>7, <1>1, <1>2
    DEF TransferFailed, NoChild, SourceRows,
         SourceFits, PlanFits, ModeFits, WorkFits, WordFits, Unwritten, LooksForStop,
         PlanPCs, TransferPCs, ChildPCs, Unplannable
  <2>3. rr \in SourceRows /\ rr.selected = r.selected
    BY <1>7, <1>1, <1>2 DEF TransferFailed, SourceRows, SourceStates, Plans, Terminal
  <2>4. tt \in ThreadRows
    BY <1>3 DEF PlanPCs, TransferPCs, Seen
  <2> QED
    BY <2>1, <2>2, <2>3, <2>4, <1>2, OneSourceMoves
<1>8. CASE TransferEnds(s)
  <2>1. CASE c.state # "none" /\ list.state = "stopped"
    <3> DEFINE cc == Halted(c)
    <3>1. Moves(s, r, cc, Now("done"))
      BY <1>8, <2>1, <1>4 DEF TransferEnds, Moves
    <3>2. SourceFits(mode, list, word, retry[s], r, cc, Now("done"))
      BY <1>8, <2>1, <1>1, <1>2 DEF TransferEnds, Halted, ChildRows, NoChild,
         SourceFits, PlanFits, ModeFits, WorkFits, WordFits, Unwritten, LooksForStop,
         PlanPCs, TransferPCs, ChildPCs, Unplannable
    <3>3. cc \in ChildRows /\ Now("done") \in ThreadRows
      BY <1>2, <1>3 DEF Halted, ChildRows, ChildStates, Terminal, Seen
    <3> QED
      BY <3>1, <3>2, <3>3, <1>2, OneSourceMoves
  <2>2. CASE ~(c.state # "none" /\ list.state = "stopped")
    <3>1. Moves(s, r, c, Now("done"))
      BY <1>8, <2>2, <1>4 DEF TransferEnds, Moves
    <3>2. SourceFits(mode, list, word, retry[s], r, c, Now("done"))
      BY <1>8, <2>2, <1>1 DEF TransferEnds,
         SourceFits, PlanFits, ModeFits, WorkFits, WordFits, Unwritten, LooksForStop,
         PlanPCs, TransferPCs, ChildPCs, Unplannable
    <3>3. Now("done") \in ThreadRows
      BY <1>3 DEF Seen
    <3> QED
      BY <3>1, <3>2, <3>3, <1>2, OneSourceMoves
  <2> QED
    BY <2>1, <2>2
<1> QED
  BY <1>5, <1>6, <1>7, <1>8

----------------------------------------------------------------------------
(* The list's row. *)

\* A row that fits fits a list in another state, unless that is the stopped one.
LEMMA FitsOtherState ==
    ASSUME NEW m, NEW k, NEW l, NEW w, NEW q, NEW r, NEW c, NEW t,
           SourceFits(m, k, w, q, r, c, t),
           l.started = k.started,
           l.state # "stopped" \/ k.state = "stopped"
    PROVE  SourceFits(m, l, w, q, r, c, t)
BY DEF SourceFits, WorkFits, WordFits

\* Pausing a child changes nothing that its row has to fit.
LEMMA PausedChildFits ==
    ASSUME NEW m, NEW l, NEW w, NEW q, NEW r, NEW c \in ChildRows, NEW t,
           SourceFits(m, l, w, q, r, c, t), c.state # "none"
    PROVE  SourceFits(m, l, w, q, r, [c EXCEPT !.pause = TRUE], t)
BY DEF SourceFits, PlanFits, ModeFits, WorkFits, WordFits, ChildRows, NoChild

LEMMA UpdateTyped ==
    ASSUME TypeOK, NEW l \in ListRows, Update(l)
    PROVE  /\ list' = l /\ ~check'.fresh
           /\ check' \in [on : BOOLEAN, fresh : BOOLEAN, ok : BOOLEAN, of : SUBSET Sources]
BY DEF TypeOK, Update

LEMMA PauseChildrenTyped ==
    ASSUME TypeOK, PauseChildren
    PROVE  /\ child' \in [Sources -> ChildRows]
           /\ \A u \in Sources :
                child'[u] = IF HasChild(u) THEN [child[u] EXCEPT !.pause = TRUE] ELSE child[u]
<1>1. \A u \in Sources : child[u] \in ChildRows
  BY RowsTyped
<1>2. \A u \in Sources : [child[u] EXCEPT !.pause = TRUE] \in ChildRows
  BY <1>1 DEF ChildRows
<1> QED
  BY <1>1, <1>2 DEF PauseChildren

\* A thread pauses the list, and its children, or lets it wait for credentials.
LEMMA ThreadWritesList ==
    ASSUME IInv, NEW s \in Sources, NEW l \in ListRows, NEW pc \in {"t_fin", "t_outsrc"},
           thread[s].pc \in TransferPCs, pc = "t_outsrc" => mode # "local",
           l.started = list.started, l.resume = "running",
           l.state \in {"paused", "awaiting_credentials"},
           Update(l), Go(s, pc),
           PauseChildren \/ UNCHANGED child,
           UNCHANGED <<mode, src, loop, asked, creds, retry, word, budget>>
    PROVE  IInv'
<1>1. list' = l /\ ~check'.fresh
      /\ check' \in [on : BOOLEAN, fresh : BOOLEAN, ok : BOOLEAN, of : SUBSET Sources]
  BY UpdateTyped DEF IInv
<1>2. list.started
  BY DEF IInv, SourceInv, SourceFits, WorkFits
<1>3. [pc |-> pc, seen |-> "-"] \in ThreadRows
  BY DEF ThreadRows, TransferPCs, Seen
<1>4. /\ thread' \in [Sources -> ThreadRows] /\ thread'[s] = [pc |-> pc, seen |-> "-"]
      /\ \A u \in Sources : u # s => thread'[u] = thread[u]
  BY <1>3 DEF Go, GoSeeing, IInv, TypeOK, ThreadRows
<1>5. /\ child' \in [Sources -> ChildRows]
      /\ \A u \in Sources : \/ child'[u] = child[u]
                            \/ HasChild(u) /\ child'[u] = [child[u] EXCEPT !.pause = TRUE]
  BY PauseChildrenTyped DEF IInv, TypeOK, ChildRows
<1>6. TypeOK'
  BY <1>1, <1>4, <1>5 DEF IInv, TypeOK, ListRows, ChildRows, ThreadRows
<1>7. ListInv'
  BY <1>1, <1>2 DEF IInv, ListInv, UnstartedStates, Terminal
<1>8. WordInv'
  BY <1>1, <1>2 DEF IInv, WordInv, Halts
<1>9. ASSUME NEW u \in Sources PROVE SourceInv(u)'
  <2>1. PICK t : t = thread'[u]
    OBVIOUS
  <2>2. SourceFits(mode, list, word, retry[u], src[u], child[u], t)
    <3>1. CASE u = s
      BY <1>4, <2>1, <3>1 DEF IInv, SourceInv, SourceFits, PlanFits, ModeFits, WorkFits, WordFits,
         Unwritten, LooksForStop, PlanPCs, TransferPCs, ChildPCs, NoChild
    <3>2. CASE u # s
      BY <1>4, <2>1, <3>2 DEF IInv, SourceInv
    <3> QED
      BY <3>1, <3>2
  <2>3. SourceFits(mode, l, word, retry[u], src[u], child[u], t)
    BY <2>2, FitsOtherState
  <2>4. child[u] \in ChildRows
    BY RowsTyped DEF IInv
  <2>5. SourceFits(mode, l, word, retry[u], src[u], child'[u], t)
    BY <2>3, <2>4, <1>5, PausedChildFits DEF HasChild
  <2> QED
    BY <2>1, <2>5, <1>1 DEF SourceInv
<1> QED
  BY <1>6, <1>7, <1>8, <1>9 DEF IInv

LEMMA TransferWritesList ==
    ASSUME IInv, NEW s \in Sources,
           NoteList(s) \/ PauseDestination(s) \/ TransferUnauthorised(s)
    PROVE  IInv'
<1> USE DEF IInv
<1>1. list \in ListRows /\ thread[s] \in ThreadRows
  BY RowsTyped DEF TypeOK, ListRows
<1>2. CASE NoteList(s)
  <2> DEFINE l == [list EXCEPT !.state = thread[s].seen, !.resume = "running",
                               !.outage = list.outage /\ thread[s].seen = "paused"]
  <2>1. thread[s].seen \in {"paused", "awaiting_credentials"}
    BY <1>2 DEF NoteList, At, SourceInv, SourceFits, WorkFits
  <2>2. l \in ListRows /\ l.started = list.started /\ l.resume = "running"
        /\ l.state = thread[s].seen
    BY <1>1, <2>1 DEF ListRows, ListStates, Terminal
  <2>3. Update(l)
    BY <1>2 DEF NoteList
  <2>4. thread[s].pc \in TransferPCs /\ Go(s, "t_fin")
    BY <1>2 DEF NoteList, At, TransferPCs
  <2> QED
    BY <1>2, <2>1, <2>2, <2>3, <2>4, ThreadWritesList DEF NoteList, Rest, Frame
<1>3. CASE PauseDestination(s)
  <2> DEFINE l == [list EXCEPT !.state = "paused", !.resume = "running", !.outage = TRUE]
  <2>2. l \in ListRows /\ l.started = list.started /\ l.resume = "running" /\ l.state = "paused"
    BY <1>1 DEF ListRows, ListStates, Terminal
  <2>3. Update(l)
    BY <1>3 DEF PauseDestination
  <2>4. thread[s].pc \in TransferPCs /\ Go(s, "t_outsrc") /\ mode # "local"
    BY <1>3 DEF PauseDestination, At, TransferPCs, SourceInv, SourceFits, ModeFits, ChildPCs
  <2> QED
    BY <1>3, <2>2, <2>3, <2>4, ThreadWritesList DEF PauseDestination, Rest, Frame
<1>4. CASE TransferUnauthorised(s)
  <2> DEFINE l == [list EXCEPT !.state = "awaiting_credentials", !.resume = "running",
                               !.outage = FALSE]
  <2>2. l \in ListRows /\ l.started = list.started /\ l.resume = "running"
        /\ l.state = "awaiting_credentials"
    BY <1>1 DEF ListRows, ListStates, Terminal
  <2>3. Update(l)
    BY <1>4 DEF TransferUnauthorised
  <2>4. thread[s].pc \in TransferPCs /\ Go(s, "t_fin")
    BY <1>4 DEF TransferUnauthorised, At, TransferPCs
  <2> QED
    BY <1>4, <2>2, <2>3, <2>4, ThreadWritesList DEF TransferUnauthorised, Rest, Frame
<1> QED
  BY <1>2, <1>3, <1>4

LEMMA PlanningKeeps ==
    ASSUME IInv, NEW s \in Sources, Planning(s)
    PROVE  IInv'
BY PlanningBegins, PlanningScans, PlanningEnds DEF Planning

LEMMA TransferKeeps ==
    ASSUME IInv, NEW s \in Sources, Transfer(s)
    PROVE  IInv'
BY TransferLoops, ChildRunsOn, ChildEnds, TransferReports, TransferStops, TransferWritesList
   DEF Transfer, ChildStep

----------------------------------------------------------------------------
(* The check of the group. *)

LEMMA CheckBegins ==
    ASSUME IInv, BeginCheck, UNCHANGED <<list, src>>
    PROVE  /\ check' \in [on : BOOLEAN, fresh : BOOLEAN, ok : BOOLEAN, of : SUBSET Sources]
           /\ check'.on /\ check'.fresh =>
                list'.state \in UnstartedStates /\ check'.of = Selected'
<1>1. Selected' = Selected /\ Selected \in SUBSET Sources
  BY DEF Selected
<1>2. CASE CanCheck
  BY <1>1, <1>2 DEF BeginCheck, CanCheck, UnstartedStates, GroupOK
<1>3. CASE ~CanCheck
  BY <1>1, <1>3 DEF BeginCheck, IInv, TypeOK, ListInv
<1> QED
  BY <1>2, <1>3

LEMMA CheckKeeps ==
    ASSUME IInv, FinishPlanning \/ FinishSelection
    PROVE  IInv'
<1> USE DEF IInv
<1>1. /\ check' \in [on : BOOLEAN, fresh : BOOLEAN, ok : BOOLEAN, of : SUBSET Sources]
      /\ check'.on /\ check'.fresh => list'.state \in UnstartedStates /\ check'.of = Selected'
  BY CheckBegins DEF FinishPlanning, FinishSelection
<1>2. /\ UNCHANGED <<mode, list, src, child, thread, retry, word, budget, creds>>
      /\ loop' = loop \/ (loop'.pc # "pass" /\ loop' \in [pc : {"check", "top"}, seen : Seen])
      /\ asked' \in BOOLEAN
  BY DEF FinishPlanning, FinishSelection, Frame, TypeOK
<1>3. TypeOK'
  BY <1>1, <1>2 DEF TypeOK
<1>4. ListInv' /\ WordInv'
  BY <1>1, <1>2 DEF ListInv, WordInv
<1>5. \A u \in Sources : SourceInv(u)'
  BY <1>2 DEF SourceInv
<1> QED
  BY <1>3, <1>4, <1>5

LEMMA EndCheckKeeps ==
    ASSUME IInv, EndCheck
    PROVE  IInv'
<1> USE DEF IInv
<1>1. /\ UNCHANGED <<mode, src, child, thread, asked, creds, retry, word, budget>>
      /\ check' = NoCheck
      /\ loop' = [loop EXCEPT !.pc = IF @ = "check" THEN "top" ELSE @]
  BY DEF EndCheck, Frame
<1>2. loop' \in [pc : {"top", "pass", "finish", "check", "dead"}, seen : Seen]
      /\ loop'.seen = loop.seen /\ (loop'.pc = "pass" => loop.pc = "pass")
  BY <1>1 DEF TypeOK
<1>3. NoCheck \in [on : BOOLEAN, fresh : BOOLEAN, ok : BOOLEAN, of : SUBSET Sources]
      /\ ~NoCheck.on
  BY DEF NoCheck
<1>4. CASE UNCHANGED list
  <2>1. TypeOK'
    BY <1>1, <1>2, <1>3, <1>4 DEF TypeOK
  <2>2. ListInv' /\ WordInv'
    BY <1>1, <1>2, <1>3, <1>4 DEF ListInv, WordInv
  <2>3. \A u \in Sources : SourceInv(u)'
    BY <1>1, <1>4 DEF SourceInv
  <2> QED
    BY <2>1, <2>2, <2>3
<1>5. CASE check.fresh /\ \E ok \in BOOLEAN :
               list' = [list EXCEPT !.state = IF ok THEN "ready" ELSE "needs_attention",
                                    !.outage = FALSE]
  <2>1. PICK ok \in BOOLEAN :
               list' = [list EXCEPT !.state = IF ok THEN "ready" ELSE "needs_attention",
                                    !.outage = FALSE]
    BY <1>5
  <2>2. /\ list' \in ListRows /\ list'.state \in {"ready", "needs_attention"}
        /\ list'.started = list.started /\ list'.resume = list.resume
    BY <2>1 DEF TypeOK, ListRows, ListStates, Terminal
  <2>3. ~list.started /\ word \notin {"pause", "stop"}
    BY <1>5 DEF EndCheck, ListInv, WordInv, Halts, UnstartedStates
  <2>4. TypeOK'
    BY <1>1, <1>2, <1>3, <2>2 DEF TypeOK, ListRows
  <2>5. ListInv' /\ WordInv'
    BY <1>1, <1>2, <1>3, <2>2, <2>3 DEF ListInv, WordInv, UnstartedStates
  <2>6. ASSUME NEW u \in Sources PROVE SourceInv(u)'
    BY <1>1, <2>2, FitsOtherState DEF SourceInv
  <2> QED
    BY <2>4, <2>5, <2>6
<1> QED
  BY <1>4, <1>5 DEF EndCheck

----------------------------------------------------------------------------
(* The requests that change what is planned. *)

\* When no word is left standing, and nothing has been started.
LEMMA FitsUnstarted ==
    ASSUME NEW m, NEW l, NEW q, NEW r, NEW c, NEW t,
           PlanFits(m, r, c, t), ModeFits(m, q, c, t),
           ~l.started, t.pc \notin TransferPCs, q = "no", ~c.busy
    PROVE  SourceFits(m, l, "none", q, r, c, t)
BY DEF SourceFits, WorkFits, WordFits, TransferPCs

LEMMA NothingStarted ==
    ASSUME IInv, ~list.started, NEW u \in Sources
    PROVE  /\ PlanFits(mode, src[u], child[u], thread[u])
           /\ ModeFits(mode, retry[u], child[u], thread[u])
           /\ thread[u].pc \notin TransferPCs /\ retry[u] = "no" /\ ~child[u].busy
BY DEF IInv, SourceInv, SourceFits, WorkFits

LEMMA RequestTyped ==
    ASSUME TypeOK, Request
    PROVE  budget' \in [requests : 0..MaxRequests, crashes : 0..MaxCrashes]
BY BatchAssumption DEF TypeOK, Request

LEMMA PendingFits ==
    ASSUME NEW m, NEW r \in SourceRows, NEW c, NEW t, PlanFits(m, r, c, t)
    PROVE  PlanFits(m, [Pending(r) EXCEPT !.selected = TRUE], c, t)
BY DEF PlanFits, Pending, SourceRows

LEMMA PendingTyped ==
    ASSUME NEW r \in SourceRows
    PROVE  [Pending(r) EXCEPT !.selected = TRUE] \in SourceRows
BY DEF Pending, SourceRows, SourceStates

\* The rows of the sources that a request resets; of is all of them, or one.
LEMMA PlanKeeps ==
    ASSUME IInv, NEW of, of = Sources \/ (\E s \in Sources : of = {s}), Plan(of)
    PROVE  IInv'
<1> USE DEF IInv
<1>1. /\ UNCHANGED <<mode, child, thread, loop, asked, creds, retry>>
      /\ word' = "none" /\ ~list.started /\ list.state # "stopped"
      /\ budget' \in [requests : 0..MaxRequests, crashes : 0..MaxCrashes]
  BY RequestTyped DEF Plan, Editing
<1> DEFINE one == of # Sources
           Reset(S) == [s \in Sources |->
                IF s \in S /\ (one \/ src[s].selected)
                THEN [Pending(src[s]) EXCEPT !.selected = TRUE] ELSE src[s]]
<1>2. \/ /\ \E S \in SUBSET Sources : src' = Reset(S)
         /\ Update([list EXCEPT !.state = "planning", !.resume = "planning", !.outage = FALSE])
      \/ /\ \E S \in SUBSET (of \ Active) : src' = Reset(S)
         /\ of \cap Active # {} /\ KeepList
  BY DEF Plan
<1>3. PICK S \in SUBSET Sources : src' = Reset(S)
  BY <1>2
<1>4. \A u \in Sources : src'[u] = src[u] \/ src'[u] = [Pending(src[u]) EXCEPT !.selected = TRUE]
  BY <1>3
<1>5. \A u \in Sources : src[u] \in SourceRows
  BY RowsTyped
<1>6. src' \in [Sources -> SourceRows]
  <2>1. \A u \in Sources : src'[u] \in SourceRows
    BY <1>4, <1>5, PendingTyped
  <2> HIDE DEF one
  <2> QED
    BY <1>3, <2>1
<1>7. ASSUME NEW u \in Sources, NEW l, ~l.started
      PROVE  SourceFits(mode, l, "none", retry[u], src'[u], child[u], thread[u])
  <2>1. PlanFits(mode, src'[u], child[u], thread[u])
    <3>1. PlanFits(mode, src[u], child[u], thread[u])
      BY <1>1, NothingStarted
    <3>2. PlanFits(mode, [Pending(src[u]) EXCEPT !.selected = TRUE], child[u], thread[u])
      BY <1>5, <3>1, PendingFits
    <3> QED
      BY <1>4, <3>1, <3>2
  <2> QED
    BY <1>1, <1>7, <2>1, NothingStarted, FitsUnstarted
<1>8. CASE Update([list EXCEPT !.state = "planning", !.resume = "planning", !.outage = FALSE])
  <2> DEFINE l == [list EXCEPT !.state = "planning", !.resume = "planning", !.outage = FALSE]
  <2>1. l \in ListRows /\ l.state = "planning" /\ l.resume = "planning" /\ ~l.started
    BY <1>1 DEF TypeOK, ListRows, ListStates
  <2>2. /\ list' = l /\ ~check'.fresh
        /\ check' \in [on : BOOLEAN, fresh : BOOLEAN, ok : BOOLEAN, of : SUBSET Sources]
    BY <1>8, <2>1, UpdateTyped
  <2>3. TypeOK'
    BY <1>1, <1>6, <2>1, <2>2 DEF TypeOK, ListRows, SourceRows
  <2>4. ListInv' /\ WordInv'
    BY <1>1, <2>1, <2>2 DEF ListInv, WordInv
  <2>5. ASSUME NEW u \in Sources PROVE SourceInv(u)'
    BY <1>1, <1>7, <2>1, <2>2 DEF SourceInv
  <2> QED
    BY <2>3, <2>4, <2>5
<1>9. CASE /\ \E T \in SUBSET (of \ Active) : src' = Reset(T)
           /\ of \cap Active # {} /\ KeepList
  <2>1. PICK T \in SUBSET (of \ Active) : src' = Reset(T)
    BY <1>9
  <2>2. T = {} \/ ~one
    BY <1>9
  <2>3. \A u \in Sources : src'[u].selected = src[u].selected
    BY <2>1, <2>2, <1>5 DEF Pending, SourceRows
  <2>4. Selected' = Selected
    BY <2>3 DEF Selected
  <2>5. TypeOK'
    BY <1>1, <1>6, <1>9 DEF TypeOK, SourceRows, KeepList
  <2>6. ListInv' /\ WordInv'
    BY <1>1, <1>9, <2>4 DEF ListInv, WordInv, KeepList
  <2>7. ASSUME NEW u \in Sources PROVE SourceInv(u)'
    BY <1>1, <1>7, <1>9 DEF SourceInv, KeepList
  <2> QED
    BY <2>5, <2>6, <2>7
<1> QED
  BY <1>2, <1>8, <1>9

LEMMA SelectionKeeps ==
    ASSUME IInv, NEW S \in SUBSET Sources, Selection(S)
    PROVE  IInv'
<1> USE DEF IInv
<1>1. /\ UNCHANGED <<mode, child, thread, loop, creds, retry>>
      /\ asked' = TRUE /\ word' = "none" /\ ~list.started
      /\ src' = [s \in Sources |-> [src[s] EXCEPT !.selected = s \in S]]
      /\ budget' \in [requests : 0..MaxRequests, crashes : 0..MaxCrashes]
  BY RequestTyped DEF Selection, Editing
<1>2. \A u \in Sources : src[u] \in SourceRows
  BY RowsTyped
<1>3. \A u \in Sources : src'[u] = [src[u] EXCEPT !.selected = u \in S]
  BY <1>1
<1>4. ASSUME NEW u \in Sources PROVE src'[u] \in SourceRows
  <2>1. CASE u \in S
    <3>1. src'[u] = [src[u] EXCEPT !.selected = TRUE]
      BY <1>3, <2>1
    <3> QED
      BY <1>2, <3>1 DEF SourceRows
  <2>2. CASE u \notin S
    <3>a. (u \in S) = FALSE
      BY <2>2
    <3>1. src'[u] = [src[u] EXCEPT !.selected = FALSE]
      BY <1>3, <3>a, Zenon
    <3> QED
      BY <1>2, <3>1 DEF SourceRows
  <2> QED
    BY <2>1, <2>2
<1>5. src' \in [Sources -> SourceRows]
  BY <1>1, <1>4
<1>6. PICK l \in ListRows : Update(l) /\ ~l.started /\ l.resume # "running" /\ l.state # "running"
  <2> DEFINE l1 == [list EXCEPT !.state = "needs_attention", !.outage = FALSE]
             l2 == [list EXCEPT !.state = "planning", !.resume = "planning", !.outage = FALSE]
  <2>1. list \in ListRows /\ list.resume # "running"
    BY <1>1 DEF TypeOK, ListRows, ListInv
  <2>2. /\ l1 \in ListRows /\ ~l1.started /\ l1.resume # "running" /\ l1.state # "running"
        /\ l2 \in ListRows /\ ~l2.started /\ l2.resume # "running" /\ l2.state # "running"
    BY <1>1, <2>1 DEF ListRows, ListStates
  <2>3. Update(l1) \/ Update(l2)
    BY DEF Selection
  <2> QED
    BY <2>2, <2>3
<1>7. /\ list' = l /\ ~check'.fresh
      /\ check' \in [on : BOOLEAN, fresh : BOOLEAN, ok : BOOLEAN, of : SUBSET Sources]
  BY <1>6, UpdateTyped
<1>8. TypeOK'
  BY <1>1, <1>5, <1>7 DEF TypeOK, ListRows, SourceRows
<1>9. ListInv' /\ WordInv'
  BY <1>1, <1>6, <1>7 DEF ListInv, WordInv
<1>10. ASSUME NEW u \in Sources PROVE SourceInv(u)'
  <2>1. PlanFits(mode, src[u], child[u], thread[u])
    BY <1>1, NothingStarted
  <2>2. PlanFits(mode, src'[u], child[u], thread[u])
    BY <2>1, <1>2, <1>3 DEF PlanFits, SourceRows
  <2>3. SourceFits(mode, l, "none", retry[u], src'[u], child[u], thread[u])
    BY <2>2, <1>1, <1>6, NothingStarted, FitsUnstarted
  <2> QED
    BY <1>1, <1>7, <2>3 DEF SourceInv
<1> QED
  BY <1>8, <1>9, <1>10

LEMMA PlannedFits ==
    ASSUME NEW m, NEW r \in SourceRows, NEW c, NEW t, PlanFits(m, r, c, t),
           NEW plan \in Plans \ {"none"}
    PROVE  /\ PlanFits(m, Planned(r, plan), c, t)
           /\ Planned(r, plan) \in SourceRows
           /\ Planned(r, plan).selected = r.selected
BY DEF PlanFits, Planned, SourceRows, SourceStates, Plans

LEMMA EntrySelectionKeeps ==
    ASSUME IInv, NEW s \in Sources, NEW plan \in Plans \ {"none"}, EntrySelection(s, plan)
    PROVE  IInv'
<1> USE DEF IInv
<1>1. /\ UNCHANGED <<mode, child, thread, loop, creds, retry>>
      /\ ~list.started /\ list.state \in {"ready", "needs_attention", "awaiting_credentials"}
      /\ src' = [src EXCEPT ![s] = Planned(@, plan)]
      /\ budget' \in [requests : 0..MaxRequests, crashes : 0..MaxCrashes]
  BY RequestTyped DEF EntrySelection, Editable
<1>2. word \notin {"pause", "stop"}
  BY <1>1 DEF WordInv, Halts
<1>3. PICK l \in ListRows : /\ Update(l) /\ ~l.started /\ l.resume # "running"
                            /\ l.state # "running"
  <2> DEFINE l1 == [list EXCEPT !.state = "awaiting_credentials", !.resume = "ready",
                                !.outage = FALSE]
             l2 == [list EXCEPT !.state = "planning", !.resume = "planning", !.outage = FALSE]
  <2>1. list \in ListRows
    BY DEF TypeOK, ListRows
  <2>2. /\ l1 \in ListRows /\ ~l1.started /\ l1.resume # "running" /\ l1.state # "running"
        /\ l2 \in ListRows /\ ~l2.started /\ l2.resume # "running" /\ l2.state # "running"
    BY <1>1, <2>1 DEF ListRows, ListStates
  <2>3. Update(l1) \/ Update(l2)
    BY DEF EntrySelection
  <2> QED
    BY <2>2, <2>3
<1>4. word' \in {"none", word} /\ asked' \in BOOLEAN
  BY DEF EntrySelection, TypeOK
<1>5. /\ list' = l /\ ~check'.fresh
      /\ check' \in [on : BOOLEAN, fresh : BOOLEAN, ok : BOOLEAN, of : SUBSET Sources]
  BY <1>3, UpdateTyped
<1>6. src[s] \in SourceRows
  BY RowsTyped
<1>7. \A u \in Sources : u # s => src'[u] = src[u]
  BY <1>1 DEF TypeOK
<1>8. src'[s] = Planned(src[s], plan)
  BY <1>1 DEF TypeOK
<1>9. PlanFits(mode, src[s], child[s], thread[s])
  BY <1>1, NothingStarted
<1>10. TypeOK'
  <2>1. Planned(src[s], plan) \in SourceRows
    BY <1>6, <1>9, PlannedFits
  <2>2. src' \in [Sources -> SourceRows]
    BY <1>1, <2>1 DEF TypeOK, SourceRows
  <2> QED
    BY <1>1, <1>4, <1>5, <2>2 DEF TypeOK, ListRows, SourceRows
<1>11. ListInv' /\ WordInv'
  BY <1>1, <1>2, <1>3, <1>4, <1>5 DEF ListInv, WordInv
<1>12. ASSUME NEW u \in Sources PROVE SourceInv(u)'
  <2>1. PlanFits(mode, src'[u], child[u], thread[u])
    <3>1. CASE u = s
      BY <3>1, <1>6, <1>8, <1>9, PlannedFits
    <3>2. CASE u # s
      BY <3>2, <1>1, <1>7, NothingStarted
    <3> QED
      BY <3>1, <3>2
  <2>2. SourceFits(mode, l, "none", retry[u], src'[u], child[u], thread[u])
    BY <2>1, <1>1, <1>3, NothingStarted, FitsUnstarted
  <2>3. SourceFits(mode, l, word', retry[u], src'[u], child[u], thread[u])
    BY <2>2, <1>2, <1>4 DEF SourceFits, WordFits
  <2> QED
    BY <1>1, <1>5, <2>3 DEF SourceInv
<1> QED
  BY <1>10, <1>11, <1>12

LEMMA PauseKeeps ==
    ASSUME IInv, Pause
    PROVE  IInv'
<1> USE DEF IInv
<1> DEFINE l == [list EXCEPT !.state = "paused", !.resume = list.state]
<1>1. /\ UNCHANGED <<mode, src, thread, loop, asked, creds, retry>>
      /\ word' = "pause" /\ list.state \in {"running", "planning"} /\ loop.pc # "pass"
      /\ Update(l) /\ PauseChildren
      /\ budget' \in [requests : 0..MaxRequests, crashes : 0..MaxCrashes]
  BY RequestTyped DEF Pause, Request, GuardFree
<1>2. /\ l \in ListRows /\ l.state = "paused" /\ l.started = list.started
      /\ l.started <=> l.resume = "running"
  BY <1>1 DEF TypeOK, ListRows, ListStates, ListInv, UnstartedStates
<1>3. /\ list' = l /\ ~check'.fresh
      /\ check' \in [on : BOOLEAN, fresh : BOOLEAN, ok : BOOLEAN, of : SUBSET Sources]
  BY <1>1, <1>2, UpdateTyped
<1>4. /\ child' \in [Sources -> ChildRows]
      /\ \A u \in Sources :
           child'[u] = IF HasChild(u) THEN [child[u] EXCEPT !.pause = TRUE] ELSE child[u]
  BY <1>1, PauseChildrenTyped
<1>5. TypeOK'
  BY <1>1, <1>2, <1>3, <1>4 DEF TypeOK, ListRows, ChildRows
<1>6. ListInv' /\ WordInv'
  BY <1>1, <1>2, <1>3 DEF ListInv, WordInv, Halts, UnstartedStates
<1>7. ASSUME NEW u \in Sources PROVE SourceInv(u)'
  <2>1. /\ child[u] \in ChildRows
        /\ SourceFits(mode, list, word, retry[u], src[u], child[u], thread[u])
    BY RowsTyped DEF SourceInv
  <2>2. SourceFits(mode, l, word, retry[u], src[u], child[u], thread[u])
    BY <2>1, <1>2, FitsOtherState
  <2>3. SourceFits(mode, l, word, retry[u], src[u], child'[u], thread[u])
    BY <2>1, <2>2, <1>4, PausedChildFits DEF HasChild
  <2>4. child'[u].pause \/ child'[u].state = "none"
    BY <2>1, <1>4 DEF HasChild, ChildRows
  <2>5. SourceFits(mode, l, "pause", retry[u], src[u], child'[u], thread[u])
    BY <2>3, <2>4 DEF SourceFits, WordFits
  <2> QED
    BY <1>1, <1>3, <2>5 DEF SourceInv
<1> QED
  BY <1>5, <1>6, <1>7

LEMMA PrepareKeeps ==
    ASSUME IInv, NEW s \in Sources, PrepareChildRetry(s)
    PROVE  IInv'
<1> USE DEF IInv
<1>1. /\ UNCHANGED <<mode, list, src, child, thread, loop, check, asked, creds, word>>
      /\ budget' = [budget EXCEPT !.requests = @ - 1] /\ budget.requests > 0
      /\ retry' = [retry EXCEPT ![s] = "prepared"]
      /\ child[s].state # "none" /\ list.started /\ src[s].selected
  BY DEF PrepareChildRetry, HasChild, ChildActive
<1>2. budget' \in [requests : 0..MaxRequests, crashes : 0..MaxCrashes]
  BY <1>1, BatchAssumption DEF TypeOK
<1>3. TypeOK' /\ ListInv' /\ WordInv'
  BY <1>1, <1>2 DEF TypeOK, ListInv, WordInv, Selected
<1>4. ASSUME NEW u \in Sources PROVE SourceInv(u)'
  <2>1. CASE u = s
    BY <2>1, <1>1 DEF TypeOK, SourceInv, SourceFits, ModeFits, WorkFits, NoChild
  <2>2. CASE u # s
    <3>1. retry'[u] = retry[u]
      BY <2>2, <1>1 DEF TypeOK
    <3> QED
      BY <3>1, <1>1 DEF SourceInv
  <2> QED
    BY <2>1, <2>2
<1> QED
  BY <1>3, <1>4

----------------------------------------------------------------------------
(* The requests that start, resume and stop. *)

LEMMA RestoredFits ==
    ASSUME NEW m, NEW q, NEW t, NEW r \in SourceRows, NEW c \in ChildRows,
           PlanFits(m, r, c, t), ModeFits(m, q, c, t),
           c.state # "none", r.planned, c.planned
    PROVE  /\ PlanFits(m, RestoredSource(r), RestoredChild(r, c), t)
           /\ ModeFits(m, q, RestoredChild(r, c), t)
           /\ RestoredSource(r) \in SourceRows /\ RestoredChild(r, c) \in ChildRows
           /\ (RestoredSource(r).selected <=> r.selected)
           /\ (RestoredSource(r).planned <=> r.planned) /\ RestoredSource(r).plan = r.plan
           /\ (RestoredChild(r, c).busy <=> c.busy)
<1>1. m # "local"
  BY DEF ModeFits, NoChild
<1>2. RestoredSource(r) \in SourceRows /\ (RestoredSource(r).selected <=> r.selected)
      /\ (RestoredSource(r).planned <=> r.planned) /\ RestoredSource(r).plan = r.plan
      /\ RestoredSource(r).state \in {"error", "ready"}
  BY DEF RestoredSource, Planned, SourceRows, SourceStates
<1>3. RestoredChild(r, c) \in ChildRows /\ (RestoredChild(r, c).busy <=> c.busy)
      /\ RestoredChild(r, c).state \in {"needs_attention", "ready"}
      /\ RestoredChild(r, c).resume = "none" /\ (RestoredChild(r, c).planned <=> c.planned)
  BY DEF RestoredChild, ChildRows, ChildStates
<1> QED
  BY <1>1, <1>2, <1>3 DEF PlanFits, ModeFits, Unwritten, PlanPCs, Unplannable

LEMMA StartedTyped ==
    ASSUME NEW r \in SourceRows
    PROVE  /\ StartedSource(r) \in SourceRows
           /\ (StartedSource(r).selected <=> r.selected)
           /\ (StartedSource(r).planned <=> r.planned) /\ StartedSource(r).plan = r.plan
           /\ StartedSource(r).state \in {"completed", "running"}
<1>1. 0 \in 0..Objects /\ Objects \in 0..Objects
  BY BatchAssumption
<1>2. CASE r.plan = "empty"
  BY <1>1, <1>2 DEF StartedSource, SourceRows, SourceStates, Terminal
<1>3. CASE r.plan # "empty"
  BY <1>1, <1>3 DEF StartedSource, SourceRows, SourceStates, Terminal
<1> QED
  BY <1>2, <1>3

\* The child, if there is one, of a source that is started.
ChildOf(r, c) == IF c.state = "none" THEN c ELSE StartedChild(r, c)

LEMMA StartedFits ==
    ASSUME NEW m \in {"local", "onprem"}, NEW q, NEW t, NEW r \in SourceRows, NEW c \in ChildRows,
           PlanFits(m, r, c, t), ModeFits(m, q, c, t), r.planned
    PROVE  /\ PlanFits(m, StartedSource(r), ChildOf(r, c), t)
           /\ ModeFits(m, q, ChildOf(r, c), t)
           /\ StartedSource(r) \in SourceRows /\ ChildOf(r, c) \in ChildRows
           /\ (StartedSource(r).selected <=> r.selected)
           /\ StartedSource(r).planned /\ StartedSource(r).plan = r.plan
           /\ (ChildOf(r, c).busy <=> c.busy)
<1>1. StartedSource(r) \in SourceRows /\ (StartedSource(r).selected <=> r.selected)
      /\ (StartedSource(r).planned <=> r.planned) /\ StartedSource(r).plan = r.plan
      /\ StartedSource(r).state \in {"completed", "running"}
  BY StartedTyped
<1>2. ChildOf(r, c) \in ChildRows /\ (ChildOf(r, c).busy <=> c.busy)
      /\ ChildOf(r, c).resume = c.resume /\ (ChildOf(r, c).planned <=> c.planned)
      /\ (c.state # "none" => ChildOf(r, c).state \in {"completed", "running"})
      /\ (c.state = "none" => ChildOf(r, c) = c)
  BY DEF ChildOf, StartedChild, Running, ChildRows, ChildStates, Terminal
<1>3. m = "local" => c.state = "none"
  BY DEF ModeFits, NoChild
<1> QED
  BY <1>1, <1>2, <1>3 DEF PlanFits, ModeFits, Unwritten, PlanPCs, Unplannable

\* What StartSources makes of the rows; the list was not started.
LEMMA StartSourcesFits ==
    ASSUME IInv, ~list.started, CanRestore, NEW S \in SUBSET Selected,
           \A u \in S : src[u].planned,
           StartSources(S), UNCHANGED <<mode, thread, retry>>
    PROVE  /\ src' \in [Sources -> SourceRows] /\ child' \in [Sources -> ChildRows]
           /\ \A u \in Sources :
                /\ PlanFits(mode, src'[u], child'[u], thread[u])
                /\ ModeFits(mode, retry[u], child'[u], thread[u])
                /\ ~child'[u].busy /\ (src'[u].selected <=> src[u].selected)
                /\ (src'[u].planned <=> src[u].planned) /\ src'[u].plan = src[u].plan
<1> USE DEF IInv
<1>1. ASSUME NEW u \in Sources
      PROVE  /\ src'[u] \in SourceRows /\ child'[u] \in ChildRows
             /\ PlanFits(mode, src'[u], child'[u], thread[u])
             /\ ModeFits(mode, retry[u], child'[u], thread[u])
             /\ ~child'[u].busy /\ (src'[u].selected <=> src[u].selected)
             /\ (src'[u].planned <=> src[u].planned) /\ src'[u].plan = src[u].plan
  <2>1. /\ PlanFits(mode, src[u], child[u], thread[u]) /\ ~child[u].busy
        /\ ModeFits(mode, retry[u], child[u], thread[u])
        /\ src[u] \in SourceRows /\ child[u] \in ChildRows
        /\ mode \in {"local", "onprem"}
    BY NothingStarted, RowsTyped, BatchAssumption DEF TypeOK
  <2>2. CASE u \in S
    <3>1. src'[u] = StartedSource(src[u]) /\ child'[u] = ChildOf(src[u], child[u])
      BY <2>2 DEF StartSources, ChildOf, HasChild
    <3>2. src[u].planned
      BY <2>1, <2>2 DEF SourceRows
    <3> QED
      <4>1. /\ PlanFits(mode, StartedSource(src[u]), ChildOf(src[u], child[u]), thread[u])
            /\ ModeFits(mode, retry[u], ChildOf(src[u], child[u]), thread[u])
            /\ StartedSource(src[u]) \in SourceRows /\ ChildOf(src[u], child[u]) \in ChildRows
            /\ (StartedSource(src[u]).selected <=> src[u].selected)
            /\ StartedSource(src[u]).planned /\ StartedSource(src[u]).plan = src[u].plan
            /\ (ChildOf(src[u], child[u]).busy <=> child[u].busy)
        BY <2>1, <3>2, StartedFits
      <4> QED
        BY <2>1, <3>1, <3>2, <4>1
  <2>3. CASE u \notin S /\ Moved(u)
    <3>1. src'[u] = RestoredSource(src[u]) /\ child'[u] = RestoredChild(src[u], child[u])
      BY <2>3 DEF StartSources, Moved
    <3>2. child[u].state # "none" /\ src[u].planned /\ child[u].planned
      BY <2>3 DEF CanRestore, Moved, HasChild
    <3> QED
      <4>1. /\ PlanFits(mode, RestoredSource(src[u]), RestoredChild(src[u], child[u]), thread[u])
            /\ ModeFits(mode, retry[u], RestoredChild(src[u], child[u]), thread[u])
            /\ RestoredSource(src[u]) \in SourceRows
            /\ RestoredChild(src[u], child[u]) \in ChildRows
            /\ (RestoredSource(src[u]).selected <=> src[u].selected)
            /\ (RestoredSource(src[u]).planned <=> src[u].planned)
            /\ RestoredSource(src[u]).plan = src[u].plan
            /\ (RestoredChild(src[u], child[u]).busy <=> child[u].busy)
        BY <2>1, <3>2, RestoredFits
      <4> QED
        BY <2>1, <3>1, <4>1
  <2>4. CASE u \notin S /\ ~Moved(u)
    <3>1. src'[u] = src[u] /\ child'[u] = child[u]
      BY <2>4 DEF StartSources
    <3> QED
      BY <2>1, <3>1
  <2> QED
    BY <2>2, <2>3, <2>4
<1>2. src' \in [Sources -> SourceRows] /\ child' \in [Sources -> ChildRows]
  <2>1. src' = [u \in Sources |-> src'[u]] /\ child' = [u \in Sources |-> child'[u]]
    BY DEF StartSources
  <2> QED
    BY <1>1, <2>1
<1> QED
  BY <1>1, <1>2

LEMMA StartTransferKeeps ==
    ASSUME IInv, StartTransfer
    PROVE  IInv'
<1> USE DEF IInv
<1>1. /\ UNCHANGED <<mode, thread, loop, asked, creds, retry>>
      /\ word' = "none" /\ list.state = "ready" /\ CanRestore /\ loop.pc # "pass"
      /\ budget' \in [requests : 0..MaxRequests, crashes : 0..MaxCrashes]
  BY RequestTyped DEF StartTransfer, CanStart, Request, GuardFree
<1>2. ~list.started /\ list \in ListRows
  BY <1>1 DEF ListInv, UnstartedStates, TypeOK, ListRows
<1>3. CASE /\ Update([list EXCEPT !.state = "needs_attention", !.outage = FALSE])
           /\ StartSources({})
  <2> DEFINE l == [list EXCEPT !.state = "needs_attention", !.outage = FALSE]
  <2>1. l \in ListRows /\ l.state = "needs_attention" /\ ~l.started /\ l.resume = list.resume
    BY <1>2 DEF ListRows, ListStates
  <2>2. /\ list' = l /\ ~check'.fresh
        /\ check' \in [on : BOOLEAN, fresh : BOOLEAN, ok : BOOLEAN, of : SUBSET Sources]
    BY <1>3, <2>1, UpdateTyped
  <2>3. /\ src' \in [Sources -> SourceRows] /\ child' \in [Sources -> ChildRows]
        /\ \A u \in Sources :
             /\ PlanFits(mode, src'[u], child'[u], thread[u])
             /\ ModeFits(mode, retry[u], child'[u], thread[u])
             /\ ~child'[u].busy
    BY <1>1, <1>2, <1>3, StartSourcesFits
  <2>4. TypeOK'
    BY <1>1, <2>1, <2>2, <2>3 DEF TypeOK, ListRows, SourceRows, ChildRows
  <2>5. ListInv' /\ WordInv'
    BY <1>1, <1>2, <2>1, <2>2 DEF ListInv, WordInv
  <2>6. ASSUME NEW u \in Sources PROVE SourceInv(u)'
    <3>1. SourceFits(mode, l, "none", retry[u], src'[u], child'[u], thread[u])
      BY <1>2, <2>1, <2>3, NothingStarted, FitsUnstarted
    <3> QED
      BY <1>1, <2>2, <3>1 DEF SourceInv
  <2> QED
    BY <2>4, <2>5, <2>6
<1>4. CASE /\ RestoredGroupOK /\ StartSources(Selected)
           /\ Update([list EXCEPT !.state = "running", !.started = TRUE, !.outage = FALSE,
                                  !.resume = "running"])
  <2> DEFINE l == [list EXCEPT !.state = "running", !.started = TRUE, !.outage = FALSE,
                               !.resume = "running"]
  <2>1. l \in ListRows /\ l.state = "running" /\ l.started /\ l.resume = "running"
    BY <1>2 DEF ListRows, ListStates
  <2>2. /\ list' = l /\ ~check'.fresh
        /\ check' \in [on : BOOLEAN, fresh : BOOLEAN, ok : BOOLEAN, of : SUBSET Sources]
    BY <1>4, <2>1, UpdateTyped
  <2>3. /\ src' \in [Sources -> SourceRows] /\ child' \in [Sources -> ChildRows]
        /\ \A u \in Sources :
             /\ PlanFits(mode, src'[u], child'[u], thread[u])
             /\ ModeFits(mode, retry[u], child'[u], thread[u])
             /\ ~child'[u].busy /\ (src'[u].selected <=> src[u].selected)
             /\ (src'[u].planned <=> src[u].planned) /\ src'[u].plan = src[u].plan
    <3>1. \A u \in Selected : src[u].planned
      BY <1>4 DEF RestoredGroupOK
    <3> QED
      BY <1>1, <1>2, <1>4, <3>1, StartSourcesFits
  <2>4. TypeOK'
    BY <1>1, <2>1, <2>2, <2>3 DEF TypeOK, ListRows, SourceRows, ChildRows
  <2>5. ListInv' /\ WordInv'
    BY <1>1, <1>2, <2>1, <2>2 DEF ListInv, WordInv, UnstartedStates
  <2>6. ASSUME NEW u \in Sources PROVE SourceInv(u)'
    <3>1. thread[u].pc \notin TransferPCs /\ retry[u] = "no"
      BY <1>2, NothingStarted
    <3>2. src'[u].selected => src'[u].planned /\ src'[u].plan \in {"clean", "empty"}
      <4>1. src'[u] \in SourceRows
        BY <2>3
      <4>2. src'[u].planned => src'[u].plan # "none"
        BY <2>3 DEF PlanFits
      <4>3. src[u].selected => src[u].planned /\ src[u].plan # "conflicts"
        BY <1>4 DEF RestoredGroupOK, Selected
      <4> QED
        BY <4>1, <4>2, <4>3, <2>3 DEF SourceRows, Plans
    <3>3. WorkFits(mode, l, retry[u], src'[u], child'[u], thread[u])
      BY <2>1, <2>3, <3>1, <3>2 DEF WorkFits, TransferPCs
    <3>4. SourceFits(mode, l, "none", retry[u], src'[u], child'[u], thread[u])
      BY <2>3, <3>3 DEF SourceFits, WordFits
    <3> QED
      BY <1>1, <2>2, <3>4 DEF SourceInv
  <2> QED
    BY <2>4, <2>5, <2>6
<1> QED
  BY <1>3, <1>4 DEF StartTransfer

\* A row that runs again, with its child unless that one is being stopped.
ResumedSource(r, r2) == r2 = r \/ r2 = [r EXCEPT !.state = "running"]
ResumedChild(c, c2) ==
    \/ c2 = c
    \/ c.state # "none" /\ (Closed(c) => c.state = "running") /\ c2 = Running(c)

LEMMA ResumedFits ==
    ASSUME NEW m, NEW k, NEW l, NEW w, NEW q, NEW t,
           NEW r \in SourceRows, NEW c \in ChildRows,
           NEW r2, NEW c2, ResumedSource(r, r2), ResumedChild(c, c2),
           SourceFits(m, k, w, q, r, c, t), l.started = k.started
    PROVE  /\ SourceFits(m, l, "none", q, r2, c2, t)
           /\ r2 \in SourceRows /\ c2 \in ChildRows
<1>1. /\ r2 \in SourceRows /\ r2.selected = r.selected /\ r2.planned = r.planned
      /\ r2.plan = r.plan /\ r2.left = r.left /\ r2.state \in {r.state, "running"}
  BY DEF ResumedSource, SourceRows, SourceStates
<1>2. CASE c2 = c
  BY <1>1, <1>2 DEF SourceFits, PlanFits, ModeFits, WorkFits, WordFits
<1>3. CASE c.state # "none" /\ (Closed(c) => c.state = "running") /\ c2 = Running(c)
  <2>1. /\ c2 \in ChildRows /\ c2.state = "running" /\ c2.resume = c.resume
        /\ c2.full = c.full /\ c2.planned = c.planned /\ c2.busy = c.busy
    BY <1>3 DEF Running, ChildRows, ChildStates
  <2>2. m # "local"
    BY <1>3 DEF SourceFits, ModeFits, NoChild
  <2>3. PlanFits(m, r2, c2, t)
    BY <1>1, <1>3, <2>1 DEF SourceFits, PlanFits, Closed, Unplannable
  <2>4. WorkFits(m, l, q, r2, c2, t)
    BY <1>1, <2>1 DEF SourceFits, WorkFits
  <2> QED
    BY <1>1, <2>1, <2>2, <2>3, <2>4 DEF SourceFits, ModeFits, WordFits
<1> QED
  BY <1>2, <1>3 DEF ResumedChild

\* The list runs again, or is planned again.
LEMMA ResumeKeeps ==
    ASSUME IInv, Resume
    PROVE  IInv'
<1> USE DEF IInv
<1> DEFINE state == IF list.resume # "none" THEN list.resume
                    ELSE IF list.started THEN "running" ELSE "planning"
           l == [list EXCEPT !.state = state, !.outage = FALSE]
           again == {s \in Selected : state = "running" /\ src[s].state \notin Terminal}
           refused == {s \in again : HasChild(s) /\ Closed(child[s])
                                     /\ child[s].state # "running"}
           Again(S, T) ==
              /\ src' = [s \in Sources |->
                    IF s \in S THEN [src[s] EXCEPT !.state = "running"] ELSE src[s]]
              /\ child' = [s \in Sources |->
                    IF s \in T /\ HasChild(s) THEN Running(child[s]) ELSE child[s]]
<1>1. /\ UNCHANGED <<mode, thread, loop, asked, creds, retry>>
      /\ word' = "none" /\ loop.pc # "pass" /\ Update(l)
      /\ budget' \in [requests : 0..MaxRequests, crashes : 0..MaxCrashes]
  BY RequestTyped DEF Resume, Request, GuardFree
<1>2. list \in ListRows /\ (state = "running" <=> list.started)
  BY DEF TypeOK, ListRows, ListInv
<1>3. /\ l \in ListRows /\ l.state = state /\ l.started = list.started
      /\ l.resume = list.resume
  BY <1>2 DEF ListRows, ListStates
<1>4. /\ list' = l /\ ~check'.fresh
      /\ check' \in [on : BOOLEAN, fresh : BOOLEAN, ok : BOOLEAN, of : SUBSET Sources]
  BY <1>1, <1>3, UpdateTyped
<1>5. PICK S \in SUBSET Sources, T \in SUBSET (again \ refused) : Again(S, T)
  <2>1. again \in SUBSET Sources
    BY DEF Selected
  <2>2. CASE refused = {} /\ Again(again, again)
    BY <2>1, <2>2
  <2>3. CASE \E f \in refused, S \in SUBSET (again \ refused) : Again(S \cup {f}, S)
    <3>1. PICK f \in refused, S \in SUBSET (again \ refused) : Again(S \cup {f}, S)
      BY <2>3
    <3>2. S \cup {f} \in SUBSET Sources /\ S \in SUBSET (again \ refused)
      BY <2>1, <3>1
    <3> QED
      BY <3>1, <3>2
  <2> QED
    BY <2>2, <2>3 DEF Resume
<1>6. ASSUME NEW u \in Sources
      PROVE  ResumedSource(src[u], src'[u]) /\ ResumedChild(child[u], child'[u])
  BY <1>5 DEF ResumedSource, ResumedChild, HasChild
<1>7. ASSUME NEW u \in Sources
      PROVE  /\ SourceFits(mode, l, "none", retry[u], src'[u], child'[u], thread[u])
             /\ src'[u] \in SourceRows /\ child'[u] \in ChildRows
  <2>1. /\ SourceFits(mode, list, word, retry[u], src[u], child[u], thread[u])
        /\ src[u] \in SourceRows /\ child[u] \in ChildRows
    BY RowsTyped DEF SourceInv
  <2> HIDE DEF l
  <2> QED
    BY <2>1, <1>3, <1>6, ResumedFits
<1>8. TypeOK'
  <2>1. src' \in [Sources -> SourceRows] /\ child' \in [Sources -> ChildRows]
    BY <1>5, <1>7
  <2> QED
    BY <1>1, <1>3, <1>4, <2>1 DEF TypeOK, ListRows, SourceRows, ChildRows
<1>9. ListInv' /\ WordInv'
  <2>1. list' = l /\ l.state = state /\ l.started = list.started /\ l.resume = list.resume
    BY <1>3, <1>4
  <2> HIDE DEF l, state
  <2>2. ListInv'
    BY <1>1, <1>2, <1>4, <2>1 DEF ListInv, UnstartedStates
  <2> QED
    BY <1>1, <2>2 DEF WordInv
<1>10. \A u \in Sources : SourceInv(u)'
  BY <1>1, <1>4, <1>7 DEF SourceInv
<1> QED
  BY <1>8, <1>9, <1>10

\* The child runs again for a retry.
LEMMA QueueRetryKeeps ==
    ASSUME IInv, NEW s \in Sources, QueueChildRetry(s)
    PROVE  IInv'
<1> USE DEF IInv
<1>1. /\ UNCHANGED <<mode, list, thread, loop, check, asked, creds, budget>>
      /\ retry[s] = "prepared"
  BY DEF QueueChildRetry
<1>2. /\ SourceFits(mode, list, word, retry[s], src[s], child[s], thread[s])
      /\ src[s] \in SourceRows /\ child[s] \in ChildRows
  BY RowsTyped DEF SourceInv
<1>3. CASE /\ ~Holding(s) /\ creds /\ ~Closed(child[s])
           /\ child[s].state \in {"needs_attention", "paused", "completed_with_issues"}
           /\ child' = [child EXCEPT ![s] = [Running(@) EXCEPT !.resume = "none"]]
           /\ \/ src' = [src EXCEPT ![s].left = IF @ = 0 THEN 1 ELSE @, ![s].bad = FALSE]
              \/ child[s].state # "completed_with_issues" /\ UNCHANGED src
           /\ retry' = [retry EXCEPT ![s] = "queued"]
           /\ word' = IF word = "crash" THEN "none" ELSE word
  <2> DEFINE c == [Running(child[s]) EXCEPT !.resume = "none"]
             r == [src[s] EXCEPT !.left = IF src[s].left = 0 THEN 1 ELSE src[s].left,
                                 !.bad = FALSE]
  <2>1. c \in ChildRows /\ c.state = "running" /\ c.resume = "none"
        /\ (c.full <=> child[s].full) /\ (c.planned <=> child[s].planned)
        /\ (c.busy <=> child[s].busy)
    BY <1>2 DEF Running, ChildRows, ChildStates
  <2>2. 1 \in 0..Objects
    BY BatchAssumption
  <2>3. r \in SourceRows /\ r.state = src[s].state /\ (r.selected <=> src[s].selected)
        /\ (r.planned <=> src[s].planned) /\ r.plan = src[s].plan
        /\ (src[s].left > 0 => r.left > 0)
    <3>1. PICK n \in 0..Objects : /\ n = IF src[s].left = 0 THEN 1 ELSE src[s].left
                                  /\ src[s].left > 0 => n > 0
      BY <1>2, <2>2 DEF SourceRows
    <3>2. r = [src[s] EXCEPT !.left = n, !.bad = FALSE]
      BY <3>1
    <3> HIDE DEF r
    <3> QED
      BY <1>2, <3>1, <3>2 DEF SourceRows
  <2>4. PICK r2 \in {r, src[s]} : src' = [src EXCEPT ![s] = r2]
    <3>1. src = [src EXCEPT ![s] = src[s]]
      BY SameRows
    <3>2. [src EXCEPT ![s].left = IF @ = 0 THEN 1 ELSE @, ![s].bad = FALSE] = [src EXCEPT ![s] = r]
      BY <1>2 DEF TypeOK, SourceRows
    <3> QED
      BY <1>3, <3>1, <3>2
  <2>5. r2 \in SourceRows /\ r2.state = src[s].state /\ (r2.selected <=> src[s].selected)
        /\ (r2.planned <=> src[s].planned) /\ r2.plan = src[s].plan
        /\ (src[s].left > 0 => r2.left > 0)
    BY <1>2, <2>3, <2>4
  <2>6. ~child[s].full /\ child[s].state # "none" /\ thread[s].pc \notin {"t_step", "p_scan"}
    BY <1>3 DEF Closed, Holding
  <2>7. list.started /\ src[s].selected /\ mode # "local"
    BY <1>1, <1>2 DEF SourceFits, WorkFits, ModeFits
  <2>8. word # "stop"
    BY <1>2, <2>6, <2>7 DEF SourceFits, WordFits
  <2>9. SourceFits(mode, list, word', "queued", r2, c, thread[s])
    <3> HIDE DEF c, r
    <3>1. PlanFits(mode, r2, c, thread[s])
      BY <1>2, <2>1, <2>5, <2>6 DEF SourceFits, PlanFits, Unplannable
    <3>2. WorkFits(mode, list, "queued", r2, c, thread[s])
      BY <1>2, <2>1, <2>5, <2>6, <2>7 DEF SourceFits, WorkFits
    <3>3. WordFits(list, word', r2, c, thread[s])
      BY <1>3, <2>6, <2>8 DEF WordFits
    <3> QED
      BY <3>1, <3>2, <3>3, <2>7 DEF SourceFits, ModeFits
  <2>10. /\ src' \in [Sources -> SourceRows] /\ child' \in [Sources -> ChildRows]
         /\ src'[s] = r2 /\ child'[s] = c /\ retry'[s] = "queued"
         /\ \A u \in Sources : u # s =>
                src'[u] = src[u] /\ child'[u] = child[u] /\ retry'[u] = retry[u]
         /\ retry' \in [Sources -> {"no", "prepared", "queued"}]
    BY <1>3, <2>1, <2>4, <2>5 DEF TypeOK, SourceRows, ChildRows
  <2>11. \A u \in Sources : src'[u].selected <=> src[u].selected
    BY <2>5, <2>10
  <2>12. TypeOK'
    BY <1>1, <1>3, <2>10 DEF TypeOK, SourceRows, ChildRows
  <2>13. ListInv' /\ WordInv'
    <3>1. Selected' = Selected
      BY <2>11 DEF Selected
    <3> QED
      BY <1>1, <1>3, <3>1 DEF ListInv, WordInv
  <2>14. ASSUME NEW u \in Sources PROVE SourceInv(u)'
    <3>1. CASE u = s
      BY <3>1, <1>1, <2>9, <2>10 DEF SourceInv
    <3>2. CASE u # s
      <4>1. SourceFits(mode, list, word, retry[u], src[u], child[u], thread[u])
        BY DEF SourceInv
      <4>2. SourceFits(mode, list, word', retry[u], src[u], child[u], thread[u])
        BY <4>1, <1>3 DEF SourceFits, WordFits
      <4> QED
        BY <3>2, <4>2, <1>1, <2>10 DEF SourceInv
    <3> QED
      BY <3>1, <3>2
  <2> QED
    BY <2>12, <2>13, <2>14
<1>4. CASE retry' = [retry EXCEPT ![s] = "no"] /\ UNCHANGED <<child, src, word>>
  <2>1. TypeOK' /\ ListInv' /\ WordInv'
    BY <1>1, <1>4 DEF TypeOK, ListInv, WordInv, Selected
  <2>2. ASSUME NEW u \in Sources PROVE SourceInv(u)'
    <3>1. retry'[u] \in {"no", retry[u]}
      BY <1>4 DEF TypeOK
    <3> QED
      BY <3>1, <1>1, <1>4 DEF SourceInv, SourceFits, ModeFits, WorkFits
  <2> QED
    BY <2>1, <2>2
<1> QED
  BY <1>3, <1>4 DEF QueueChildRetry

\* The source runs again, with the siblings that an outage had paused.
LEMMA ActivateKeeps ==
    ASSUME IInv, NEW s \in Sources, ActivateChildRetry(s)
    PROVE  IInv'
<1> USE DEF IInv
<1>1. /\ UNCHANGED <<mode, thread, loop, asked, creds, budget>>
      /\ retry[s] = "queued" /\ loop.pc # "pass"
      /\ retry' = [retry EXCEPT ![s] = "no"]
  BY DEF ActivateChildRetry, GuardFree
<1>2. retry' \in [Sources -> {"no", "prepared", "queued"}]
      /\ \A u \in Sources : retry'[u] \in {"no", retry[u]}
  BY <1>1 DEF TypeOK
<1>3. CASE ~ChildActive(s)
  <2>1. UNCHANGED <<src, child, word, list, check>>
    BY <1>3 DEF ActivateChildRetry, KeepList
  <2>2. TypeOK' /\ ListInv' /\ WordInv'
    BY <1>1, <1>2, <2>1 DEF TypeOK, ListInv, WordInv, Selected
  <2>3. ASSUME NEW u \in Sources PROVE SourceInv(u)'
    BY <1>1, <1>2, <2>1 DEF SourceInv, SourceFits, ModeFits, WorkFits
  <2> QED
    BY <2>2, <2>3
<1>4. CASE ChildActive(s)
  <2> DEFINE siblings == {t \in Selected : list.outage /\ t # s /\ src[t].state = "paused"}
             refused == {t \in siblings : Closed(child[t]) /\ child[t].state # "running"}
             again == siblings \ refused
             l == [list EXCEPT !.state = "running", !.outage = FALSE]
  <2>1. /\ word' = "none" /\ Update(l)
        /\ src' = [t \in Sources |-> IF t \in siblings \cup {s}
                                     THEN [src[t] EXCEPT !.state = "running"] ELSE src[t]]
        /\ child' = [t \in Sources |->
                         IF t \in again THEN Running(child[t]) ELSE child[t]]
    BY <1>4 DEF ActivateChildRetry
  <2>2. list.started /\ list \in ListRows /\ mode = "onprem"
    <3>1. mode # "local"
      BY <1>1 DEF SourceInv, SourceFits, ModeFits
    <3> QED
      BY <1>4, <3>1, BatchAssumption DEF ChildActive, TypeOK, ListRows
  <2>3. /\ l \in ListRows /\ l.state = "running" /\ l.started = list.started
        /\ l.resume = list.resume
    BY <2>2 DEF ListRows, ListStates
  <2>4. /\ list' = l /\ ~check'.fresh
        /\ check' \in [on : BOOLEAN, fresh : BOOLEAN, ok : BOOLEAN, of : SUBSET Sources]
    BY <2>1, <2>3, UpdateTyped
  <2>5. ASSUME NEW u \in Sources
        PROVE  ResumedSource(src[u], src'[u]) /\ ResumedChild(child[u], child'[u])
    <3>1. ResumedSource(src[u], src'[u])
      BY <2>1 DEF ResumedSource
    <3>2. u \in again => child[u].state # "none"
      BY <2>2 DEF Selected, SourceInv, SourceFits, PlanFits, WorkFits, Unplannable
    <3>3. ResumedChild(child[u], child'[u])
      BY <2>1, <3>2 DEF ResumedChild
    <3> QED
      BY <3>1, <3>3
  <2>6. ASSUME NEW u \in Sources
        PROVE  /\ SourceFits(mode, l, "none", retry[u], src'[u], child'[u], thread[u])
               /\ src'[u] \in SourceRows /\ child'[u] \in ChildRows
    <3>1. /\ SourceFits(mode, list, word, retry[u], src[u], child[u], thread[u])
          /\ src[u] \in SourceRows /\ child[u] \in ChildRows
      BY RowsTyped DEF SourceInv
    <3> HIDE DEF l
    <3> QED
      BY <3>1, <2>3, <2>5, ResumedFits
  <2>7. TypeOK'
    <3>1. src' \in [Sources -> SourceRows] /\ child' \in [Sources -> ChildRows]
      BY <2>1, <2>6
    <3> QED
      BY <1>1, <1>2, <2>1, <2>3, <2>4, <3>1 DEF TypeOK, ListRows, SourceRows, ChildRows
  <2>8. ListInv' /\ WordInv'
    BY <1>1, <2>1, <2>2, <2>3, <2>4 DEF ListInv, WordInv, UnstartedStates
  <2>9. ASSUME NEW u \in Sources PROVE SourceInv(u)'
    <3>1. SourceFits(mode, l, "none", retry'[u], src'[u], child'[u], thread[u])
      BY <1>2, <2>6 DEF SourceFits, ModeFits, WorkFits
    <3> QED
      BY <1>1, <2>1, <2>4, <3>1 DEF SourceInv
  <2> QED
    BY <2>7, <2>8, <2>9
<1> QED
  BY <1>3, <1>4

\* stop reaches a row: it is marked, its child is told, and is halted at once where no
\* thread serves it, and a thread that has not begun ends.
StoppedThread(t, t2) ==
    t2 = t \/ (t.pc \in {"p_queued", "t_queued"} /\ t2 = [pc |-> "done", seen |-> "-"])
StoppedChild(c, t, c2) ==
    \/ c2 = c
    \/ c.state # "none" /\ \/ t.pc = "none" /\ c2 = FullyStopped(c)
                           \/ c2 = [c EXCEPT !.full = TRUE]

LEMMA StoppedRowsFit ==
    ASSUME NEW m, NEW k, NEW l, NEW w, NEW q,
           NEW r \in SourceRows, NEW c \in ChildRows, NEW t \in ThreadRows,
           NEW r2, NEW c2, NEW t2,
           r2 = r \/ r2 = [r EXCEPT !.state = "stopped"],
           StoppedChild(c, t, c2), StoppedThread(t, t2),
           SourceFits(m, k, w, q, r, c, t), l.started = k.started
    PROVE  /\ r2 \in SourceRows /\ c2 \in ChildRows /\ t2 \in ThreadRows
           /\ PlanFits(m, r2, c2, t2) /\ ModeFits(m, q, c2, t2)
           /\ WorkFits(m, l, q, r2, c2, t2)
           /\ w # "stop" => WordFits(l, w, r2, c2, t2)
           /\ c2.state = "none" \/ c2.full => WordFits(l, "stop", r2, c2, t2)
<1>1. /\ r2 \in SourceRows /\ (r2.selected <=> r.selected) /\ (r2.planned <=> r.planned)
      /\ r2.plan = r.plan /\ r2.left = r.left /\ r2.state \in {r.state, "stopped"}
  BY DEF SourceRows, SourceStates, Terminal
<1>2. /\ c2 \in ChildRows /\ (c2.planned <=> c.planned) /\ (c2.busy <=> c.busy)
      /\ c2.state \in {c.state, "stopped"} /\ ((c2.pause <=> c.pause) \/ t.pc = "none")
      /\ c2.resume \in {c.resume, "none"} /\ (c.full => c2.full)
      /\ (c.state = "none" => c2 = c)
  BY DEF StoppedChild, FullyStopped, Halted, ChildRows, ChildStates, Terminal
<1>3. t2 \in ThreadRows /\ (t2 = t \/ t2.pc = "done")
  BY DEF StoppedThread, ThreadRows, Seen
<1>4. m = "local" => c2 = c
  BY <1>2 DEF SourceFits, ModeFits, NoChild
<1>5. PlanFits(m, r2, c2, t2)
  BY <1>1, <1>2, <1>3 DEF SourceFits, PlanFits, Unwritten, PlanPCs, Unplannable
<1>6. ModeFits(m, q, c2, t2)
  BY <1>3, <1>4 DEF SourceFits, ModeFits, ChildPCs
<1>7. WorkFits(m, l, q, r2, c2, t2)
  BY <1>1, <1>2, <1>3 DEF SourceFits, WorkFits, TransferPCs
<1>8. w # "stop" => WordFits(l, w, r2, c2, t2)
  BY <1>2, <1>3 DEF SourceFits, WordFits, StoppedChild
<1>9. c2.state = "none" \/ c2.full => WordFits(l, "stop", r2, c2, t2)
  BY DEF WordFits
<1> QED
  BY <1>1, <1>2, <1>3, <1>5, <1>6, <1>7, <1>8, <1>9

LEMMA StopSourcesStops ==
    ASSUME TypeOK, NEW S, NEW flagged, StopSources(S, flagged), NEW u \in Sources
    PROVE  /\ src'[u] = src[u] \/ src'[u] = [src[u] EXCEPT !.state = "stopped"]
           /\ StoppedChild(child[u], thread[u], child'[u])
           /\ StoppedThread(thread[u], thread'[u])
           /\ u \in flagged => child'[u].state = "none" \/ child'[u].full
<1>1. src'[u] = src[u] \/ src'[u] = [src[u] EXCEPT !.state = "stopped"]
  BY DEF StopSources
<1>2. StoppedThread(thread[u], thread'[u])
  BY DEF StopSources, StoppedThread
<1>3. StoppedChild(child[u], thread[u], child'[u])
  BY DEF StopSources, StoppedChild, HasChild
<1>4. u \in flagged => child'[u].state = "none" \/ child'[u].full
  <2>1. child[u] \in ChildRows
    BY RowsTyped
  <2> QED
    BY <2>1 DEF StopSources, HasChild, FullyStopped, Halted, ChildRows
<1> QED
  BY <1>1, <1>2, <1>3, <1>4

LEMMA StopKeeps ==
    ASSUME IInv, Stop
    PROVE  IInv'
<1> USE DEF IInv
<1> DEFINE l == [list EXCEPT !.state = "stopped", !.outage = FALSE]
           refused == {s \in Sources : HasChild(s) /\ ~Stoppable(child[s])}
<1>1. /\ UNCHANGED <<mode, loop, asked, retry>>
      /\ loop.pc # "pass" /\ Update(l) /\ creds' \in BOOLEAN
      /\ budget' \in [requests : 0..MaxRequests, crashes : 0..MaxCrashes]
  BY RequestTyped DEF Stop, Request, GuardFree, TypeOK
<1>2. /\ l \in ListRows /\ l.state = "stopped" /\ l.started = list.started
      /\ l.resume = list.resume
  BY DEF TypeOK, ListRows, ListStates, Terminal
<1>3. /\ list' = l /\ ~check'.fresh
      /\ check' \in [on : BOOLEAN, fresh : BOOLEAN, ok : BOOLEAN, of : SUBSET Sources]
  BY <1>1, <1>2, UpdateTyped
<1>4. PICK S \in SUBSET Sources, flagged \in SUBSET Sources :
        /\ StopSources(S, flagged)
        /\ \/ flagged = Sources /\ word' = "stop"
           \/ refused # {} /\ word' = word
  <2>1. CASE StopSources(Sources, Sources) /\ word' = "stop"
    BY <2>1
  <2>2. CASE /\ \E f \in refused, S \in SUBSET (Sources \ refused) : StopSources(S \cup {f}, S)
             /\ word' = word
    <3>1. PICK f \in refused, S \in SUBSET (Sources \ refused) : StopSources(S \cup {f}, S)
      BY <2>2
    <3>2. S \cup {f} \in SUBSET Sources /\ S \in SUBSET Sources /\ refused # {}
      BY <3>1
    <3> QED
      BY <2>2, <3>1, <3>2
  <2> QED
    BY <2>1, <2>2 DEF Stop
<1>5. (word' = "stop" /\ flagged = Sources) \/ (word' = word /\ word # "stop")
  <2>1. ASSUME NEW s \in refused PROVE word # "stop"
    BY <2>1 DEF HasChild, Stoppable, SourceInv, SourceFits, WordFits
  <2> QED
    BY <1>4, <2>1
<1>6. ASSUME NEW u \in Sources
      PROVE  /\ src'[u] \in SourceRows /\ child'[u] \in ChildRows /\ thread'[u] \in ThreadRows
             /\ SourceFits(mode, l, word', retry[u], src'[u], child'[u], thread'[u])
  <2>1. /\ SourceFits(mode, list, word, retry[u], src[u], child[u], thread[u])
        /\ src[u] \in SourceRows /\ child[u] \in ChildRows /\ thread[u] \in ThreadRows
    BY RowsTyped DEF SourceInv
  <2>2. /\ src'[u] = src[u] \/ src'[u] = [src[u] EXCEPT !.state = "stopped"]
        /\ StoppedChild(child[u], thread[u], child'[u])
        /\ StoppedThread(thread[u], thread'[u])
        /\ u \in flagged => child'[u].state = "none" \/ child'[u].full
    BY <1>4, StopSourcesStops
  <2> HIDE DEF l
  <2>3. /\ src'[u] \in SourceRows /\ child'[u] \in ChildRows /\ thread'[u] \in ThreadRows
        /\ PlanFits(mode, src'[u], child'[u], thread'[u])
        /\ ModeFits(mode, retry[u], child'[u], thread'[u])
        /\ WorkFits(mode, l, retry[u], src'[u], child'[u], thread'[u])
        /\ word # "stop" => WordFits(l, word, src'[u], child'[u], thread'[u])
        /\ child'[u].state = "none" \/ child'[u].full =>
              WordFits(l, "stop", src'[u], child'[u], thread'[u])
    BY <2>1, <2>2, <1>2, StoppedRowsFit
  <2> QED
    BY <2>2, <2>3, <1>5 DEF SourceFits
<1>7. TypeOK'
  <2>1. /\ src' \in [Sources -> SourceRows] /\ child' \in [Sources -> ChildRows]
        /\ thread' \in [Sources -> ThreadRows]
    BY <1>4, <1>6 DEF StopSources
  <2>2. word' \in {"none", "pause", "stop", "crash"}
    BY <1>5 DEF TypeOK
  <2> QED
    BY <1>1, <1>2, <1>3, <2>1, <2>2 DEF TypeOK, ListRows, SourceRows, ChildRows, ThreadRows
<1>8. ListInv' /\ WordInv'
  BY <1>1, <1>2, <1>3, <1>5 DEF ListInv, WordInv, Halts, UnstartedStates
<1>9. \A u \in Sources : SourceInv(u)'
  BY <1>1, <1>3, <1>6 DEF SourceInv
<1> QED
  BY <1>7, <1>8, <1>9

\* The rows of a child whose credentials are given again.
LEMMA AttachedFits ==
    ASSUME NEW m, NEW q, NEW r, NEW c \in ChildRows, NEW t,
           PlanFits(m, r, c, t), ModeFits(m, q, c, t),
           c.state = "awaiting_credentials", t.pc = "none"
    PROVE  /\ Attached(c) \in ChildRows
           /\ PlanFits(m, r, Attached(c), t) /\ ModeFits(m, q, Attached(c), t)
           /\ (Attached(c).busy <=> c.busy) /\ (Attached(c).full <=> c.full)
           /\ Attached(c).state \notin {"none", "completed"}
<1>1. /\ Attached(c) \in ChildRows
      /\ (Attached(c).busy <=> c.busy) /\ (Attached(c).full <=> c.full)
      /\ (Attached(c).planned <=> c.planned) /\ Attached(c).resume = c.resume
      /\ Attached(c).state \in {"paused", "ready", c.resume}
      /\ Attached(c).state # "none"
      /\ (c.resume \in {"queued", "planning", "completed"} \/
            Attached(c).state \notin {"queued", "planning", "completed"})
  BY DEF Attached, ChildRows, ChildStates
<1>2. m # "local"
  BY DEF ModeFits, NoChild
<1> QED
  BY <1>1, <1>2 DEF PlanFits, ModeFits, Unwritten, PlanPCs, Unplannable

LEMMA AttachKeeps ==
    ASSUME IInv, AttachCredentials
    PROVE  IInv'
<1> USE DEF IInv
<1> DEFINE await == {s \in Sources : child[s].state = "awaiting_credentials"}
           state == IF list.state # "awaiting_credentials" THEN list.state
                    ELSE IF list.resume = "ready" THEN "ready"
                    ELSE IF list.resume \in {"running", "paused", "planning"} THEN "paused"
                    ELSE "draft"
           restores == mode = "onprem" /\ ~list.started /\ state \in {"ready", "needs_attention"}
           next == [s \in Sources |-> IF s \in await THEN Attached(child[s]) ELSE child[s]]
           moved == {s \in Sources : /\ HasChild(s)
                                     /\ \/ src[s].state \in {"running", "paused", "completed"}
                                        \/ next[s].state \in {"running", "paused", "completed"}}
           l == [list EXCEPT !.state = state, !.outage = FALSE]
<1>1. /\ UNCHANGED <<mode, thread, loop, asked, retry, word>>
      /\ creds' = TRUE /\ list.state # "stopped" /\ Active = {} /\ loop.pc # "pass"
      /\ budget' \in [requests : 0..MaxRequests, crashes : 0..MaxCrashes]
  BY RequestTyped DEF AttachCredentials, Request, GuardFree
<1>2. ASSUME NEW u \in Sources
      PROVE  /\ SourceFits(mode, list, word, retry[u], src[u], child[u], thread[u])
             /\ src[u] \in SourceRows /\ child[u] \in ChildRows /\ thread[u].pc = "none"
  BY <1>1, RowsTyped DEF SourceInv, Active
<1>3. CASE /\ \E S \in SUBSET {s \in await : ~child[s].full} :
                child' = [s \in Sources |-> IF s \in S THEN Attached(child[s]) ELSE child[s]]
           /\ UNCHANGED src /\ KeepList
  <2>1. PICK S \in SUBSET await :
                child' = [s \in Sources |-> IF s \in S THEN Attached(child[s]) ELSE child[s]]
    BY <1>3
  <2>2. ASSUME NEW u \in Sources
        PROVE  /\ child'[u] \in ChildRows
               /\ SourceFits(mode, list, word, retry[u], src[u], child'[u], thread[u])
    <3>1. CASE u \notin S
      BY <1>2, <2>1, <3>1
    <3>2. CASE u \in S
      <4>1. /\ Attached(child[u]) \in ChildRows
            /\ PlanFits(mode, src[u], Attached(child[u]), thread[u])
            /\ ModeFits(mode, retry[u], Attached(child[u]), thread[u])
            /\ (Attached(child[u]).busy <=> child[u].busy)
            /\ (Attached(child[u]).full <=> child[u].full)
            /\ Attached(child[u]).state \notin {"none", "completed"}
        BY <1>2, <3>2, AttachedFits DEF SourceFits
      <4>2. WorkFits(mode, list, retry[u], src[u], Attached(child[u]), thread[u])
        BY <1>2, <4>1 DEF SourceFits, WorkFits
      <4>3. WordFits(list, word, src[u], Attached(child[u]), thread[u])
        BY <1>2, <3>2, <4>1 DEF SourceFits, WordFits
      <4>4. child'[u] = Attached(child[u])
        BY <2>1, <3>2
      <4> QED
        BY <4>1, <4>2, <4>3, <4>4 DEF SourceFits
    <3> QED
      BY <3>1, <3>2
  <2>3. child' \in [Sources -> ChildRows]
    BY <2>1, <2>2
  <2>4. TypeOK' /\ ListInv' /\ WordInv'
    BY <1>1, <1>3, <2>3 DEF TypeOK, ListInv, WordInv, Selected, KeepList, ChildRows
  <2>5. \A u \in Sources : SourceInv(u)'
    BY <1>1, <1>3, <2>2 DEF SourceInv, KeepList
  <2> QED
    BY <2>4, <2>5
<1>4. CASE /\ \A s \in await : ~child[s].full
           /\ IF list.state = "awaiting_credentials" THEN Update(l) ELSE KeepList
           /\ IF restores /\ (\A s \in moved : src[s].planned /\ next[s].planned /\ ~next[s].full)
              THEN /\ src' = [s \in Sources |->
                                 IF s \in moved THEN RestoredSource(src[s]) ELSE src[s]]
                   /\ child' = [s \in Sources |->
                         IF s \in moved THEN RestoredChild(src[s], next[s]) ELSE next[s]]
              ELSE child' = next /\ UNCHANGED src
  <2>1. list \in ListRows
    BY DEF TypeOK, ListRows
  <2>2. /\ l \in ListRows /\ l.state = state /\ l.started = list.started
        /\ l.resume = list.resume
    BY <2>1 DEF ListRows, ListStates
  <2>3. /\ list' \in ListRows /\ list'.started = list.started /\ list'.resume = list.resume
        /\ check' \in [on : BOOLEAN, fresh : BOOLEAN, ok : BOOLEAN, of : SUBSET Sources]
        /\ \/ UNCHANGED <<list, check>>
           \/ ~check'.fresh /\ list.state = "awaiting_credentials" /\ list' = l
    <3>1. CASE list.state = "awaiting_credentials"
      <4> HIDE DEF l
      <4> QED
        BY <1>4, <2>2, <3>1, UpdateTyped
    <3>2. CASE list.state # "awaiting_credentials"
      BY <1>4, <2>1, <3>2 DEF KeepList, TypeOK
    <3> QED
      BY <3>1, <3>2
  <2>4. ASSUME NEW u \in Sources
        PROVE  /\ next[u] \in ChildRows
               /\ PlanFits(mode, src[u], next[u], thread[u])
               /\ ModeFits(mode, retry[u], next[u], thread[u])
               /\ (next[u].busy <=> child[u].busy) /\ (next[u].full <=> child[u].full)
               /\ next[u] = child[u] \/ (child[u].state = "awaiting_credentials"
                                         /\ next[u].state \notin {"none", "completed"})
    BY <1>2, AttachedFits DEF SourceFits
  <2>5. word = "stop" => list.started
    BY <1>1 DEF WordInv
  <2>6. ASSUME NEW u \in Sources, src'[u] = src[u], child'[u] = next[u]
        PROVE  /\ src'[u] \in SourceRows /\ child'[u] \in ChildRows
               /\ SourceFits(mode, list', word, retry[u], src'[u], child'[u], thread[u])
    <3>1. list'.state # "stopped"
      <4>1. list.state = "awaiting_credentials" => state \in {"ready", "paused", "draft"}
        OBVIOUS
      <4> HIDE DEF l, state
      <4> QED
        BY <1>1, <2>2, <2>3, <4>1
    <3> HIDE DEF next
    <3>2. WorkFits(mode, list', retry[u], src'[u], child'[u], thread[u])
      BY <1>2, <2>3, <2>4, <2>6 DEF SourceFits, WorkFits
    <3>3. WordFits(list', word, src'[u], child'[u], thread[u])
      BY <1>2, <2>3, <2>4, <2>6, <3>1 DEF SourceFits, WordFits
    <3> QED
      BY <1>2, <2>4, <2>6, <3>2, <3>3 DEF SourceFits
  <2>7. ASSUME NEW u \in Sources
        PROVE  /\ src'[u] \in SourceRows /\ child'[u] \in ChildRows
               /\ SourceFits(mode, list', word, retry[u], src'[u], child'[u], thread[u])
    <3>1. CASE src'[u] = src[u] /\ child'[u] = next[u]
      BY <3>1, <2>6
    <3>2. CASE /\ ~list.started
               /\ next[u].state # "none" /\ src[u].planned /\ next[u].planned
               /\ src'[u] = RestoredSource(src[u]) /\ child'[u] = RestoredChild(src[u], next[u])
      <4> HIDE DEF next
      <4>1. /\ PlanFits(mode, RestoredSource(src[u]), RestoredChild(src[u], next[u]), thread[u])
            /\ ModeFits(mode, retry[u], RestoredChild(src[u], next[u]), thread[u])
            /\ RestoredSource(src[u]) \in SourceRows
            /\ RestoredChild(src[u], next[u]) \in ChildRows
            /\ (RestoredChild(src[u], next[u]).busy <=> next[u].busy)
        BY <1>2, <2>4, <3>2, RestoredFits
      <4>2. thread[u].pc \notin TransferPCs /\ retry[u] = "no" /\ ~child[u].busy
        BY <3>2, NothingStarted
      <4>3. SourceFits(mode, list', "none", retry[u], src'[u], child'[u], thread[u])
        BY <2>3, <2>4, <3>2, <4>1, <4>2, FitsUnstarted
      <4>4. WordFits(list', word, src'[u], child'[u], thread[u])
        BY <1>2, <2>5, <3>2 DEF WordFits
      <4> QED
        BY <3>2, <4>1, <4>3, <4>4 DEF SourceFits
    <3>3. HasChild(u) => next[u].state # "none"
      <4> HIDE DEF next
      <4> QED
        BY <2>4 DEF HasChild
    <3>4. CASE restores /\ (\A s \in moved : src[s].planned /\ next[s].planned /\ ~next[s].full)
      <4>1. CASE u \in moved
        BY <1>4, <3>2, <3>3, <3>4, <4>1
      <4>2. CASE u \notin moved
        BY <1>4, <3>1, <3>4, <4>2
      <4> QED
        BY <4>1, <4>2
    <3>5. CASE ~(restores /\ (\A s \in moved : src[s].planned /\ next[s].planned /\ ~next[s].full))
      <4>1. child' = next /\ UNCHANGED src
        BY <1>4, <3>5
      <4> HIDE DEF next
      <4> QED
        BY <3>1, <4>1
    <3> QED
      BY <3>4, <3>5
  <2>8. ASSUME NEW u \in Sources PROVE src'[u].selected <=> src[u].selected
    <3>1. (RestoredSource(src[u]).selected <=> src[u].selected)
      BY <1>2 DEF RestoredSource, Planned, SourceRows
    <3>2. src'[u] \in {src[u], RestoredSource(src[u])}
      BY <1>4
    <3> QED
      BY <3>1, <3>2
  <2>9. TypeOK'
    <3>1. src' \in [Sources -> SourceRows] /\ child' \in [Sources -> ChildRows]
      <4>1. child' = [u \in Sources |-> child'[u]] /\ src' = [u \in Sources |-> src'[u]]
        BY <1>4 DEF TypeOK
      <4> QED
        BY <2>7, <4>1
    <3> QED
      BY <1>1, <2>3, <3>1 DEF TypeOK, ListRows, SourceRows, ChildRows
  <2>10. ListInv'
    <3>1. Selected' = Selected
      BY <2>8 DEF Selected
    <3>2. CASE UNCHANGED <<list, check>>
      BY <1>1, <3>1, <3>2 DEF ListInv
    <3>3. CASE ~check'.fresh /\ list.state = "awaiting_credentials" /\ list' = l
      BY <1>1, <2>2, <2>3, <3>3 DEF ListInv, UnstartedStates
    <3> QED
      BY <2>3, <3>2, <3>3
  <2>11. WordInv'
    <3>1. CASE UNCHANGED <<list, check>>
      BY <1>1, <3>1 DEF WordInv
    <3>2. CASE ~check'.fresh /\ list.state = "awaiting_credentials" /\ list' = l
      BY <1>1, <2>2, <2>3, <3>2 DEF WordInv, ListInv, Halts
    <3> QED
      BY <2>3, <3>1, <3>2
  <2> QED
    BY <1>1, <2>7, <2>9, <2>10, <2>11 DEF SourceInv
<1> QED
  BY <1>3, <1>4 DEF AttachCredentials

----------------------------------------------------------------------------
(* The coordinator thread. *)

\* What fits a thread that is over fits the source without a thread.
LEMMA IdleFits ==
    ASSUME NEW m, NEW l, NEW w, NEW q, NEW r, NEW c, NEW t,
           SourceFits(m, l, w, q, r, c, t), t.pc \in {"none", "done", "raised"}
    PROVE  SourceFits(m, l, w, q, r, c, Idle)
BY DEF SourceFits, PlanFits, ModeFits, WorkFits, WordFits, Idle,
   Unwritten, LooksForStop, PlanPCs, TransferPCs, ChildPCs

LEMMA BeginPassKeeps ==
    ASSUME IInv, BeginPass
    PROVE  IInv'
<1> USE DEF IInv
<1>1. UNCHANGED <<mode, list, src, child, check, asked, creds, retry, word, budget>>
  BY DEF BeginPass, Frame, KeepList
<1>2. CASE loop' = [pc |-> "dead", seen |-> "-"] /\ UNCHANGED thread
  <2>1. TypeOK'
    BY <1>1, <1>2 DEF TypeOK, Seen
  <2>2. ListInv' /\ WordInv'
    BY <1>1, <1>2 DEF ListInv, WordInv, Selected
  <2>3. \A u \in Sources : SourceInv(u)'
    BY <1>1, <1>2 DEF SourceInv
  <2> QED
    BY <2>1, <2>2, <2>3
<1>3. CASE /\ loop' = [pc |-> "pass", seen |-> list.state]
           /\ thread' = [s \in Sources |-> IF Over(s) THEN Idle ELSE thread[s]]
  <2>1. Idle \in ThreadRows
    BY DEF Idle, ThreadRows, Seen
  <2>2. thread' \in [Sources -> ThreadRows]
    BY <1>3, <2>1, RowsTyped
  <2>3. TypeOK'
    BY <1>1, <1>3, <2>2 DEF TypeOK, ThreadRows, Seen
  <2>4. ListInv' /\ WordInv'
    BY <1>1, <1>3 DEF ListInv, WordInv, Selected
  <2>5. ASSUME NEW u \in Sources PROVE SourceInv(u)'
    <3>1. PICK t : t = thread'[u]
      OBVIOUS
    <3>2. SourceFits(mode, list, word, retry[u], src[u], child[u], t)
      <4>1. SourceFits(mode, list, word, retry[u], src[u], child[u], thread[u])
        BY DEF SourceInv
      <4>2. CASE Over(u)
        BY <1>3, <3>1, <4>1, <4>2, IdleFits DEF Over
      <4>3. CASE ~Over(u)
        BY <1>3, <3>1, <4>1, <4>3
      <4> QED
        BY <4>2, <4>3
    <3> QED
      BY <1>1, <3>1, <3>2 DEF SourceInv
  <2> QED
    BY <2>3, <2>4, <2>5
<1> QED
  BY <1>2, <1>3 DEF BeginPass

\* A source is submitted, to be planned or to be transferred.
LEMMA SubmittedFits ==
    ASSUME NEW m, NEW k, NEW l, NEW w, NEW q, NEW c, NEW t, NEW r \in SourceRows,
           SourceFits(m, k, w, q, r, c, t), t.pc = "none",
           l.started = k.started, l.state # "stopped" \/ k.state = "stopped",
           NEW p \in BOOLEAN,
           p => r.state = "pending",
           ~p => l.started /\ r.selected,
           NEW r2, r2 = [r EXCEPT !.state = IF p THEN "planning" ELSE "running"],
           NEW t2, t2 = [pc |-> IF p THEN "p_queued" ELSE "t_queued", seen |-> "-"]
    PROVE  /\ r2 \in SourceRows /\ (r2.selected <=> r.selected) /\ t2 \in ThreadRows
           /\ SourceFits(m, l, w, q, r2, c, t2)
<1>1. /\ r2 \in SourceRows /\ (r2.selected <=> r.selected) /\ (r2.planned <=> r.planned)
      /\ r2.plan = r.plan /\ r2.left = r.left
      /\ (p /\ r2.state = "planning") \/ (~p /\ r2.state = "running")
  BY DEF SourceRows, SourceStates
<1>2. t2 \in ThreadRows /\ ((p /\ t2.pc = "p_queued") \/ (~p /\ t2.pc = "t_queued"))
  BY DEF ThreadRows, PlanPCs, TransferPCs, Seen
<1>3. PlanFits(m, r2, c, t2)
  BY <1>1, <1>2 DEF SourceFits, PlanFits, Unwritten, PlanPCs
<1>4. ModeFits(m, q, c, t2)
  BY <1>2 DEF SourceFits, ModeFits, ChildPCs
<1>5. WorkFits(m, l, q, r2, c, t2)
  BY <1>1, <1>2 DEF SourceFits, WorkFits, TransferPCs
<1>6. WordFits(l, w, r2, c, t2)
  BY <1>1, <1>2 DEF SourceFits, WordFits, LooksForStop
<1> QED
  BY <1>1, <1>2, <1>3, <1>4, <1>5, <1>6 DEF SourceFits

LEMMA PassKeeps ==
    ASSUME IInv, Pass
    PROVE  IInv'
<1> USE DEF IInv
<1> DEFINE ends == loop.seen = "running" /\ Selected # {}
                   /\ \A s \in Selected : src[s].state \in Terminal \cup {"error"}
           planning == loop.seen = "planning"
<1>1. /\ UNCHANGED <<mode, child, asked, creds, retry, word, budget>>
      /\ loop.pc = "pass"
      /\ loop' = [pc |-> IF planning THEN "finish" ELSE "top", seen |-> "-"]
  BY DEF Pass, Frame
<1>2. PICK D \in SUBSET {s \in Sources : Due(s)} :
        /\ thread' = [s \in Sources |->
             IF s \notin D THEN thread[s]
             ELSE [pc |-> IF planning THEN "p_queued" ELSE "t_queued", seen |-> "-"]]
        /\ src' = [s \in Sources |->
             IF s \notin D THEN src[s]
             ELSE [src[s] EXCEPT !.state = IF planning THEN "planning" ELSE "running"]]
        /\ IF \E s \in D : Reopened(s)
           THEN Update([list EXCEPT !.state = "running"])
           ELSE IF ends
           THEN Update([list EXCEPT !.state =
                   IF \A s \in Selected : src[s].state = "completed"
                   THEN "completed" ELSE "completed_with_issues"])
           ELSE KeepList
  BY DEF Pass
<1>3. \/ UNCHANGED <<list, check>>
      \/ /\ list.started /\ loop.seen \notin Halts
         /\ list' \in ListRows /\ ~check'.fresh
         /\ check' \in [on : BOOLEAN, fresh : BOOLEAN, ok : BOOLEAN, of : SUBSET Sources]
         /\ list'.started = list.started /\ list'.resume = list.resume
         /\ list'.state \in {"running", "completed", "completed_with_issues"}
  <2>1. list \in ListRows
    BY DEF TypeOK, ListRows
  <2>2. CASE \E s \in D : Reopened(s)
    <3> DEFINE l == [list EXCEPT !.state = "running"]
    <3>1. /\ l \in ListRows /\ l.started = list.started /\ l.resume = list.resume
          /\ l.state = "running"
      BY <2>1 DEF ListRows, ListStates
    <3>2. Update(l) /\ list.started /\ loop.seen \notin Halts
      BY <1>2, <2>2 DEF Reopened, Halts
    <3> HIDE DEF l
    <3> QED
      BY <3>1, <3>2, UpdateTyped
  <2>3. CASE ~(\E s \in D : Reopened(s)) /\ ends
    <3>1. PICK state \in {"completed", "completed_with_issues"} :
             Update([list EXCEPT !.state = state])
      <4>1. CASE \A s \in Selected : src[s].state = "completed"
        BY <1>2, <2>3, <4>1
      <4>2. CASE ~(\A s \in Selected : src[s].state = "completed")
        BY <1>2, <2>3, <4>2
      <4> QED
        BY <4>1, <4>2
    <3> DEFINE l == [list EXCEPT !.state = state]
    <3>2. /\ l \in ListRows /\ l.started = list.started /\ l.resume = list.resume
          /\ l.state = state
      BY <2>1 DEF ListRows, ListStates, Terminal
    <3>3. Update(l) /\ list.started /\ loop.seen \notin Halts
      BY <1>1, <2>3, <3>1 DEF ListInv, Halts
    <3> HIDE DEF l
    <3> QED
      BY <3>1, <3>2, <3>3, UpdateTyped
  <2>4. CASE ~(\E s \in D : Reopened(s)) /\ ~ends
    BY <1>2, <2>4 DEF KeepList
  <2> QED
    BY <2>2, <2>3, <2>4
<1>4. list'.started = list.started /\ (list'.state # "stopped" \/ list.state = "stopped")
  BY <1>3
<1>5. ASSUME NEW u \in Sources
      PROVE  /\ src'[u] \in SourceRows /\ thread'[u] \in ThreadRows
             /\ (src'[u].selected <=> src[u].selected)
             /\ SourceFits(mode, list', word, retry[u], src'[u], child[u], thread'[u])
  <2>1. /\ SourceFits(mode, list, word, retry[u], src[u], child[u], thread[u])
        /\ src[u] \in SourceRows /\ thread[u] \in ThreadRows
    BY RowsTyped DEF SourceInv
  <2>2. CASE u \notin D
    <3>1. src'[u] = src[u] /\ thread'[u] = thread[u]
      BY <1>2, <2>2
    <3> QED
      BY <1>4, <2>1, <3>1, FitsOtherState
  <2>3. CASE u \in D
    <3>1. /\ src'[u] = [src[u] EXCEPT !.state = IF planning THEN "planning" ELSE "running"]
          /\ thread'[u] = [pc |-> IF planning THEN "p_queued" ELSE "t_queued", seen |-> "-"]
      BY <1>2, <2>3
    <3>2. thread[u].pc = "none" /\ src[u].selected /\ Due(u)
      BY <2>3 DEF Due, Selected, Active
    <3>3. planning => src[u].state = "pending"
      BY <3>2 DEF Due, Reopened
    <3>4. ~planning => list'.started /\ src[u].selected
      BY <1>1, <1>4, <3>2 DEF Due, Reopened, ListInv
    <3>5. planning \in BOOLEAN
      OBVIOUS
    <3> HIDE DEF planning
    <3> QED
      BY <1>4, <2>1, <3>1, <3>2, <3>3, <3>4, <3>5, SubmittedFits
  <2> QED
    BY <2>2, <2>3
<1>6. TypeOK'
  <2>1. src' \in [Sources -> SourceRows] /\ thread' \in [Sources -> ThreadRows]
    <3>1. src' = [u \in Sources |-> src'[u]] /\ thread' = [u \in Sources |-> thread'[u]]
      BY <1>2
    <3> QED
      BY <1>5, <3>1
  <2>2. loop' \in [pc : {"top", "pass", "finish", "check", "dead"}, seen : Seen]
    BY <1>1 DEF Seen
  <2> QED
    BY <1>1, <1>3, <2>1, <2>2 DEF TypeOK, ListRows, SourceRows, ThreadRows
<1>7. ListInv' /\ WordInv'
  <2>1. Selected' = Selected
    BY <1>5 DEF Selected
  <2>2. loop'.pc # "pass"
    BY <1>1
  <2>3. CASE UNCHANGED <<list, check>>
    BY <1>1, <2>1, <2>2, <2>3 DEF ListInv, WordInv
  <2>4. CASE /\ list.started /\ loop.seen \notin Halts
             /\ list' \in ListRows /\ ~check'.fresh
             /\ list'.started = list.started /\ list'.resume = list.resume
             /\ list'.state \in {"running", "completed", "completed_with_issues"}
    BY <1>1, <2>2, <2>4 DEF ListInv, WordInv, UnstartedStates
  <2> QED
    BY <1>3, <2>3, <2>4
<1>8. \A u \in Sources : SourceInv(u)'
  BY <1>1, <1>5 DEF SourceInv
<1> QED
  BY <1>6, <1>7, <1>8

----------------------------------------------------------------------------
(* The crash and the restart. *)

\* What is left of the rows of a source after the restart; k is the list before it.
LEMMA RecoveredFits ==
    ASSUME NEW m, NEW l, NEW r \in SourceRows, NEW c \in ChildRows, NEW t,
           PlanFits(m, r, c, t), ModeFits(m, "no", c, t),
           l.started /\ r.selected => r.planned /\ r.plan \in {"clean", "empty"},
           c.busy => l.started /\ r.left > 0
    PROVE  /\ RecoveredSource(r) \in SourceRows /\ RecoveredChild(c) \in ChildRows
           /\ (RecoveredSource(r).selected <=> r.selected)
           /\ SourceFits(m, l, "crash", "no", RecoveredSource(r), RecoveredChild(c), Idle)
<1>1. /\ RecoveredSource(r) \in SourceRows
      /\ (RecoveredSource(r).selected <=> r.selected)
      /\ (RecoveredSource(r).planned <=> r.planned)
      /\ RecoveredSource(r).plan = r.plan /\ RecoveredSource(r).left = r.left
      /\ RecoveredSource(r).state \in {"pending", "planning"} => ~r.planned
  BY DEF RecoveredSource, SourceRows, SourceStates, PlanFits
<1>2. /\ RecoveredChild(c) \in ChildRows
      /\ (RecoveredChild(c).busy <=> c.busy) /\ (RecoveredChild(c).full <=> c.full)
      /\ (RecoveredChild(c).planned <=> c.planned)
      /\ RecoveredChild(c) = c \/
            /\ c.state # "none" /\ RecoveredChild(c).state = "awaiting_credentials"
            /\ RecoveredChild(c).resume # "completed"
            /\ c.planned => RecoveredChild(c).resume \notin {"queued", "planning"}
  BY DEF RecoveredChild, ChildRows, ChildStates, PlanFits, Unplannable
<1>3. PlanFits(m, RecoveredSource(r), RecoveredChild(c), Idle)
  BY <1>1, <1>2 DEF PlanFits, Idle, Unwritten, PlanPCs, Unplannable
<1>4. ModeFits(m, "no", RecoveredChild(c), Idle)
  BY <1>2 DEF ModeFits, Idle, NoChild, ChildPCs
<1>5. WorkFits(m, l, "no", RecoveredSource(r), RecoveredChild(c), Idle)
  BY <1>1, <1>2 DEF WorkFits, Idle, TransferPCs
<1> QED
  BY <1>1, <1>2, <1>3, <1>4, <1>5 DEF SourceFits, WordFits

LEMMA CrashKeeps ==
    ASSUME IInv, Crash
    PROVE  IInv'
<1> USE DEF IInv
<1>1. /\ UNCHANGED mode
      /\ budget' = [budget EXCEPT !.crashes = @ - 1] /\ budget.crashes > 0
      /\ list' = RecoveredList(list)
      /\ thread' = [s \in Sources |-> Idle]
      /\ loop' = [pc |-> "top", seen |-> "-"]
      /\ check' = NoCheck /\ asked' = FALSE /\ creds' = FALSE
      /\ retry' = [s \in Sources |-> "no"]
      /\ word' = "crash"
  BY DEF Crash
<1>2. PICK S \in SUBSET Selected :
        /\ S # {} => mode = "onprem" /\ CanStart /\ RestoredGroupOK
        /\ src' = [s \in Sources |-> RecoveredSource(IF s \in S THEN StartedSource(src[s])
                                                     ELSE src[s])]
        /\ child' = [s \in Sources |-> RecoveredChild(IF s \in S
                       THEN StartedChild(src[s], child[s]) ELSE child[s])]
  BY DEF Crash
<1>3. list \in ListRows /\ (list.state \in UnstartedStates => ~list.started)
      /\ (list.state = "running" => list.started)
  BY DEF TypeOK, ListRows, ListInv
<1>4. /\ list' \in ListRows /\ (list'.started <=> list.started)
      /\ \/ list'.state = list.state /\ list'.resume = list.resume
         \/ /\ list.state \in {"planning", "running", "ready", "paused"}
            /\ list'.state = "awaiting_credentials"
            /\ list'.resume = IF list.state = "paused" THEN list.resume ELSE list.state
  BY <1>1, <1>3 DEF RecoveredList, ListRows, ListStates
<1>5. ASSUME NEW u \in Sources
      PROVE  /\ src'[u] \in SourceRows /\ child'[u] \in ChildRows
             /\ (src'[u].selected <=> src[u].selected)
             /\ SourceFits(mode, list', "crash", "no", src'[u], child'[u], Idle)
  <2>1. /\ SourceFits(mode, list, word, retry[u], src[u], child[u], thread[u])
        /\ src[u] \in SourceRows /\ child[u] \in ChildRows
        /\ mode \in {"local", "onprem"}
    BY RowsTyped, BatchAssumption DEF SourceInv, TypeOK
  <2>2. ModeFits(mode, "no", child[u], thread[u])
    BY <2>1 DEF SourceFits, ModeFits
  <2>3. CASE u \notin S
    <3>1. src'[u] = RecoveredSource(src[u]) /\ child'[u] = RecoveredChild(child[u])
      BY <1>2, <2>3
    <3>2. /\ list'.started /\ src[u].selected =>
                src[u].planned /\ src[u].plan \in {"clean", "empty"}
          /\ child[u].busy => list'.started /\ src[u].left > 0
      BY <1>4, <2>1 DEF SourceFits, WorkFits
    <3>3. PlanFits(mode, src[u], child[u], thread[u])
      BY <2>1 DEF SourceFits
    <3>4. PICK r, c, l : r = src[u] /\ c = child[u] /\ l = list'
      OBVIOUS
    <3>5. /\ RecoveredSource(r) \in SourceRows /\ RecoveredChild(c) \in ChildRows
          /\ (RecoveredSource(r).selected <=> r.selected)
          /\ SourceFits(mode, l, "crash", "no", RecoveredSource(r), RecoveredChild(c), Idle)
      BY <2>1, <2>2, <3>2, <3>3, <3>4, RecoveredFits
    <3> QED
      BY <3>1, <3>4, <3>5
  <2>4. CASE u \in S
    <3>1. /\ mode = "onprem" /\ ~list.started /\ src[u].planned
      BY <1>2, <1>3, <2>4 DEF CanStart, RestoredGroupOK, UnstartedStates
    <3>2. child[u].state # "none"
      BY <2>1, <3>1 DEF SourceFits, PlanFits, Unplannable
    <3>3. PICK r, c : r = StartedSource(src[u]) /\ c = ChildOf(src[u], child[u])
      OBVIOUS
    <3>4. src'[u] = RecoveredSource(r) /\ child'[u] = RecoveredChild(c)
      BY <1>2, <2>4, <3>2, <3>3 DEF ChildOf
    <3>5. PlanFits(mode, src[u], child[u], thread[u])
      BY <2>1 DEF SourceFits
    <3>6. /\ PlanFits(mode, StartedSource(src[u]), ChildOf(src[u], child[u]), thread[u])
          /\ ModeFits(mode, "no", ChildOf(src[u], child[u]), thread[u])
          /\ StartedSource(src[u]) \in SourceRows /\ ChildOf(src[u], child[u]) \in ChildRows
          /\ (StartedSource(src[u]).selected <=> src[u].selected)
          /\ (ChildOf(src[u], child[u]).busy <=> child[u].busy)
      BY <2>1, <2>2, <3>1, <3>5, StartedFits
    <3>7. ~list'.started /\ ~c.busy
      BY <1>4, <3>1, <3>3, <3>6, NothingStarted
    <3> QED
      BY <3>3, <3>4, <3>6, <3>7, RecoveredFits
  <2> QED
    BY <2>3, <2>4
<1>6. TypeOK'
  <2>1. src' \in [Sources -> SourceRows] /\ child' \in [Sources -> ChildRows]
    <3>1. src' = [u \in Sources |-> src'[u]] /\ child' = [u \in Sources |-> child'[u]]
      BY <1>2
    <3> QED
      BY <1>5, <3>1
  <2>2. Idle \in ThreadRows
    BY DEF Idle, ThreadRows, Seen
  <2>3. NoCheck \in [on : BOOLEAN, fresh : BOOLEAN, ok : BOOLEAN, of : SUBSET Sources]
    BY DEF NoCheck
  <2>4. budget' \in [requests : 0..MaxRequests, crashes : 0..MaxCrashes]
    BY <1>1, BatchAssumption DEF TypeOK
  <2>5. loop' \in [pc : {"top", "pass", "finish", "check", "dead"}, seen : Seen]
    BY <1>1 DEF Seen
  <2> QED
    BY <1>1, <1>4, <2>1, <2>2, <2>3, <2>4, <2>5
       DEF TypeOK, ListRows, SourceRows, ChildRows, ThreadRows
<1>7. ListInv' /\ WordInv'
  <2>1. ~check'.on /\ loop'.pc # "pass"
    BY <1>1 DEF NoCheck
  <2> QED
    BY <1>1, <1>3, <1>4, <2>1 DEF ListInv, WordInv, UnstartedStates
<1>8. \A u \in Sources : SourceInv(u)'
  BY <1>1, <1>5 DEF SourceInv
<1> QED
  BY <1>6, <1>7, <1>8

----------------------------------------------------------------------------
(* The invariant holds. *)

LEMMA InitHolds == Init => IInv
<1> SUFFICES ASSUME Init PROVE IInv
  OBVIOUS
<1>1. PICK start \in {"draft", "ready"} :
        /\ list = [state |-> start, started |-> FALSE, outage |-> FALSE,
                   resume |-> IF start = "draft" THEN "none" ELSE "planning"]
        /\ src = [s \in Sources |-> IF start = "draft" THEN NewSource
                ELSE [NewSource EXCEPT !.state = "ready", !.planned = TRUE, !.plan = "clean"]]
        /\ child = [s \in Sources |-> IF start = "draft" \/ mode = "local" THEN NoChild
                ELSE [NoChild EXCEPT !.state = "ready", !.planned = TRUE]]
  BY BatchAssumption DEF Init
<1>2. /\ mode \in Modes /\ mode \in {"local", "onprem"}
      /\ thread = [s \in Sources |-> Idle] /\ loop = [pc |-> "top", seen |-> "-"]
      /\ check = NoCheck /\ asked = FALSE /\ creds = TRUE
      /\ retry = [s \in Sources |-> "no"] /\ word = "none"
      /\ budget = [requests |-> MaxRequests, crashes |-> MaxCrashes]
  BY BatchAssumption DEF Init
<1>3. NewSource \in SourceRows /\ NoChild \in ChildRows /\ Idle \in ThreadRows
  BY BatchAssumption
     DEF NewSource, SourceRows, SourceStates, Plans, NoChild, ChildRows, ChildStates,
         Idle, ThreadRows, Seen
<1>4. ASSUME NEW u \in Sources
      PROVE  /\ src[u] \in SourceRows /\ child[u] \in ChildRows /\ thread[u] \in ThreadRows
             /\ SourceInv(u)
  <2>1. CASE start = "draft"
    <3>1. src[u] = NewSource /\ child[u] = NoChild /\ thread[u] = Idle
      BY <1>1, <1>2, <2>1
    <3> QED
      BY <1>1, <1>2, <1>3, <2>1, <3>1
         DEF SourceInv, SourceFits, PlanFits, ModeFits, WorkFits, WordFits, Idle, NewSource,
             NoChild, Unwritten, LooksForStop, PlanPCs, TransferPCs, ChildPCs, Unplannable
  <2>2. CASE start = "ready"
    <3>1. PICK r, c : r = src[u] /\ c = child[u]
      OBVIOUS
    <3>2. /\ r \in SourceRows /\ r.state = "ready" /\ r.planned /\ r.plan = "clean"
      <4>1. r = [NewSource EXCEPT !.state = "ready", !.planned = TRUE, !.plan = "clean"]
        BY <1>1, <2>2, <3>1
      <4> QED
        BY <1>3, <4>1 DEF SourceRows, SourceStates, Plans
    <3>3. /\ c \in ChildRows /\ ~c.busy /\ ~c.full /\ c.resume = "none"
          /\ \/ mode = "local" /\ c = NoChild
             \/ mode = "onprem" /\ c.state = "ready" /\ c.planned
      <4>1. c = IF mode = "local" THEN NoChild
                ELSE [NoChild EXCEPT !.state = "ready", !.planned = TRUE]
        BY <1>1, <2>2, <3>1
      <4> QED
        BY <1>2, <1>3, <4>1 DEF NoChild, ChildRows, ChildStates
    <3>4. ~list.started /\ list.state = "ready" /\ thread[u] = Idle
      BY <1>1, <1>2, <2>2
    <3>5. SourceFits(mode, list, "none", "no", r, c, Idle)
      BY <3>2, <3>3, <3>4, <1>2
         DEF SourceFits, PlanFits, ModeFits, WorkFits, WordFits, Idle,
             NoChild, Unwritten, LooksForStop, PlanPCs, TransferPCs, ChildPCs, Unplannable
    <3> QED
      BY <1>2, <1>3, <3>1, <3>2, <3>3, <3>4, <3>5 DEF SourceInv
  <2> QED
    BY <2>1, <2>2
<1>5. /\ src \in [Sources -> SourceRows] /\ child \in [Sources -> ChildRows]
      /\ thread \in [Sources -> ThreadRows]
  <2>1. /\ src = [u \in Sources |-> src[u]] /\ child = [u \in Sources |-> child[u]]
        /\ thread = [u \in Sources |-> thread[u]]
    BY <1>1, <1>2
  <2> QED
    BY <1>4, <2>1
<1>6. list \in ListRows /\ ~list.started /\ list.state \in {"draft", "ready"}
      /\ list.resume \in {"none", "planning"}
  BY <1>1 DEF ListRows, ListStates
<1>7. NoCheck \in [on : BOOLEAN, fresh : BOOLEAN, ok : BOOLEAN, of : SUBSET Sources]
      /\ ~NoCheck.on
  BY DEF NoCheck
<1>8. TypeOK
  <2>1. /\ loop \in [pc : {"top", "pass", "finish", "check", "dead"}, seen : Seen]
        /\ budget \in [requests : 0..MaxRequests, crashes : 0..MaxCrashes]
    BY <1>2, BatchAssumption DEF Seen
  <2> QED
    BY <1>2, <1>5, <1>6, <1>7, <2>1 DEF TypeOK, ListRows, SourceRows, ChildRows, ThreadRows
<1>9. ListInv /\ WordInv
  BY <1>2, <1>6, <1>7 DEF ListInv, WordInv
<1> QED
  BY <1>4, <1>8, <1>9 DEF IInv

LEMMA NextKeeps == IInv /\ [Next]_vars => IInv'
<1> SUFFICES ASSUME IInv, [Next]_vars PROVE IInv'
  OBVIOUS
<1>1. CASE UNCHANGED vars
  <2>1. TypeOK' /\ ListInv' /\ WordInv'
    BY <1>1 DEF IInv, TypeOK, ListInv, WordInv, Selected, vars
  <2>2. \A u \in Sources : SourceInv(u)'
    BY <1>1 DEF IInv, SourceInv, vars
  <2> QED
    BY <2>1, <2>2 DEF IInv
<1>2. CASE Coordinator
  BY <1>2, BeginPassKeeps, PassKeeps, CheckKeeps DEF Coordinator
<1>3. CASE EndCheck
  BY <1>3, EndCheckKeeps
<1>4. CASE Handlers
  BY <1>4, CheckKeeps, QueueRetryKeeps, ActivateKeeps DEF Handlers
<1>5. CASE UserRequests
  BY <1>5, PlanKeeps, SelectionKeeps, EntrySelectionKeeps, StartTransferKeeps, PauseKeeps,
     ResumeKeeps, StopKeeps, AttachKeeps, PrepareKeeps DEF UserRequests
<1>6. CASE Crash
  BY <1>6, CrashKeeps
<1>7. CASE \E s \in Sources : Planning(s) \/ Transfer(s)
  BY <1>7, PlanningKeeps, TransferKeeps
<1> QED
  BY <1>1, <1>2, <1>3, <1>4, <1>5, <1>6, <1>7 DEF Next

\* What the list, the coordinator, the check, and the rows of every source say of each
\* other holds in every reachable state.
THEOREM IInvHolds == Spec => []IInv
<1>1. Init => IInv
  BY InitHolds
<1>2. IInv /\ [Next]_vars => IInv'
  BY NextKeeps
<1> QED
  BY <1>1, <1>2, PTL DEF Spec

----------------------------------------------------------------------------
(* What the threads may not do. *)

\* No thread enters the beginning of an object, and only one that is there makes its
\* child busy.
Quiet(s) ==
    /\ thread'[s].pc = "t_go" => thread[s].pc = "t_go"
    /\ child'[s].busy => child[s].busy \/ thread[s].pc = "t_go"

LEMMA PlanningIsQuiet ==
    ASSUME TypeOK, NEW s \in Sources, Planning(s),
           NEW u \in Sources
    PROVE  Quiet(u)
<1>1. thread[u] \in ThreadRows /\ child[u] \in ChildRows
  BY RowsTyped
<1>2. thread[s] \in ThreadRows /\ child[s] \in ChildRows
  BY RowsTyped
<1> USE DEF TypeOK, ChildRows, ThreadRows
<1>3. CASE PlanEnter(s)
  BY <1>1, <1>2, <1>3 DEF PlanEnter, Quiet, Go, GoSeeing, At, KeepList
<1>4. CASE PlanBegin(s)
  BY <1>1, <1>2, <1>4 DEF PlanBegin, Quiet, Go, GoSeeing, At, KeepList
<1>5. CASE PlanDescribe(s)
  BY <1>1, <1>2, <1>5 DEF PlanDescribe, Quiet, Go, GoSeeing, At, KeepList
<1>6. CASE PlanRetire(s)
  BY <1>1, <1>2, <1>6
     DEF PlanRetire, Quiet, Go, GoSeeing, At, KeepList, StopChild, FullyStopped, Halted
<1>7. CASE PlanMake(s)
  BY <1>1, <1>2, <1>7 DEF PlanMake, Quiet, Go, GoSeeing, At, KeepList
<1>8. CASE PlanCreate(s)
  BY <1>1, <1>2, <1>8 DEF PlanCreate, Quiet, Go, GoSeeing, At, KeepList, NoChild
<1>9. CASE PlanScanLocal(s)
  BY <1>1, <1>2, <1>9 DEF PlanScanLocal, Quiet, Go, GoSeeing, At, KeepList
<1>10. CASE PlanScanChild(s)
  BY <1>1, <1>2, <1>10 DEF PlanScanChild, Quiet, Go, GoSeeing, At, KeepList
<1>11. CASE PlanCommit(s)
  BY <1>1, <1>2, <1>11 DEF PlanCommit, Quiet, Go, GoSeeing, At, KeepList
<1>12. CASE PlanTurned(s)
  BY <1>1, <1>2, <1>12 DEF PlanTurned, Quiet, Go, GoSeeing, At, KeepList, Turned
<1>13. CASE PlanFails(s)
  BY <1>1, <1>2, <1>13 DEF PlanFails, Quiet, Go, GoSeeing, At, KeepList
<1>14. CASE PlanTooLarge(s)
  BY <1>1, <1>2, <1>14 DEF PlanTooLarge, Quiet, Go, GoSeeing, At, KeepList
<1>15. CASE PlanInterrupted(s)
  BY <1>1, <1>2, <1>15 DEF PlanInterrupted, Quiet, Go, GoSeeing, At, KeepList
<1>16. CASE PlanInterruptedChild(s)
  BY <1>1, <1>2, <1>16
     DEF PlanInterruptedChild, Quiet, Go, GoSeeing, At, KeepList, StopChild, FullyStopped, Halted
<1>17. CASE PlanFailed(s)
  BY <1>1, <1>2, <1>17 DEF PlanFailed, Quiet, Go, GoSeeing, At, KeepList
<1>18. CASE PlanFailedChild(s)
  <2>1. CASE Closed(child[s])
    BY <1>1, <1>2, <1>18, <2>1
       DEF PlanFailedChild, Quiet, Go, GoSeeing, At, KeepList
  <2>2. CASE ~Closed(child[s])
    BY <1>1, <1>2, <1>18, <2>2
       DEF PlanFailedChild, Quiet, Go, GoSeeing, At, KeepList
  <2> QED
    BY <1>18, <2>1, <2>2
<1>19. CASE PlanEnds(s)
  <2>1. PICK pc \in {"raised", "done"} : Go(s, pc)
    BY <1>19 DEF PlanEnds
  <2>2. child' = child \/ child' = [child EXCEPT ![s] = FullyStopped(child[s])]
    BY <1>19 DEF PlanEnds, StopChild
  <2>3. thread'[u].pc = "t_go" => thread[u].pc = "t_go"
    BY <1>1, <2>1 DEF Go, GoSeeing
  <2>4. FullyStopped(child[s]).busy <=> child[s].busy
    BY <1>2 DEF FullyStopped, Halted
  <2>5. child'[u].busy => child[u].busy
    BY <1>1, <2>2, <2>4
  <2> QED
    BY <2>3, <2>5 DEF Quiet
<1> QED
  BY <1>3, <1>4, <1>5, <1>6, <1>7, <1>8, <1>9, <1>10, <1>11, <1>12, <1>13, <1>14, <1>15,
     <1>16, <1>17, <1>18, <1>19 DEF Planning

LEMMA TransferIsQuiet ==
    ASSUME TypeOK, NEW s \in Sources, Transfer(s), ~ChildGoes(s),
           NEW u \in Sources
    PROVE  Quiet(u)
<1>1. thread[u] \in ThreadRows /\ child[u] \in ChildRows
  BY RowsTyped
<1>2. thread[s] \in ThreadRows /\ child[s] \in ChildRows
  BY RowsTyped
<1> USE DEF TypeOK, ChildRows, ThreadRows
<1>3. CASE TransferEnter(s)
  BY <1>1, <1>2, <1>3 DEF TransferEnter, Quiet, Go, GoSeeing, At, KeepList
<1>4. CASE TransferLoop(s)
  BY <1>1, <1>2, <1>4 DEF TransferLoop, Quiet, Go, GoSeeing, At, KeepList
<1>5. CASE TransferTurned(s)
  BY <1>1, <1>2, <1>5 DEF TransferTurned, Quiet, Go, GoSeeing, At, KeepList, Turned
<1>6. CASE CopyLocal(s)
  <2>1. CASE Go(s, "t_loop") /\ UNCHANGED child
    BY <1>1, <1>2, <1>6, <2>1
       DEF CopyLocal, Quiet, Go, GoSeeing, At, KeepList
  <2>2. CASE (\E why \in {"auth", "error"} : GoSeeing(s, "t_exc", why)) /\ UNCHANGED child
    BY <1>1, <1>2, <1>6, <2>2
       DEF CopyLocal, Quiet, Go, GoSeeing, At, KeepList
  <2> QED
    BY <1>6, <2>1, <2>2 DEF CopyLocal
<1>7. CASE CopyLocalEnds(s)
  BY <1>1, <1>2, <1>7 DEF CopyLocalEnds, Quiet, Go, GoSeeing, At, KeepList
<1>8. CASE ChildIdle(s)
  BY <1>1, <1>2, <1>8 DEF ChildIdle, Quiet, Go, GoSeeing, At, KeepList
<1>9. CASE ChildPauses(s)
  BY <1>1, <1>2, <1>9 DEF ChildPauses, Quiet, Go, GoSeeing, At, KeepList
<1>10. CASE ChildPaused(s)
  <2>1. CASE Closed(child[s])
    BY <1>1, <1>2, <1>10, <2>1
       DEF ChildPaused, Quiet, Go, GoSeeing, At, KeepList
  <2>2. CASE ~Closed(child[s])
    BY <1>1, <1>2, <1>10, <2>2
       DEF ChildPaused, Quiet, Go, GoSeeing, At, KeepList
  <2> QED
    BY <1>10, <2>1, <2>2
<1>11. CASE ChildCut(s)
  BY <1>1, <1>2, <1>11 DEF ChildCut, Quiet, Go, GoSeeing, At, KeepList
<1>12. CASE ChildBegins(s)
  BY <1>1, <1>2, <1>12 DEF ChildBegins, Quiet, Go, GoSeeing, At, KeepList
<1>13. CASE ChildEndsObject(s)
  BY <1>1, <1>2, <1>13 DEF ChildEndsObject, Quiet, Go, GoSeeing, At, KeepList
<1>14. CASE ChildEndsQueue(s)
  BY <1>1, <1>2, <1>14 DEF ChildEndsQueue, Quiet, Go, GoSeeing, At, KeepList
<1>15. CASE ChildLosesAccess(s)
  BY <1>1, <1>2, <1>15 DEF ChildLosesAccess, Quiet, Go, GoSeeing, At, KeepList
<1>16. CASE ReadChild(s)
  <2>1. CASE child[s].state = "running"
    BY <1>1, <1>2, <1>16, <2>1
       DEF ReadChild, Quiet, Go, GoSeeing, At, KeepList
  <2>2. CASE child[s].state # "running"
    BY <1>1, <1>2, <1>16, <2>2
       DEF ReadChild, Quiet, Go, GoSeeing, At, KeepList
  <2> QED
    BY <1>16, <2>1, <2>2
<1>17. CASE NoteChild(s)
  BY <1>1, <1>2, <1>17 DEF NoteChild, Quiet, Go, GoSeeing, At, KeepList
<1>18. CASE NoteList(s)
  BY <1>1, <1>2, <1>18 DEF NoteList, Quiet, Go, GoSeeing, At, KeepList, Update
<1>19. CASE ReadOutage(s)
  BY <1>1, <1>2, <1>19 DEF ReadOutage, Quiet, Go, GoSeeing, At, KeepList
<1>20. CASE PauseDestination(s)
  BY <1>1, <1>2, <1>20
     DEF PauseDestination, Quiet, Go, GoSeeing, At, KeepList, PauseChildren, Update
<1>21. CASE PauseSource(s)
  BY <1>1, <1>2, <1>21 DEF PauseSource, Quiet, Go, GoSeeing, At, KeepList
<1>22. CASE TransferInterrupted(s)
  BY <1>1, <1>2, <1>22 DEF TransferInterrupted, Quiet, Go, GoSeeing, At, KeepList
<1>23. CASE TransferInterruptedSource(s)
  BY <1>1, <1>2, <1>23 DEF TransferInterruptedSource, Quiet, Go, GoSeeing, At, KeepList
<1>24. CASE TransferFailed(s)
  BY <1>1, <1>2, <1>24 DEF TransferFailed, Quiet, Go, GoSeeing, At, KeepList
<1>25. CASE TransferUnauthorised(s)
  BY <1>1, <1>2, <1>25 DEF TransferUnauthorised, Quiet, Go, GoSeeing, At, KeepList, Update
<1>26. CASE TransferEnds(s)
  BY <1>1, <1>2, <1>26 DEF TransferEnds, Quiet, Go, GoSeeing, At, KeepList, Halted
<1> QED
  BY <1>3, <1>4, <1>5, <1>6, <1>7, <1>8, <1>9, <1>10, <1>11, <1>12, <1>13, <1>14, <1>15,
     <1>16, <1>17, <1>18, <1>19, <1>20, <1>21, <1>22, <1>23, <1>24, <1>25, <1>26 DEF Transfer,
     ChildStep

LEMMA CoordinatorIsQuiet ==
    ASSUME TypeOK, NEW u \in Sources,
           BeginPass \/ Pass \/ FinishPlanning \/ EndCheck \/ FinishSelection
    PROVE  Quiet(u)
<1>1. UNCHANGED child
  BY DEF BeginPass, Pass, FinishPlanning, EndCheck, FinishSelection
<1>2. CASE BeginPass
  BY <1>1, <1>2 DEF BeginPass, Quiet, Idle
<1>3. CASE Pass
  <2>1. PICK D : thread' = [s \in Sources |->
                 IF s \notin D THEN thread[s]
                 ELSE [pc |-> IF loop.seen = "planning" THEN "p_queued" ELSE "t_queued",
                       seen |-> "-"]]
    BY <1>3 DEF Pass
  <2> QED
    BY <1>1, <2>1 DEF Quiet
<1>4. CASE UNCHANGED thread
  BY <1>1, <1>4 DEF Quiet
<1> QED
  BY <1>2, <1>3, <1>4 DEF FinishPlanning, EndCheck, FinishSelection

\* Setting a child running, starting it, restoring it or giving it its credentials again
\* does not make it busy.
LEMMA RowsStayIdle ==
    ASSUME NEW r, NEW c \in ChildRows
    PROVE  /\ Running(c).busy <=> c.busy
           /\ [Running(c) EXCEPT !.resume = "none"].busy <=> c.busy
           /\ StartedChild(r, c).busy <=> c.busy
           /\ RestoredChild(r, c).busy <=> c.busy
           /\ Attached(c).busy <=> c.busy
           /\ FullyStopped(c).busy <=> c.busy
           /\ RecoveredChild(c).busy <=> c.busy
           /\ RestoredChild(r, Attached(c)).busy <=> c.busy
           /\ RecoveredChild(StartedChild(r, c)).busy <=> c.busy
<1>1. (Attached(c).busy <=> c.busy) /\ (StartedChild(r, c).busy <=> c.busy)
  BY DEF Attached, StartedChild, Running, ChildRows
<1>2. RestoredChild(r, Attached(c)).busy <=> c.busy
  BY DEF Attached, RestoredChild, ChildRows
<1>3. RecoveredChild(StartedChild(r, c)).busy <=> c.busy
  BY DEF RecoveredChild, StartedChild, Running, ChildRows
<1> QED
  BY <1>1, <1>2, <1>3
     DEF Running, RestoredChild, FullyStopped, Halted, RecoveredChild, ChildRows

LEMMA RequestsAreQuiet ==
    ASSUME TypeOK, NEW u \in Sources,
           UserRequests \/ (\E s \in Sources : QueueChildRetry(s) \/ ActivateChildRetry(s))
    PROVE  Quiet(u)
<1>1. \A s \in Sources : child[s] \in ChildRows
  BY RowsTyped
<1>2. CASE \E s \in Sources : QueueChildRetry(s) \/ ActivateChildRetry(s)
  <2>1. PICK s \in Sources : QueueChildRetry(s) \/ ActivateChildRetry(s)
    BY <1>2
  <2>2. child'[u] \in {child[u], Running(child[u]), [Running(child[u]) EXCEPT !.resume = "none"]}
    BY <2>1 DEF QueueChildRetry, ActivateChildRetry, TypeOK
  <2>3. UNCHANGED thread
    BY <2>1 DEF QueueChildRetry, ActivateChildRetry
  <2>4. /\ Running(child[u]).busy <=> child[u].busy
        /\ [Running(child[u]) EXCEPT !.resume = "none"].busy <=> child[u].busy
    BY <1>1, RowsStayIdle
  <2>5. child'[u].busy <=> child[u].busy
    BY <2>2, <2>4
  <2> QED
    BY <2>3, <2>5 DEF Quiet
<1>3. CASE UNCHANGED <<child, thread>>
  BY <1>3 DEF Quiet
<1>4. CASE StartTransfer
  <2>1. child'[u] \in {child[u], StartedChild(src[u], child[u]), RestoredChild(src[u], child[u])}
    BY <1>4 DEF StartTransfer, StartSources
  <2> QED
    BY <1>1, <1>4, <2>1, RowsStayIdle DEF Quiet, StartTransfer
<1>5. CASE Pause
  <2>1. child'[u] \in {child[u], [child[u] EXCEPT !.pause = TRUE]} /\ UNCHANGED thread
    BY <1>5 DEF Pause, PauseChildren
  <2> QED
    BY <1>1, <2>1 DEF Quiet, ChildRows
<1>6. CASE Resume
  <2>1. child'[u] \in {child[u], Running(child[u])} /\ UNCHANGED thread
    BY <1>6 DEF Resume
  <2> QED
    BY <1>1, <2>1, RowsStayIdle DEF Quiet
<1>7. CASE Stop
  <2>1. PICK S, flagged : StopSources(S, flagged)
    BY <1>7 DEF Stop
  <2>2. child'[u] \in {child[u], FullyStopped(child[u]), [child[u] EXCEPT !.full = TRUE]}
    BY <2>1 DEF StopSources
  <2>3. thread'[u].pc = "t_go" => thread[u].pc = "t_go"
    BY <2>1 DEF StopSources
  <2> QED
    BY <1>1, <2>2, <2>3, RowsStayIdle DEF Quiet, ChildRows
<1>8. CASE AttachCredentials
  <2>1. child'[u] \in {child[u], Attached(child[u]), RestoredChild(src[u], child[u]),
                       RestoredChild(src[u], Attached(child[u]))}
    BY <1>8 DEF AttachCredentials
  <2>2. /\ Attached(child[u]).busy <=> child[u].busy
        /\ RestoredChild(src[u], child[u]).busy <=> child[u].busy
        /\ RestoredChild(src[u], Attached(child[u])).busy <=> child[u].busy
    BY <1>1, RowsStayIdle
  <2>3. child'[u].busy <=> child[u].busy
    BY <2>1, <2>2
  <2>4. UNCHANGED thread
    BY <1>8 DEF AttachCredentials
  <2> QED
    BY <2>3, <2>4 DEF Quiet
<1> QED
  BY <1>2, <1>3, <1>4, <1>5, <1>6, <1>7, <1>8
     DEF UserRequests, Plan, Selection, EntrySelection, PrepareChildRetry

\* A step that is no beginning of an object by a child's thread is quiet.
LEMMA OthersAreQuiet ==
    ASSUME TypeOK, Next, NEW u \in Sources, \A s \in Sources : ~ChildGoes(s)
    PROVE  Quiet(u)
<1>1. CASE Crash
  <2>1. child'[u] \in {RecoveredChild(child[u]), RecoveredChild(StartedChild(src[u], child[u]))}
    BY <1>1 DEF Crash
  <2>2. thread'[u].pc # "t_go"
    BY <1>1 DEF Crash, Idle
  <2> QED
    BY <2>1, <2>2, RowsTyped, RowsStayIdle DEF Quiet
<1>2. CASE \E s \in Sources : Planning(s) \/ Transfer(s)
  BY <1>2, PlanningIsQuiet, TransferIsQuiet
<1> QED
  BY <1>1, <1>2, CoordinatorIsQuiet, RequestsAreQuiet DEF Next, Coordinator, Handlers

----------------------------------------------------------------------------
(* What only a check may write. *)

LEMMA PlanningKeepsList ==
    ASSUME NEW s \in Sources, Planning(s)
    PROVE  KeepList
BY DEF Planning, PlanEnter, PlanBegin, PlanDescribe, PlanRetire, PlanMake, PlanCreate,
   PlanScanLocal, PlanScanChild, PlanCommit, PlanTurned, Turned, PlanFails, PlanTooLarge,
   PlanInterrupted, PlanInterruptedChild, PlanFailed, PlanFailedChild, PlanEnds

\* Of the list's states a thread that transfers only writes the two that wait.
LEMMA TransferPausesList ==
    ASSUME IInv, NEW s \in Sources, Transfer(s)
    PROVE  list' = list \/ list'.state \in {"paused", "awaiting_credentials"}
<1>1. CASE NoteList(s)
  <2>1. thread[s].seen \in {"paused", "awaiting_credentials"} /\ list \in ListRows
    BY <1>1 DEF NoteList, At, IInv, SourceInv, SourceFits, WorkFits, TypeOK, ListRows
  <2> QED
    BY <1>1, <2>1 DEF NoteList, Update, ListRows
<1>2. CASE PauseDestination(s) \/ TransferUnauthorised(s)
  BY <1>2 DEF PauseDestination, TransferUnauthorised, Update, IInv, TypeOK
<1>3. CASE ~NoteList(s) /\ ~PauseDestination(s) /\ ~TransferUnauthorised(s)
  BY <1>3 DEF Transfer, ChildStep, TransferEnter, TransferLoop, TransferTurned, Turned, CopyLocal,
     CopyLocalEnds, ChildIdle, ChildPauses, ChildPaused, ChildGoes, ChildCut, ChildBegins,
     ChildEndsObject, ChildEndsQueue, ChildLosesAccess, ReadChild, NoteChild, ReadOutage,
     PauseSource, TransferInterrupted, TransferInterruptedSource, TransferFailed, TransferEnds,
     KeepList
<1> QED
  BY <1>1, <1>2, <1>3

LEMMA RequestsWriteNoVerdict ==
    ASSUME IInv, UserRequests, list.state = "planning"
    PROVE  list'.state # "ready"
<1>1. list \in ListRows
  BY DEF IInv, TypeOK, ListRows
<1>2. CASE UNCHANGED list
  BY <1>2
<1>3. CASE (\E of : Plan(of)) \/ (\E S \in SUBSET Sources : Selection(S))
  BY <1>1, <1>3 DEF Plan, Selection, Update, KeepList, ListRows
<1>4. CASE \E s \in Sources, plan \in Plans \ {"none"} : EntrySelection(s, plan)
  BY <1>1, <1>4 DEF EntrySelection, Editable
<1>5. CASE StartTransfer \/ Resume
  BY <1>5 DEF StartTransfer, CanStart, Resume
<1>6. CASE Pause \/ Stop
  BY <1>1, <1>6 DEF Pause, Stop, Update, ListRows
<1>7. CASE AttachCredentials
  BY <1>1, <1>7 DEF AttachCredentials, KeepList
<1>8. CASE \E s \in Sources : PrepareChildRetry(s)
  BY <1>8 DEF PrepareChildRetry
<1> QED
  BY <1>3, <1>4, <1>5, <1>6, <1>7, <1>8 DEF UserRequests

LEMMA OnlyChecksWriteVerdicts ==
    ASSUME IInv, Next, list.state = "planning", list'.state = "ready"
    PROVE  EndCheck
<1>1. CASE Coordinator
  <2>1. list \in ListRows
    BY DEF IInv, TypeOK, ListRows
  <2>2. CASE Pass
    BY <2>1, <2>2 DEF Pass, Update, KeepList, ListRows
  <2> QED
    BY <1>1, <2>2 DEF Coordinator, BeginPass, FinishPlanning, KeepList
<1>2. CASE Handlers
  BY <1>2 DEF Handlers, FinishSelection, QueueChildRetry, ActivateChildRetry, Update, KeepList,
     IInv, TypeOK
<1>3. CASE Crash
  BY <1>3 DEF Crash, RecoveredList, IInv, TypeOK
<1> QED
  BY <1>1, <1>2, <1>3, RequestsWriteNoVerdict, PlanningKeepsList, TransferPausesList
     DEF Next, KeepList

----------------------------------------------------------------------------
(* What runs after a crash. *)

\* The rows of a source after a crash, until the user asks for something.
Unasked(r, c, t) ==
    /\ c.state = "running" => c.full
    /\ r.state = "running" => c.full
    /\ t.pc # "none" => c.full /\ t.pc \in TransferPCs \cup {"done"}

UnaskedInv == word = "crash" =>
    /\ list.state # "planning"
    /\ list.state = "running" => \E s \in Sources : child[s].full
    /\ loop.pc = "pass" => loop.seen # "planning"
    /\ \A s \in Sources : Unasked(src[s], child[s], thread[s])

\* A stop of a child stands, and the list is where it was or waits.
LEMMA UnaskedStays ==
    ASSUME UnaskedInv, word = "crash",
           list' = list \/ list'.state \notin {"planning", "running"}
                        \/ (list'.state = "running" /\ \E u \in Sources : child[u].full),
           loop'.pc = "pass" => loop'.seen # "planning",
           \A u \in Sources : child[u].full => child'[u].full,
           \A u \in Sources : Unasked(src'[u], child'[u], thread'[u])
    PROVE  UnaskedInv'
BY DEF UnaskedInv

LEMMA PlanningIsAsked ==
    ASSUME UnaskedInv, NEW s \in Sources, Planning(s)
    PROVE  word # "crash"
<1>1. thread[s].pc \in PlanPCs
  BY DEF Planning, At, PlanPCs, PlanEnter, PlanBegin, PlanDescribe, PlanRetire, PlanMake,
     PlanCreate, PlanScanLocal, PlanScanChild, PlanCommit, PlanTurned, PlanFails, PlanTooLarge,
     PlanInterrupted, PlanInterruptedChild, PlanFailed, PlanFailedChild, PlanEnds
<1> QED
  BY <1>1 DEF UnaskedInv, Unasked, PlanPCs, TransferPCs

\* A thread that serves a child that was being stopped leaves it so, and comes to its end.
LEMMA TransferUnasked ==
    ASSUME IInv, UnaskedInv, word = "crash", NEW s \in Sources, Transfer(s),
           NEW u \in Sources
    PROVE  /\ Unasked(src'[u], child'[u], thread'[u])
           /\ child[u].full => child'[u].full
<1> USE DEF IInv
<1>1. thread[u] \in ThreadRows /\ child[u] \in ChildRows /\ src[u] \in SourceRows
  BY RowsTyped
<1>2. thread[s] \in ThreadRows /\ child[s] \in ChildRows /\ src[s] \in SourceRows
  BY RowsTyped
<1>3. /\ thread \in [Sources -> ThreadRows] /\ child \in [Sources -> ChildRows]
      /\ src \in [Sources -> SourceRows]
  BY DEF TypeOK, ThreadRows, ChildRows, SourceRows
<1>4. /\ Unasked(src[u], child[u], thread[u]) /\ Unasked(src[s], child[s], thread[s])
      /\ thread[s].pc = "t_note" => thread[s].seen # "running"
  BY DEF UnaskedInv, SourceInv, SourceFits, WorkFits
<1> USE DEF ChildRows, ThreadRows, SourceRows
<1>5. CASE TransferEnter(s)
  BY <1>1, <1>2, <1>3, <1>4, <1>5
     DEF TransferEnter, Unasked, Go, GoSeeing, At, KeepList, TransferPCs
<1>6. CASE TransferLoop(s)
  BY <1>1, <1>2, <1>3, <1>4, <1>6
     DEF TransferLoop, Unasked, Go, GoSeeing, At, KeepList, TransferPCs
<1>7. CASE TransferTurned(s)
  BY <1>1, <1>2, <1>3, <1>4, <1>7
     DEF TransferTurned, Unasked, Go, GoSeeing, At, KeepList, TransferPCs, Turned
<1>8. CASE CopyLocal(s)
  <2>1. CASE Go(s, "t_loop") /\ UNCHANGED child
    BY <1>1, <1>2, <1>3, <1>4, <1>8, <2>1
       DEF CopyLocal, Unasked, Go, GoSeeing, At, KeepList, TransferPCs
  <2>2. CASE (\E why \in {"auth", "error"} : GoSeeing(s, "t_exc", why)) /\ UNCHANGED child
    BY <1>1, <1>2, <1>3, <1>4, <1>8, <2>2
       DEF CopyLocal, Unasked, Go, GoSeeing, At, KeepList, TransferPCs
  <2> QED
    BY <1>8, <2>1, <2>2 DEF CopyLocal
<1>9. CASE CopyLocalEnds(s)
  BY <1>1, <1>2, <1>3, <1>4, <1>9
     DEF CopyLocalEnds, Unasked, Go, GoSeeing, At, KeepList, TransferPCs
<1>10. CASE ChildIdle(s)
  BY <1>1, <1>2, <1>3, <1>4, <1>10
     DEF ChildIdle, Unasked, Go, GoSeeing, At, KeepList, TransferPCs
<1>11. CASE ChildPauses(s)
  BY <1>1, <1>2, <1>3, <1>4, <1>11
     DEF ChildPauses, Unasked, Go, GoSeeing, At, KeepList, TransferPCs
<1>12. CASE ChildPaused(s)
  <2>1. CASE Closed(child[s])
    BY <1>1, <1>2, <1>3, <1>4, <1>12, <2>1
       DEF ChildPaused, Unasked, Go, GoSeeing, At, KeepList, TransferPCs
  <2>2. CASE ~Closed(child[s])
    BY <1>1, <1>2, <1>3, <1>4, <1>12, <2>2
       DEF ChildPaused, Unasked, Go, GoSeeing, At, KeepList, TransferPCs
  <2> QED
    BY <1>12, <2>1, <2>2
<1>13. CASE ChildGoes(s)
  BY <1>1, <1>2, <1>3, <1>4, <1>13
     DEF ChildGoes, Unasked, Go, GoSeeing, At, KeepList, TransferPCs
<1>14. CASE ChildCut(s)
  BY <1>1, <1>2, <1>3, <1>4, <1>14
     DEF ChildCut, Unasked, Go, GoSeeing, At, KeepList, TransferPCs
<1>15. CASE ChildBegins(s)
  BY <1>1, <1>2, <1>3, <1>4, <1>15
     DEF ChildBegins, Unasked, Go, GoSeeing, At, KeepList, TransferPCs
<1>16. CASE ChildEndsObject(s)
  BY <1>1, <1>2, <1>3, <1>4, <1>16
     DEF ChildEndsObject, Unasked, Go, GoSeeing, At, KeepList, TransferPCs
<1>17. CASE ChildEndsQueue(s)
  BY <1>1, <1>2, <1>3, <1>4, <1>17
     DEF ChildEndsQueue, Unasked, Go, GoSeeing, At, KeepList, TransferPCs
<1>18. CASE ChildLosesAccess(s)
  BY <1>1, <1>2, <1>3, <1>4, <1>18
     DEF ChildLosesAccess, Unasked, Go, GoSeeing, At, KeepList, TransferPCs
<1>19. CASE ReadChild(s)
  <2>1. CASE child[s].state = "running"
    BY <1>1, <1>2, <1>3, <1>4, <1>19, <2>1
       DEF ReadChild, Unasked, Go, GoSeeing, At, KeepList, TransferPCs
  <2>2. CASE child[s].state # "running"
    BY <1>1, <1>2, <1>3, <1>4, <1>19, <2>2
       DEF ReadChild, Unasked, Go, GoSeeing, At, KeepList, TransferPCs
  <2> QED
    BY <1>19, <2>1, <2>2
<1>20. CASE NoteChild(s)
  BY <1>1, <1>2, <1>3, <1>4, <1>20
     DEF NoteChild, Unasked, Go, GoSeeing, At, KeepList, TransferPCs
<1>21. CASE NoteList(s)
  BY <1>1, <1>2, <1>3, <1>4, <1>21
     DEF NoteList, Unasked, Go, GoSeeing, At, KeepList, TransferPCs
<1>22. CASE ReadOutage(s)
  BY <1>1, <1>2, <1>3, <1>4, <1>22
     DEF ReadOutage, Unasked, Go, GoSeeing, At, KeepList, TransferPCs
<1>23. CASE PauseDestination(s)
  BY <1>1, <1>2, <1>3, <1>4, <1>23
     DEF PauseDestination, Unasked, Go, GoSeeing, At, KeepList, TransferPCs, PauseChildren
<1>24. CASE PauseSource(s)
  BY <1>1, <1>2, <1>3, <1>4, <1>24
     DEF PauseSource, Unasked, Go, GoSeeing, At, KeepList, TransferPCs
<1>25. CASE TransferInterrupted(s)
  BY <1>1, <1>2, <1>3, <1>4, <1>25
     DEF TransferInterrupted, Unasked, Go, GoSeeing, At, KeepList, TransferPCs
<1>26. CASE TransferInterruptedSource(s)
  BY <1>1, <1>2, <1>3, <1>4, <1>26
     DEF TransferInterruptedSource, Unasked, Go, GoSeeing, At, KeepList, TransferPCs
<1>27. CASE TransferFailed(s)
  BY <1>1, <1>2, <1>3, <1>4, <1>27
     DEF TransferFailed, Unasked, Go, GoSeeing, At, KeepList, TransferPCs
<1>28. CASE TransferUnauthorised(s)
  BY <1>1, <1>2, <1>3, <1>4, <1>28
     DEF TransferUnauthorised, Unasked, Go, GoSeeing, At, KeepList, TransferPCs
<1>29. CASE TransferEnds(s)
  <2>1. CASE HasChild(s) /\ list.state = "stopped"
    BY <1>1, <1>2, <1>3, <1>4, <1>29, <2>1
       DEF TransferEnds, Unasked, Go, GoSeeing, At, KeepList, TransferPCs, Halted
  <2>2. CASE ~(HasChild(s) /\ list.state = "stopped")
    BY <1>1, <1>2, <1>3, <1>4, <1>29, <2>2
       DEF TransferEnds, Unasked, Go, GoSeeing, At, KeepList, TransferPCs, Halted
  <2> QED
    BY <1>29, <2>1, <2>2
<1> QED
  BY <1>5, <1>6, <1>7, <1>8, <1>9, <1>10, <1>11, <1>12, <1>13, <1>14, <1>15, <1>16, <1>17,
     <1>18, <1>19, <1>20, <1>21, <1>22, <1>23, <1>24, <1>25, <1>26, <1>27, <1>28, <1>29 DEF
     Transfer, ChildStep

LEMMA PassUnasked ==
    ASSUME IInv, UnaskedInv, word = "crash", Pass
    PROVE  UnaskedInv'
<1> USE DEF IInv
<1>1. UNCHANGED <<child, word>> /\ loop'.pc # "pass" /\ loop.pc = "pass"
  BY DEF Pass, Frame
<1>2. PICK D \in SUBSET {s \in Sources : Due(s)} :
        /\ thread' = [s \in Sources |->
             IF s \notin D THEN thread[s]
             ELSE [pc |-> IF loop.seen = "planning" THEN "p_queued" ELSE "t_queued",
                   seen |-> "-"]]
        /\ src' = [s \in Sources |->
             IF s \notin D THEN src[s]
             ELSE [src[s] EXCEPT !.state = IF loop.seen = "planning" THEN "planning"
                                           ELSE "running"]]
        /\ \/ (\E s \in D : Reopened(s)) /\ Update([list EXCEPT !.state = "running"])
           \/ \E state \in {"completed", "completed_with_issues"} :
                 Update([list EXCEPT !.state = state])
           \/ KeepList
  BY DEF Pass
<1>3. loop.seen # "planning" /\ \A u \in Sources : Unasked(src[u], child[u], thread[u])
  BY <1>1 DEF UnaskedInv
<1>4. ASSUME NEW u \in D PROVE child[u].full
  BY <1>3, <1>4 DEF Due, Reopened, Unasked
<1>5. ASSUME NEW u \in Sources PROVE Unasked(src'[u], child'[u], thread'[u])
  BY <1>1, <1>2, <1>3, <1>4, RowsTyped DEF Unasked, SourceRows, TransferPCs
<1>6. list' = list \/ list'.state \notin {"planning", "running"}
         \/ (list'.state = "running" /\ \E u \in Sources : child[u].full)
  BY <1>2, <1>4 DEF Update, KeepList, TypeOK
<1> QED
  BY <1>1, <1>5, <1>6, UnaskedStays

LEMMA CoordinatorUnasked ==
    ASSUME IInv, UnaskedInv, word = "crash", Coordinator \/ EndCheck \/ FinishSelection
    PROVE  UnaskedInv'
<1> USE DEF IInv
<1>1. CASE BeginPass
  <2>1. ASSUME NEW u \in Sources PROVE Unasked(src'[u], child'[u], thread'[u])
    BY <1>1 DEF BeginPass, UnaskedInv, Unasked, Idle, KeepList, Frame
  <2>2. loop'.pc = "pass" => loop'.seen # "planning"
    BY <1>1 DEF BeginPass, UnaskedInv
  <2> QED
    BY <1>1, <2>1, <2>2, UnaskedStays DEF BeginPass, KeepList
<1>2. CASE FinishPlanning \/ EndCheck \/ FinishSelection
  <2>1. /\ UNCHANGED <<src, child, thread>>
        /\ loop'.pc = "pass" => loop'.seen = loop.seen /\ loop.pc = "pass"
    BY <1>2 DEF FinishPlanning, EndCheck, FinishSelection, TypeOK
  <2>2. list' = list \/ list'.state \in {"ready", "needs_attention"}
    BY <1>2 DEF FinishPlanning, EndCheck, FinishSelection, TypeOK
  <2> QED
    BY <2>1, <2>2, UnaskedStays DEF UnaskedInv
<1> QED
  BY <1>1, <1>2, PassUnasked DEF Coordinator

\* Of the requests, only those that set nothing going leave the word of the crash.
LEMMA RequestsUnasked ==
    ASSUME IInv, UnaskedInv, word = "crash", word' = "crash", UserRequests
    PROVE  UnaskedInv'
<1> USE DEF IInv
<1>1. list \in ListRows /\ \A u \in Sources :
        /\ src[u] \in SourceRows /\ child[u] \in ChildRows /\ thread[u] \in ThreadRows
        /\ Unasked(src[u], child[u], thread[u])
  BY RowsTyped DEF TypeOK, ListRows, UnaskedInv
<1>2. CASE \E s \in Sources, plan \in Plans \ {"none"} : EntrySelection(s, plan)
  <2>1. PICK s \in Sources, plan \in Plans \ {"none"} : EntrySelection(s, plan)
    BY <1>2
  <2>2. /\ UNCHANGED <<child, thread, loop>>
        /\ src' = [src EXCEPT ![s] = Planned(src[s], plan)]
        /\ Update([list EXCEPT !.state = "awaiting_credentials", !.resume = "ready",
                               !.outage = FALSE])
    BY <2>1 DEF EntrySelection
  <2>3. list'.state = "awaiting_credentials"
    BY <1>1, <2>2 DEF Update, ListRows
  <2>4. Planned(src[s], plan).state # "running"
    BY <1>1 DEF Planned, SourceRows
  <2>5. ASSUME NEW u \in Sources PROVE Unasked(src'[u], child'[u], thread'[u])
    BY <1>1, <2>2, <2>4 DEF Unasked, TypeOK
  <2> QED
    BY <2>2, <2>3, <2>5, UnaskedStays DEF UnaskedInv
<1>3. CASE Stop
  <2>1. /\ Update([list EXCEPT !.state = "stopped", !.outage = FALSE]) /\ UNCHANGED loop
    BY <1>3 DEF Stop
  <2>2. PICK S, flagged : StopSources(S, flagged)
    BY <1>3 DEF Stop
  <2>3. list'.state = "stopped"
    BY <1>1, <2>1 DEF Update, ListRows
  <2>4. ASSUME NEW u \in Sources
        PROVE  Unasked(src'[u], child'[u], thread'[u]) /\ (child[u].full => child'[u].full)
    <3>1. src'[u] = src[u] \/ src'[u].state = "stopped"
      BY <1>1, <2>2 DEF StopSources, SourceRows
    <3>2. thread'[u] = thread[u] \/ (thread[u].pc # "none" /\ thread'[u].pc = "done")
      BY <2>2 DEF StopSources
    <3>3. child'[u] = child[u] \/ child'[u].full
      BY <1>1, <2>2 DEF StopSources, FullyStopped, Halted, ChildRows
    <3> QED
      BY <1>1, <3>1, <3>2, <3>3 DEF Unasked
  <2> QED
    BY <2>1, <2>3, <2>4, UnaskedStays DEF UnaskedInv
<1>4. CASE AttachCredentials
  <2>1. UNCHANGED <<thread, loop>>
    BY <1>4 DEF AttachCredentials
  <2>2. list' = list \/ list'.state \in {"ready", "paused", "draft"}
    BY <1>1, <1>4 DEF AttachCredentials, Update, KeepList, ListRows
  <2>3. ASSUME NEW u \in Sources
        PROVE  Unasked(src'[u], child'[u], thread'[u]) /\ (child[u].full => child'[u].full)
    <3>1. /\ Attached(child[u]) \in ChildRows /\ Attached(child[u]).state # "running"
          /\ (Attached(child[u]).full <=> child[u].full)
      BY <1>1 DEF Attached, ChildRows, ChildStates
    <3>2. \A c \in {child[u], Attached(child[u])} :
             /\ RestoredChild(src[u], c).state # "running"
             /\ (RestoredChild(src[u], c).full <=> child[u].full)
      BY <1>1, <3>1 DEF RestoredChild, ChildRows
    <3>3. RestoredSource(src[u]).state # "running"
      BY <1>1 DEF RestoredSource, Planned, SourceRows
    <3>4. src'[u] \in {src[u], RestoredSource(src[u])}
      BY <1>4 DEF AttachCredentials
    <3>5. child'[u] \in {child[u], Attached(child[u]), RestoredChild(src[u], child[u]),
                         RestoredChild(src[u], Attached(child[u]))}
      BY <1>4 DEF AttachCredentials
    <3>6. (child'[u].full <=> child[u].full) /\ (child'[u].state = "running" => child[u].full)
      BY <1>1, <3>1, <3>2, <3>5 DEF Unasked
    <3>7. src'[u].state = "running" => child[u].full
      BY <1>1, <3>3, <3>4 DEF Unasked
    <3> QED
      BY <1>1, <2>1, <3>6, <3>7 DEF Unasked
  <2> QED
    BY <2>1, <2>2, <2>3, UnaskedStays DEF UnaskedInv
<1>5. CASE \E s \in Sources : PrepareChildRetry(s)
  BY <1>5, UnaskedStays DEF PrepareChildRetry, UnaskedInv
<1> QED
  BY <1>2, <1>3, <1>4, <1>5
     DEF UserRequests, Plan, Selection, StartTransfer, Pause, Resume

LEMMA RetryUnasked ==
    ASSUME UnaskedInv, word = "crash", word' = "crash",
           NEW s \in Sources, QueueChildRetry(s) \/ ActivateChildRetry(s)
    PROVE  UnaskedInv'
<1>1. UNCHANGED <<list, src, child, thread, loop>>
  BY DEF QueueChildRetry, ActivateChildRetry, KeepList
<1> QED
  BY <1>1 DEF UnaskedInv

LEMMA CrashUnasked ==
    ASSUME IInv, Crash
    PROVE  UnaskedInv'
<1> USE DEF IInv
<1>1. list'.state \notin {"planning", "running"}
  BY DEF Crash, RecoveredList, TypeOK
<1>2. loop'.pc # "pass"
  BY DEF Crash
<1>3. ASSUME NEW u \in Sources PROVE Unasked(src'[u], child'[u], thread'[u])
  <2>1. PICK r \in SourceRows, c \in ChildRows :
          src'[u] = RecoveredSource(r) /\ child'[u] = RecoveredChild(c)
    <3>1. src[u] \in SourceRows /\ child[u] \in ChildRows
      BY RowsTyped
    <3>2. StartedSource(src[u]) \in SourceRows
      BY <3>1, StartedTyped
    <3>3. StartedChild(src[u], child[u]) \in ChildRows
      BY <3>1 DEF StartedChild, Running, ChildRows, ChildStates, Terminal
    <3>4. PICK S : /\ src' = [s \in Sources |->
                        RecoveredSource(IF s \in S THEN StartedSource(src[s]) ELSE src[s])]
                   /\ child' = [s \in Sources |->
                        RecoveredChild(IF s \in S THEN StartedChild(src[s], child[s])
                                       ELSE child[s])]
      BY DEF Crash
    <3>5. CASE u \in S
      BY <3>2, <3>3, <3>4, <3>5
    <3>6. CASE u \notin S
      BY <3>1, <3>4, <3>6
    <3> QED
      BY <3>5, <3>6
  <2>2. RecoveredSource(r).state # "running"
    BY DEF RecoveredSource, SourceRows
  <2>3. RecoveredChild(c).state = "running" => RecoveredChild(c).full
    BY DEF RecoveredChild, ChildRows
  <2>4. thread'[u].pc = "none"
    BY DEF Crash, Idle
  <2> QED
    BY <2>1, <2>2, <2>3, <2>4 DEF Unasked
<1> QED
  BY <1>1, <1>2, <1>3 DEF UnaskedInv

\* Only a crash gives the word of the crash.
LEMMA WordIsGiven ==
    ASSUME Next, ~Crash
    PROVE  word' \in {word, "none", "pause", "stop"}
<1>1. CASE Coordinator \/ EndCheck \/ Handlers
  BY <1>1 DEF Coordinator, BeginPass, Pass, FinishPlanning, EndCheck, Handlers, FinishSelection,
     QueueChildRetry, ActivateChildRetry, Frame
<1>2. CASE UserRequests
  BY <1>2 DEF UserRequests, Plan, Selection, EntrySelection, StartTransfer, Pause, Resume, Stop,
     AttachCredentials, PrepareChildRetry
<1>3. CASE \E s \in Sources : Planning(s)
  BY <1>3 DEF Frame, Rest, Planning, PlanEnter, PlanBegin, PlanDescribe, PlanRetire, PlanMake,
     PlanCreate, PlanScanLocal, PlanScanChild, PlanCommit, PlanTurned, Turned, PlanFails,
     PlanTooLarge, PlanInterrupted, PlanInterruptedChild, PlanFailed, PlanFailedChild, PlanEnds
<1>4. CASE \E s \in Sources : Transfer(s)
  BY <1>4
     DEF Frame, Rest, Transfer, ChildStep, TransferEnter, TransferLoop, TransferTurned, Turned,
     CopyLocal, CopyLocalEnds, ChildIdle, ChildPauses, ChildPaused, ChildGoes, ChildCut,
     ChildBegins, ChildEndsObject, ChildEndsQueue, ChildLosesAccess, ReadChild, NoteChild,
     NoteList, ReadOutage, PauseDestination, PauseSource, TransferInterrupted,
     TransferInterruptedSource, TransferFailed, TransferUnauthorised, TransferEnds
<1> QED
  BY <1>1, <1>2, <1>3, <1>4 DEF Next

LEMMA NextUnasked == IInv /\ UnaskedInv /\ [Next]_vars => UnaskedInv'
<1> SUFFICES ASSUME IInv, UnaskedInv, [Next]_vars, word' = "crash" PROVE UnaskedInv'
  BY DEF UnaskedInv
<1>1. CASE UNCHANGED vars
  BY <1>1 DEF UnaskedInv, vars
<1>2. CASE Crash
  BY <1>2, CrashUnasked
<1>3. CASE Next /\ word = "crash"
  <2>1. CASE \E s \in Sources : Transfer(s)
    <3>1. PICK s \in Sources : Transfer(s)
      BY <2>1
    <3>2. UNCHANGED loop
      BY <3>1 DEF Rest, Transfer, ChildStep, TransferEnter, TransferLoop,
         TransferTurned, Turned, CopyLocal, CopyLocalEnds, ChildIdle, ChildPauses, ChildPaused,
         ChildGoes, ChildCut, ChildBegins, ChildEndsObject, ChildEndsQueue, ChildLosesAccess,
         ReadChild, NoteChild, NoteList, ReadOutage, PauseDestination, PauseSource,
         TransferInterrupted, TransferInterruptedSource, TransferFailed, TransferUnauthorised,
         TransferEnds
    <3>3. list' = list \/ list'.state \in {"paused", "awaiting_credentials"}
      BY <3>1, TransferPausesList
    <3>4. \A u \in Sources : /\ Unasked(src'[u], child'[u], thread'[u])
                             /\ child[u].full => child'[u].full
      BY <1>3, <3>1, TransferUnasked
    <3> QED
      BY <1>3, <3>2, <3>3, <3>4, UnaskedStays DEF UnaskedInv
  <2> QED
    BY <1>2, <1>3, <2>1, PlanningIsAsked, CoordinatorUnasked, RequestsUnasked, RetryUnasked
       DEF Next, Handlers
<1>4. CASE Next /\ word # "crash" /\ ~Crash
  <2>1. word' \in {word, "none", "pause", "stop"}
    BY <1>4, WordIsGiven
  <2> QED
    BY <1>4, <2>1
<1> QED
  BY <1>1, <1>2, <1>3, <1>4

\* UnaskedInv needs what IInv says of the threads, and is inductive with it.
THEOREM UnaskedHolds == Spec => []UnaskedInv
<1>1. Init => UnaskedInv
  BY DEF Init, UnaskedInv
<1>2. IInv /\ UnaskedInv /\ [Next]_vars => UnaskedInv'
  BY NextUnasked
<1> QED
  BY <1>1, <1>2, IInvHolds, PTL DEF Spec

----------------------------------------------------------------------------
(* The theorems. *)

\* Every variable of the list, its sources, their children and threads has its type, in
\* every reachable state.
THEOREM BatchTypeCorrect == Spec => []TypeOK
<1>1. IInv => TypeOK
  BY DEF IInv
<1> QED
  BY <1>1, IInvHolds, PTL

\* start_transfer is the one way to a running list: nothing is transferred before it, and
\* whatever is planned, selected or given up around it, every source it starts has a
\* complete plan without conflicts.
THEOREM StartsAreComplete == Spec => []StartsComplete
<1>1. IInv => StartsComplete
  <2>1. ASSUME IInv, NEW s \in Sources, thread[s].pc \in TransferPCs PROVE list.started
    BY <2>1 DEF IInv, SourceInv, SourceFits, WorkFits
  <2>2. ASSUME IInv, list.started, NEW s \in Selected
        PROVE  src[s].planned /\ src[s].plan \in {"clean", "empty"}
    BY <2>2 DEF IInv, SourceInv, SourceFits, WorkFits, Selected
  <2> QED
    BY <2>1, <2>2 DEF IInv, ListInv, StartsComplete
<1> QED
  BY <1>1, IInvHolds, PTL

\* A stop reaches the children that no thread serves: of those that one serves, the
\* thread stops them before it ends, even the child it was about to create.
THEOREM StopsReach == Spec => []ObeyedStopReaches
<1>1. IInv => ObeyedStopReaches
  <2>1. ASSUME IInv, word = "stop", list.state = "stopped", NEW s \in Sources,
               HasChild(s), ~child[s].full
        PROVE  thread[s].pc \in LooksForStop
    BY <2>1 DEF IInv, SourceInv, SourceFits, WordFits, HasChild
  <2>2. \A s \in Sources : thread[s].pc \in LooksForStop => ~Over(s)
    BY DEF LooksForStop, Over
  <2> QED
    BY <2>1, <2>2 DEF ObeyedStopReaches
<1> QED
  BY <1>1, IInvHolds, PTL

\* After a crash only a source whose child was being stopped can be served, or set the list
\* running, before the user asks for something.
THEOREM AfterCrashNothingRuns == Spec => []NothingRunsUnasked
<1>1. UnaskedInv => NothingRunsUnasked
  BY DEF UnaskedInv, Unasked, NothingRunsUnasked, Active
<1> QED
  BY <1>1, UnaskedHolds, PTL

\* No verdict of a check is written for a list whose selection, or anything else of its
\* row, has changed since the check began.
THEOREM VerdictsAreCurrent == Spec => VerdictIsCurrent
<1>1. IInv /\ [Next]_vars =>
        (list.state = "planning" /\ list'.state = "ready" => check.of = Selected)
  <2> SUFFICES ASSUME IInv, [Next]_vars, list.state = "planning", list'.state = "ready"
               PROVE  check.of = Selected
    OBVIOUS
  <2>1. Next
    BY DEF vars
  <2>2. EndCheck
    BY <2>1, OnlyChecksWriteVerdicts
  <2>3. check.on /\ check.fresh
    BY <2>2 DEF EndCheck
  <2> QED
    BY <2>3 DEF IInv, ListInv
<1> QED
  BY <1>1, IInvHolds, PTL DEF Spec, VerdictIsCurrent

\* A new plan of a source creates its child only when the child of the earlier plan is
\* stopped and its paths are released.
THEOREM ReplacedAreStopped == Spec => ReplacedIsStopped
<1>1. IInv /\ [Next]_vars => \A s \in Sources :
        /\ HasChild(s) /\ thread[s].pc = "p_create" /\ thread'[s].pc = "p_scan"
        => child[s].state = "stopped" /\ child[s].full
  BY DEF IInv, SourceInv, SourceFits, PlanFits, HasChild
<1> QED
  BY <1>1, IInvHolds, PTL DEF Spec, ReplacedIsStopped

\* Between the answer to a pause and the request that sets the list going again no thread
\* of a child takes up another object, whatever else the user asks for.
THEOREM PausedBegins == Spec => PausedBeginsNothing
<1>1. IInv /\ [Next]_vars => (word = "pause" =>
        \A s \in Sources : /\ thread'[s].pc = "t_go" => thread[s].pc = "t_go"
                           /\ child'[s].busy /\ ~child[s].busy => thread[s].pc = "t_go")
  <2> SUFFICES ASSUME IInv, [Next]_vars, word = "pause", NEW s \in Sources
               PROVE  Quiet(s)
    BY DEF Quiet
  <2>1. ASSUME NEW u \in Sources PROVE ~ChildGoes(u)
    <3>1. thread[u].pc = "t_step" /\ child[u].state = "running" => child[u].pause
      BY DEF IInv, SourceInv, SourceFits, WordFits
    <3> QED
      BY <3>1 DEF ChildGoes, At, ChildRuns
  <2>2. CASE Next
    BY <2>1, <2>2, OthersAreQuiet DEF IInv
  <2>3. CASE UNCHANGED vars
    BY <2>3 DEF Quiet, vars
  <2> QED
    BY <2>2, <2>3
<1> QED
  BY <1>1, IInvHolds, PTL DEF Spec, PausedBeginsNothing
=============================================================================
