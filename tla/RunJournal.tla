----------------------------- MODULE RunJournal -----------------------------
(***************************************************************************)
(* RunJournal: the tables of runs and of their events, in SQLite.  Every   *)
(* operation holds the lock of the journal and is one transaction, so it   *)
(* happens whole or, when it raises JournalError, not at all; cleanup      *)
(* follows its transaction by a VACUUM that may fail alone.                *)
(*                                                                         *)
(* An event is the kind of its payload.  The sequence number of an event   *)
(* is its index in the run: the numbers of the table grow with every       *)
(* insertion and are never given out twice, so within a run only their     *)
(* order is visible.                                                       *)
(***************************************************************************)
EXTENDS Integers, Sequences

CONSTANT Runs       \* the identifiers of runs, drawn afresh for every run

VARIABLES
    rows,           \* the table "runs": status, and journal_error
    events          \* the table "events", by run

journalVars == <<rows, events>>

Finished == {"done", "error", "interrupted"}
Statuses == Finished \cup {"running"}
Kinds == Statuses \cup {"log"}

Row(status, lossy) == [st |-> status, lossy |-> lossy]
NoRow == Row("none", FALSE)

JournalTypeOK ==
    /\ rows \in [Runs -> [st : Statuses \cup {"none"}, lossy : BOOLEAN]]
    /\ events \in [Runs -> Seq(Kinds)]

JournalInit ==
    /\ rows = [r \in Runs |-> NoRow]
    /\ events = [r \in Runs |-> <<>>]

Saved(r) == rows[r].st # "none"
Last(s) == s[Len(s)]

\* create inserts the row and its first event; more are the events its caller
\* adds before anybody else can see the run.
Create(r, row, more) ==
    /\ ~Saved(r)
    /\ rows' = [rows EXCEPT ![r] = row]
    /\ events' = [events EXCEPT ![r] = <<"running">> \o more]

\* append: the foreign key refuses an event of a run that is not there.
AppendEvent(r, kind) ==
    /\ Saved(r)
    /\ events' = [events EXCEPT ![r] = Append(@, kind)]
    /\ UNCHANGED rows

\* finish does not look at the status the row has.
FinishRow(r, status, lossy) ==
    /\ Saved(r)
    /\ rows' = [rows EXCEPT ![r] = Row(status, lossy)]
    /\ events' = [events EXCEPT ![r] = Append(@, status)]

\* recover, at the start of a process: every run that was running is interrupted.
Recoverable(r) == rows[r].st = "running"
Recover ==
    /\ rows' = [r \in Runs |->
                  IF Recoverable(r) THEN [rows[r] EXCEPT !.st = "interrupted"] ELSE rows[r]]
    /\ events' = [r \in Runs |->
                    IF Recoverable(r) THEN Append(events[r], "interrupted") ELSE events[r]]

\* events: the page of at most limit events after a cursor, up to the cutoff.
Cutoff(r) == Len(events[r])
PageEnd(r, after, limit) ==
    IF after + limit < Cutoff(r) THEN after + limit ELSE Cutoff(r)

\* cleanup deletes the runs of a mode unless one of them is running and is not
\* known to be over.
InUse(completed) == \E r \in Runs : rows[r].st = "running" /\ r \notin completed
DeleteAll ==
    /\ rows' = [r \in Runs |-> NoRow]
    /\ events' = [r \in Runs |-> <<>>]

----------------------------------------------------------------------------
\* A run has at most one final event, it is the last of its events, and the
\* row agrees with it: no writer adds to a run that is over, and no run ends
\* twice, whichever of its threads, a failed start and a recovery end it.
EndsOnce(r) ==
    \A i \in 1..Len(events[r]) : events[r][i] \in Finished =>
        /\ i = Len(events[r])
        /\ rows[r].st = events[r][i]

=============================================================================
