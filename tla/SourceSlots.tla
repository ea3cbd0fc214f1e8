---------------------------- MODULE SourceSlots ----------------------------
(***************************************************************************)
(* The process-wide pool of source lanes (app/source_slots.py).            *)
(*                                                                         *)
(* Two kinds of actor share the pool.  The on-premises worker takes and    *)
(* gives back the lane of a standalone job with try_acquire and release,   *)
(* both idempotent and keyed by the owner's name.  Batch sources and local *)
(* saves take a lane with the re-entrant context manager lease, which      *)
(* polls until a lane is free and counts its holders per owner.  Every     *)
(* block under the condition variable is one action here.                  *)
(*                                                                         *)
(* A definition just before the one its name begins like, and used nowhere *)
(* else, is a seeded defect: in its neighbour's place it must break one of *)
(* the properties.                                                         *)
(***************************************************************************)
EXTENDS Integers, FiniteSets

CONSTANTS
    Jobs,           \* "onprem:<job>" of jobs the worker schedules itself
    Leasers,        \* the threads that enter lease()
    LeaseOwners,    \* "batch:<source>", "local:<job>", "onprem:<managed child>"
    Owner,          \* the owner each leasing thread passes
    Limit           \* SourceSlots.limit

\* A managed child is in excluded_job_ids before its lane is leased, so the
\* worker never acquires or releases an owner that some thread leases.
ASSUME SlotsAssumption ==
    /\ IsFiniteSet(Jobs) /\ IsFiniteSet(LeaseOwners)
    /\ Jobs \cap LeaseOwners = {}
    /\ IsFiniteSet(Leasers)
    /\ Owner \in [Leasers -> LeaseOwners]
    /\ Limit \in Nat \ {0}

VARIABLES
    owners,     \* _owners
    leases,     \* _leases, with 0 for an owner that has no entry
    thread      \* where each leasing thread stands in lease()

slots == <<owners, leases, thread>>

AllOwners == Jobs \cup LeaseOwners

\* "polling": in the while loop; "inside": from the acquisition to the finally
\* block, the second checkpoint included (it may raise at once).
ThreadStates == {"idle", "polling", "inside"}

Holding(c) == thread[c] = "inside"
Holders(o) == {c \in Leasers : Owner[c] = o /\ Holding(c)}

SlotsInit ==
    /\ owners = {}
    /\ leases = [o \in LeaseOwners |-> 0]
    /\ thread = [c \in Leasers |-> "idle"]

\* The test and the insertion both try_acquire and lease perform.
Admits(o) == o \in owners \/ Cardinality(owners) < Limit

TryAcquire(o) ==
    /\ Admits(o)
    /\ owners' = owners \cup {o}
    /\ UNCHANGED <<leases, thread>>

Release(o) ==
    /\ owners' = owners \ {o}
    /\ UNCHANGED <<leases, thread>>

EnterLease(c) ==
    /\ thread[c] = "idle"
    /\ thread' = [thread EXCEPT ![c] = "polling"]
    /\ UNCHANGED <<owners, leases>>

\* The first checkpoint raises: the batch was stopped, paused or shut down.
AbandonLease(c) ==
    /\ thread[c] = "polling"
    /\ thread' = [thread EXCEPT ![c] = "idle"]
    /\ UNCHANGED <<owners, leases>>

AcquireUncounted(c) ==
    /\ thread[c] = "polling"
    /\ Admits(Owner[c])
    /\ owners' = owners \cup {Owner[c]}
    /\ UNCHANGED leases
    /\ thread' = [thread EXCEPT ![c] = "inside"]
AcquireLease(c) ==
    /\ thread[c] = "polling"
    /\ Admits(Owner[c])
    /\ owners' = owners \cup {Owner[c]}
    /\ leases' = [leases EXCEPT ![Owner[c]] = @ + 1]
    /\ thread' = [thread EXCEPT ![c] = "inside"]

\* The body ends, or the second checkpoint raises: the finally block gives the
\* lane back only when the last holder of the owner leaves.
ExitLeaseLate(c) ==
    /\ Holding(c)
    /\ leases' = [leases EXCEPT ![Owner[c]] = @ - 1]
    /\ owners' = IF leases[Owner[c]] = 0 THEN owners \ {Owner[c]} ELSE owners
    /\ thread' = [thread EXCEPT ![c] = "idle"]
ExitLease(c) ==
    /\ Holding(c)
    /\ leases' = [leases EXCEPT ![Owner[c]] = @ - 1]
    /\ owners' = IF leases[Owner[c]] = 1 THEN owners \ {Owner[c]} ELSE owners
    /\ thread' = [thread EXCEPT ![c] = "idle"]

WorkerLanes == \E o \in Jobs : TryAcquire(o) \/ Release(o)

LeaserStep(c) == EnterLease(c) \/ AbandonLease(c) \/ AcquireLease(c) \/ ExitLease(c)

SlotsNext == WorkerLanes \/ \E c \in Leasers : LeaserStep(c)

SlotsSpec == SlotsInit /\ [][SlotsNext]_slots

----------------------------------------------------------------------------

\* Every variable stays in its domain; a lease count never goes negative.
SlotsTypeOK ==
    /\ owners \subseteq AllOwners
    /\ leases \in [LeaseOwners -> Nat]
    /\ thread \in [Leasers -> ThreadStates]

\* At most Limit sources work at once in the whole process, however the
\* worker's idempotent calls and the re-entrant leases interleave
\* (docs/ONPREM.md:57 promises four).
WithinLimit == Cardinality(owners) <= Limit

\* A thread inside a lease still owns its lane: no other thread that leases the
\* same owner, and no release by the worker, takes it away.
LeaseKeepsLane == \A c \in Leasers : Holding(c) => Owner[c] \in owners

\* No lane leaks: a leased owner stays in the pool exactly as long as some
\* thread holds it, and the count is the number of those threads.
NoLeakedLane ==
    \A o \in LeaseOwners : /\ leases[o] = Cardinality(Holders(o))
                           /\ o \in owners <=> leases[o] > 0
=============================================================================
