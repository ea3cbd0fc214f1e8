------------------------- MODULE SourceSlotsProofs -------------------------
(* Proofs about the pool of source lanes, for any sets of owners and of     *)
(* threads and any limit.                                                   *)
EXTENDS SourceSlots, FiniteSetTheorems, TLAPS

\* Type correctness except the sign of the lease counts, which needs the
\* meaning of the counts.
SlotsDomains ==
    /\ owners \subseteq AllOwners
    /\ leases \in [LeaseOwners -> Int]
    /\ thread \in [Leasers -> ThreadStates]

\* The inductive invariant: the domains, the meaning of the lease counts, and
\* the limit.
SlotsIInv == SlotsDomains /\ NoLeakedLane /\ WithinLimit

LEMMA OwnersFinite ==
    ASSUME SlotsDomains
    PROVE  IsFiniteSet(owners)
BY SlotsAssumption, FS_Union, FS_Subset DEF SlotsDomains, AllOwners

\* Taking a lane keeps the pool within its limit.
LEMMA AdmitWithinLimit ==
    ASSUME SlotsDomains, WithinLimit, NEW o \in AllOwners, Admits(o)
    PROVE  Cardinality(owners \cup {o}) <= Limit
<1>1. IsFiniteSet(owners)
  BY OwnersFinite
<1>2. CASE o \in owners
  <2>1. owners \cup {o} = owners
    BY <1>2
  <2> QED BY <2>1 DEF WithinLimit
<1>3. CASE o \notin owners /\ Cardinality(owners) < Limit
  <2>1. Cardinality(owners \cup {o}) = Cardinality(owners) + 1
    BY <1>1, <1>3, FS_AddElement
  <2>2. Cardinality(owners) \in Nat
    BY <1>1, FS_CardinalityType
  <2> QED BY <1>3, <2>1, <2>2, SlotsAssumption
<1> QED BY <1>2, <1>3 DEF Admits

\* Giving a lane back keeps the pool within its limit.
LEMMA RemoveWithinLimit ==
    ASSUME SlotsDomains, WithinLimit, NEW o
    PROVE  Cardinality(owners \ {o}) <= Limit
<1>1. IsFiniteSet(owners)
  BY OwnersFinite
<1>2. IsFiniteSet(owners \ {o}) /\ Cardinality(owners \ {o}) <= Cardinality(owners)
  BY <1>1, FS_Subset
<1>3. Cardinality(owners) \in Nat /\ Cardinality(owners \ {o}) \in Nat
  BY <1>1, <1>2, FS_CardinalityType
<1> QED BY <1>2, <1>3, SlotsAssumption DEF WithinLimit

\* The holders of an owner are finitely many, so their number is a natural,
\* and it is positive as soon as one thread holds the owner.
LEMMA HoldersFinite ==
    ASSUME NEW o
    PROVE  /\ IsFiniteSet(Holders(o)) /\ Cardinality(Holders(o)) \in Nat
           /\ \A c \in Holders(o) : Cardinality(Holders(o)) > 0
<1>1. IsFiniteSet(Holders(o))
  BY SlotsAssumption, FS_Subset DEF Holders
<1>2. Cardinality(Holders(o)) \in Nat
  BY <1>1, FS_CardinalityType
<1>3. ASSUME NEW c \in Holders(o) PROVE Cardinality(Holders(o)) > 0
  <2>1. Cardinality(Holders(o)) # 0
    BY <1>1, <1>3, FS_EmptySet
  <2> QED BY <1>2, <2>1
<1> QED BY <1>1, <1>2, <1>3

LEMMA SlotsInitially == SlotsInit => SlotsIInv
<1> SUFFICES ASSUME SlotsInit PROVE SlotsIInv
  OBVIOUS
<1>1. SlotsDomains
  BY SlotsAssumption DEF SlotsInit, SlotsDomains, ThreadStates
<1>2. ASSUME NEW o \in LeaseOwners PROVE Holders(o) = {}
  BY DEF SlotsInit, Holders, Holding
<1>3. NoLeakedLane
  BY <1>2, FS_EmptySet DEF SlotsInit, NoLeakedLane
<1>4. WithinLimit
  BY FS_EmptySet, SlotsAssumption DEF SlotsInit, WithinLimit
<1> QED BY <1>1, <1>3, <1>4 DEF SlotsIInv

\* A step that changes neither the threads nor the counts, nor which leased
\* owners are in the pool, keeps the counts exact.
LEMMA WorkerKeepsCounts ==
    ASSUME NoLeakedLane, UNCHANGED <<leases, thread>>,
           owners' \cap LeaseOwners = owners \cap LeaseOwners
    PROVE  NoLeakedLane'
<1>1. \A o : Holders(o)' = Holders(o)
  BY DEF Holders, Holding
<1> QED BY <1>1 DEF NoLeakedLane

LEMMA WorkerLaneStep ==
    ASSUME SlotsIInv, NEW o \in Jobs, TryAcquire(o) \/ Release(o)
    PROVE  SlotsIInv'
<1> USE DEF SlotsIInv
<1>1. o \in AllOwners /\ o \notin LeaseOwners
  BY SlotsAssumption DEF AllOwners
<1>2. CASE TryAcquire(o)
  <2>1. SlotsDomains'
    BY <1>1, <1>2 DEF TryAcquire, SlotsDomains
  <2>2. NoLeakedLane'
    BY <1>1, <1>2, WorkerKeepsCounts DEF TryAcquire
  <2>3. WithinLimit'
    BY <1>1, <1>2, AdmitWithinLimit DEF TryAcquire, WithinLimit
  <2> QED BY <2>1, <2>2, <2>3
<1>3. CASE Release(o)
  <2>1. SlotsDomains'
    BY <1>3 DEF Release, SlotsDomains
  <2>2. NoLeakedLane'
    BY <1>1, <1>3, WorkerKeepsCounts DEF Release
  <2>3. WithinLimit'
    BY <1>3, RemoveWithinLimit DEF Release, WithinLimit
  <2> QED BY <2>1, <2>2, <2>3
<1> QED BY <1>2, <1>3

\* Entering and abandoning the polling loop changes no holder.
LEMMA PollingStep ==
    ASSUME SlotsIInv, NEW c \in Leasers, EnterLease(c) \/ AbandonLease(c)
    PROVE  SlotsIInv'
<1> USE DEF SlotsIInv
<1>1. SlotsDomains'
  BY DEF SlotsDomains, EnterLease, AbandonLease, ThreadStates
<1>2. \A d \in Leasers : Holding(d)' = Holding(d)
  BY DEF SlotsDomains, EnterLease, AbandonLease, Holding
<1>3. \A o : Holders(o)' = Holders(o)
  BY <1>2 DEF Holders
<1>4. NoLeakedLane' /\ WithinLimit'
  BY <1>3 DEF EnterLease, AbandonLease, NoLeakedLane, WithinLimit
<1> QED BY <1>1, <1>4

LEMMA AcquireStep ==
    ASSUME SlotsIInv, NEW c \in Leasers, AcquireLease(c)
    PROVE  SlotsIInv'
<1> USE DEF SlotsIInv
<1> DEFINE b == Owner[c]
<1>1. b \in LeaseOwners /\ b \in AllOwners
  BY SlotsAssumption DEF AllOwners
<1>2. SlotsDomains'
  BY <1>1 DEF SlotsDomains, AcquireLease, ThreadStates
<1>3. WithinLimit'
  BY <1>1, AdmitWithinLimit DEF AcquireLease, WithinLimit
<1>4. /\ c \notin Holders(b) /\ Holders(b)' = Holders(b) \cup {c}
      /\ \A o \in LeaseOwners \ {b} : Holders(o)' = Holders(o)
  BY DEF SlotsDomains, AcquireLease, Holders, Holding
<1>5. Cardinality(Holders(b)') = Cardinality(Holders(b)) + 1
  BY <1>4, HoldersFinite, FS_AddElement
<1>6. ASSUME NEW o \in LeaseOwners
      PROVE  /\ leases'[o] = Cardinality(Holders(o)')
             /\ o \in owners' <=> leases'[o] > 0
  <2>1. CASE o = b
    <3>1. leases'[o] = Cardinality(Holders(o)')
      BY <1>1, <1>5, <2>1 DEF SlotsDomains, AcquireLease, NoLeakedLane
    <3>2. leases'[o] > 0
      BY <1>5, <2>1, <3>1, HoldersFinite
    <3> QED BY <2>1, <3>1, <3>2 DEF AcquireLease
  <2>2. CASE o # b
    BY <1>4, <2>2 DEF SlotsDomains, AcquireLease, NoLeakedLane
  <2> QED BY <2>1, <2>2
<1>7. NoLeakedLane'
  BY <1>6 DEF NoLeakedLane
<1> QED BY <1>2, <1>3, <1>7

LEMMA ExitStep ==
    ASSUME SlotsIInv, NEW c \in Leasers, ExitLease(c)
    PROVE  SlotsIInv'
<1> USE DEF SlotsIInv
<1> DEFINE b == Owner[c]
<1>1. b \in LeaseOwners
  BY SlotsAssumption
<1>2. SlotsDomains'
  BY <1>1 DEF SlotsDomains, ExitLease, ThreadStates
<1>3. WithinLimit'
  BY RemoveWithinLimit DEF ExitLease, WithinLimit
<1>4. /\ c \in Holders(b) /\ Holders(b)' = Holders(b) \ {c}
      /\ \A o \in LeaseOwners \ {b} : Holders(o)' = Holders(o)
  BY DEF SlotsDomains, ExitLease, Holders, Holding
<1>5. Cardinality(Holders(b)') = Cardinality(Holders(b)) - 1
  BY <1>4, HoldersFinite, FS_RemoveElement
<1>6. leases[b] = Cardinality(Holders(b)) /\ leases[b] \in Nat /\ b \in owners
  BY <1>1, <1>4, HoldersFinite DEF NoLeakedLane
<1>7. ASSUME NEW o \in LeaseOwners
      PROVE  /\ leases'[o] = Cardinality(Holders(o)')
             /\ o \in owners' <=> leases'[o] > 0
  <2>1. CASE o = b
    <3>1. leases'[o] = leases[b] - 1
      BY <1>1, <2>1 DEF SlotsDomains, ExitLease
    <3>2. leases'[o] = Cardinality(Holders(o)')
      BY <1>5, <1>6, <2>1, <3>1
    <3>3. o \in owners' <=> leases[b] # 1
      BY <1>6, <2>1 DEF ExitLease
    <3>4. leases[b] > 0
      BY <1>4, <1>6, HoldersFinite
    <3> QED BY <1>6, <3>1, <3>2, <3>3, <3>4
  <2>2. CASE o # b
    BY <1>4, <2>2 DEF SlotsDomains, ExitLease, NoLeakedLane
  <2> QED BY <2>1, <2>2
<1>8. NoLeakedLane'
  BY <1>7 DEF NoLeakedLane
<1> QED BY <1>2, <1>3, <1>8

LEMMA SlotsStep == SlotsIInv /\ [SlotsNext]_slots => SlotsIInv'
<1> SUFFICES ASSUME SlotsIInv, [SlotsNext]_slots PROVE SlotsIInv'
  OBVIOUS
<1>1. CASE WorkerLanes
  BY <1>1, WorkerLaneStep DEF WorkerLanes
<1>2. ASSUME NEW c \in Leasers, LeaserStep(c) PROVE SlotsIInv'
  BY <1>2, PollingStep, AcquireStep, ExitStep DEF LeaserStep
<1>3. CASE UNCHANGED slots
  <2>1. \A o : Holders(o)' = Holders(o)
    BY <1>3 DEF slots, Holders, Holding
  <2> QED BY <1>3, <2>1 DEF slots, SlotsIInv, SlotsDomains, NoLeakedLane, WithinLimit
<1> QED BY <1>1, <1>2, <1>3 DEF SlotsNext

LEMMA SlotsInvariance == SlotsSpec => []SlotsIInv
BY SlotsInitially, SlotsStep, PTL DEF SlotsSpec

\* The lane limit holds for every number of jobs, batch sources and threads.
THEOREM LimitHolds == SlotsSpec => []WithinLimit
<1>1. SlotsIInv => WithinLimit
  BY DEF SlotsIInv
<1> QED BY <1>1, SlotsInvariance, PTL

\* A lane is in the pool exactly while a thread holds its lease.
THEOREM NoLeak == SlotsSpec => []NoLeakedLane
<1>1. SlotsIInv => NoLeakedLane
  BY DEF SlotsIInv
<1> QED BY <1>1, SlotsInvariance, PTL

\* The counts are numbers of threads, so none is negative.
LEMMA InvariantTypes == SlotsIInv => SlotsTypeOK
<1> SUFFICES ASSUME SlotsIInv PROVE SlotsTypeOK
  OBVIOUS
<1>1. \A o \in LeaseOwners : leases[o] \in Nat
  BY HoldersFinite DEF SlotsIInv, NoLeakedLane
<1> QED BY <1>1 DEF SlotsIInv, SlotsDomains, SlotsTypeOK

\* The variables keep their types; a lease count never becomes negative.
THEOREM TypeCorrect == SlotsSpec => []SlotsTypeOK
BY InvariantTypes, SlotsInvariance, PTL

\* A counted lease is a lane: what the counts say puts every holder in the pool.
LEMMA CountsKeepLanes == SlotsIInv => LeaseKeepsLane
<1> SUFFICES ASSUME SlotsIInv, NEW c \in Leasers, Holding(c)
             PROVE  Owner[c] \in owners
  BY DEF LeaseKeepsLane
<1>1. Owner[c] \in LeaseOwners /\ c \in Holders(Owner[c])
  BY SlotsAssumption DEF Holders
<1>2. leases[Owner[c]] > 0
  BY <1>1, HoldersFinite DEF SlotsIInv, NoLeakedLane
<1> QED BY <1>1, <1>2 DEF SlotsIInv, NoLeakedLane

\* A thread in the body of a lease owns its lane, whatever the other threads and
\* the worker did since it entered.
THEOREM LaneKept == SlotsSpec => []LeaseKeepsLane
BY CountsKeepLanes, SlotsInvariance, PTL
=============================================================================
