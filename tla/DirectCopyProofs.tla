-------------------------- MODULE DirectCopyProofs --------------------------
(* Proofs about the copiers of one employee's Disk, for any sets of copiers *)
(* and resources and any kinds of copy.                                     *)
EXTENDS DirectCopy, WellFoundedInduction, TLAPS

----------------------------------------------------------------------------
(* The employee: the inductive invariant. *)

\* What the argument about the block needs of the types.
OwnerDomains ==
    /\ given \in [work : Works, listed : Listings, active : BOOLEAN]
    /\ pc \in [Copiers -> CopyStates]
    /\ banNeed \in [Copiers -> BOOLEAN]
    /\ owner \in BOOLEAN

\* Only copies of a blocked employee come near the block.
BlockIsGiven ==
    /\ given.active => owner
    /\ \A c \in Copiers : pc[c] = "unblock" \/ banNeed[c] => ~given.active
    /\ \A c \in Copiers : pc[c] \in Restoring => banNeed[c]

\* A block that is lifted has somebody who restores it, or somebody who says
\* that it is not restored, or nobody can know.
LiftedIsOwed ==
    owner => \/ given.active
             \/ \E c \in Copiers : banNeed[c] /\ pc[c] \in Transferring \cup Restoring
             \/ warned # {} \/ patchLost
             \/ \E c \in Copiers : pc[c] = "dead"

OwnerIInv == OwnerDomains /\ BlockIsGiven /\ LiftedIsOwed

----------------------------------------------------------------------------
(* Every resource is accounted for: the inductive invariant. *)

\* The verdicts of a copier are apart, and with the resources its loop has
\* still to do they divide the listing.
Apart(c) == \A v, w \in Verdicts : v # w => book[c][v] \cap book[c][w] = {}
Booked(c) ==
    book[c].saved \cup book[c].fails \cup book[c].skipped \cup book[c].unconfirmed
Divides(c, rest) ==
    /\ given.listed = rest \cup Booked(c)
    /\ rest \cap Booked(c) = {}
    /\ Apart(c)
Placed(c) == book[c].saved \cup book[c].skipped \subseteq target[c]

Loops == {"save", "poll", "bytes", "publishOne", "upload", "download"}
Over == {"restoreDone", "done"}

OnlyFails(S) == [NoBook EXCEPT !.fails = S]

\* What each phase has written down: nothing before the transfer, the failed
\* publications while links are made, the collected links until the folder is
\* there, and then a verdict for whatever the loop has handled.
Accounts(c) ==
    /\ pc[c] \in {"idle", "token", "status", "unblock", "tree", "visit"} =>
         book[c] = NoBook /\ unpublished[c] = {}
    /\ pc[c] \in {"unblock", "tree", "visit"} => todo[c] = given.listed
    /\ pc[c] \in {"publish", "collect"} =>
         book[c] = OnlyFails(unpublished[c]) /\ unpublished[c] \subseteq given.listed
    /\ pc[c] = "publish" => todo[c] # {} /\ todo[c] \subseteq given.listed
    /\ pc[c] = "folder" => Divides(c, {}) /\ book[c].skipped = {}
    /\ pc[c] \in Loops => todo[c] # {} /\ Divides(c, todo[c]) /\ Placed(c)
    /\ pc[c] \in Over => Divides(c, {}) /\ Placed(c)

AccountIInv ==
    /\ CopyTypeOK
    /\ published \subseteq given.listed
    /\ \A c \in Copiers : Accounts(c)

----------------------------------------------------------------------------
(* Where a copier goes. *)

\* The phases a transfer begins with and loops in are transfers.
LEMMA PhasesTransfer ==
    ASSUME given \in [work : Works, listed : Listings, active : BOOLEAN]
    PROVE  FirstPhase \in Transferring /\ Loop \in Transferring
<1>1. given.work \in {"personal", "shared", "local"}
  BY CopyAssumption
<1> QED BY <1>1 DEF FirstPhase, Loop, Transferring

\* Whoever lifted the block leaves its transfer by way of the restore.
LEMMA LeavingRestores ==
    ASSUME NEW c \in Copiers, NEW ok \in BOOLEAN, OwnerDomains
    PROVE  /\ banNeed[c] => Leaving(c, ok) \in Restoring
           /\ ~banNeed[c] => Leaving(c, ok) \in {"done", "failed"}
BY DEF Leaving, Restoring, OwnerDomains

\* A step of a transfer goes on with the transfer or leaves it, and touches
\* neither the employee nor what is known of the block.
LEMMA TransferMoves ==
    ASSUME NEW c \in Copiers, OwnerDomains, pc[c] \in Transferring, CopierStep(c)
    PROVE  /\ \E q \in Transferring \cup {Leaving(c, TRUE), Leaving(c, FALSE)} :
                pc' = [pc EXCEPT ![c] = q]
           /\ UNCHANGED <<given, owner, banNeed, warned, patchLost>>
<1> DEFINE Ways == Transferring \cup {Leaving(c, TRUE), Leaving(c, FALSE)}
           Calm == UNCHANGED <<given, owner, banNeed, warned, patchLost>>
<1>1. \A q \in Ways : Goto(c, q) => \E p \in Ways : pc' = [pc EXCEPT ![c] = p]
  BY DEF Goto
<1>2. Loop \in Ways
  BY PhasesTransfer DEF OwnerDomains
<1>3. \A r, v : Settle(c, r, v) => \E p \in Ways : pc' = [pc EXCEPT ![c] = p]
  BY <1>1, <1>2 DEF Settle
<1>4. \A r : Upload(c, r) => \E p \in Ways : pc' = [pc EXCEPT ![c] = p]
  <2>1. "poll" \in Ways
    BY DEF Transferring
  <2> QED BY <1>1, <1>3, <2>1 DEF Upload
<1>5. ~GetToken(c) /\ ~GetStatus(c) /\ ~Unblock(c) /\ ~Restore(c)
  BY DEF GetToken, GetStatus, Unblock, Restore, Transferring, Restoring
<1>6. CASE Abort(c)
  BY <1>1, <1>6 DEF Abort, servers
<1>7. CASE Publish(c)
  <2>1. "collect" \in Ways /\ "publish" \in Ways
    BY DEF Transferring
  <2>2. \E p \in Ways : pc' = [pc EXCEPT ![c] = p]
    BY <1>1, <1>7, <2>1 DEF Publish, NextPublication
  <2> QED BY <1>7, <2>2 DEF Publish
<1>8. CASE Collect(c)
  <2>1. "folder" \in Ways
    BY DEF Transferring
  <2> QED BY <1>1, <1>8, <2>1 DEF Collect, servers
<1>9. CASE EnsureFolder(c)
  <2>1. "save" \in Ways
    BY DEF Transferring
  <2> QED BY <1>1, <1>9, <2>1 DEF EnsureFolder, servers
<1>10. CASE SaveLink(c)
  <2>1. "bytes" \in Ways
    BY DEF Transferring
  <2>2. \E p \in Ways : pc' = [pc EXCEPT ![c] = p]
    BY <1>1, <1>4, <1>10, <2>1 DEF SaveLink
  <2> QED BY <1>10, <2>2 DEF SaveLink
<1>11. CASE Poll(c)
  BY <1>3, <1>11 DEF Poll
<1>12. CASE CopyFileBytes(c)
  <2>1. \E p \in Ways : pc' = [pc EXCEPT ![c] = p]
    BY <1>3, <1>12 DEF CopyFileBytes
  <2> QED BY <1>12, <2>1 DEF CopyFileBytes
<1>13. CASE EnsureTree(c)
  <2>1. "publishOne" \in Ways
    BY DEF Transferring
  <2> QED BY <1>1, <1>13, <2>1 DEF EnsureTree, servers
<1>14. CASE PublishOne(c)
  <2>1. "upload" \in Ways
    BY DEF Transferring
  <2>2. \E p \in Ways : pc' = [pc EXCEPT ![c] = p]
    BY <1>1, <1>3, <1>14, <2>1 DEF PublishOne
  <2> QED BY <1>14, <2>2 DEF PublishOne
<1>15. CASE UploadOne(c)
  BY <1>4, <1>15 DEF UploadOne
<1>16. CASE Visit(c)
  <2>1. "download" \in Ways
    BY DEF Transferring
  <2> QED BY <1>1, <1>16, <2>1 DEF Visit, servers
<1>17. CASE Download(c)
  BY <1>3, <1>17 DEF Download
<1> QED BY <1>5, <1>6, <1>7, <1>8, <1>9, <1>10, <1>11, <1>12, <1>13, <1>14, <1>15,
           <1>16, <1>17 DEF CopierStep

\* A copier that steps is not at rest, and moves nobody else.
LEMMA StepIsOwn ==
    ASSUME NEW c \in Copiers, OwnerDomains, CopierStep(c)
    PROVE  /\ pc[c] \notin Rest
           /\ \E q \in CopyStates : pc' = [pc EXCEPT ![c] = q]
           /\ UNCHANGED given
<1>1. CASE pc[c] \in Transferring
  <2>1. Transferring \cup {Leaving(c, TRUE), Leaving(c, FALSE)} \subseteq CopyStates
    BY LeavingRestores DEF CopyStates, Rest
  <2>2. pc[c] \notin Rest
    BY <1>1 DEF Transferring, Rest
  <2> QED BY <1>1, <2>1, <2>2, TransferMoves
<1>2. CASE GetToken(c)
  BY <1>2 DEF GetToken, Goto, Rest, CopyStates
<1>3. CASE GetStatus(c)
  <2>1. FirstPhase \in CopyStates
    BY PhasesTransfer DEF OwnerDomains, CopyStates
  <2>2. pc[c] \notin Rest /\ UNCHANGED given
    BY <1>3 DEF GetStatus, Rest
  <2>3. \E q \in {IF owner THEN FirstPhase ELSE "unblock", "failed"} :
          pc' = [pc EXCEPT ![c] = q]
    BY <1>3 DEF GetStatus, Goto
  <2>4. {IF owner THEN FirstPhase ELSE "unblock", "failed"} \subseteq CopyStates
    BY <2>1 DEF CopyStates, Rest
  <2> QED BY <2>2, <2>3, <2>4
<1>4. CASE Unblock(c)
  <2>1. FirstPhase \in CopyStates
    BY PhasesTransfer DEF OwnerDomains, CopyStates
  <2>2. pc[c] \notin Rest /\ UNCHANGED given
    BY <1>4 DEF Unblock, Rest
  <2>3. \E q \in {FirstPhase, "failed"} : pc' = [pc EXCEPT ![c] = q]
    BY <1>4 DEF Unblock, Goto
  <2>4. {FirstPhase, "failed"} \subseteq CopyStates
    BY <2>1 DEF CopyStates, Rest
  <2> QED BY <2>2, <2>3, <2>4
<1>5. CASE Restore(c)
  <2>1. pc[c] \notin Rest /\ UNCHANGED given
    BY <1>5 DEF Restore, Rest, Restoring
  <2>2. \E q \in {"done", "failed"} : pc' = [pc EXCEPT ![c] = q]
    BY <1>5 DEF Restore, Goto
  <2>3. {"done", "failed"} \subseteq CopyStates
    BY DEF CopyStates, Rest
  <2> QED BY <2>1, <2>2, <2>3
<1> QED BY <1>1, <1>2, <1>3, <1>4, <1>5
        DEF CopierStep, Abort, Publish, Collect, EnsureFolder, SaveLink, Poll,
            CopyFileBytes, EnsureTree, PublishOne, UploadOne, Visit, Download,
            Transferring
----------------------------------------------------------------------------
(* The employee is left as blocked as before. *)

LEMMA OwnerInit ==
    ASSUME CopyInit
    PROVE  OwnerIInv
<1>1. OwnerDomains
  <2>1. given \in [work : Works, listed : Listings, active : BOOLEAN]
    BY DEF CopyInit
  <2>2. pc \in [Copiers -> CopyStates]
    BY DEF CopyInit, CopyStates, Rest
  <2>3. banNeed \in [Copiers -> BOOLEAN]
    BY DEF CopyInit
  <2>4. owner \in BOOLEAN
    BY <2>1 DEF CopyInit
  <2> QED BY <2>1, <2>2, <2>3, <2>4 DEF OwnerDomains
<1>2. BlockIsGiven
  <2>1. \A c \in Copiers : pc[c] = "idle" /\ banNeed[c] = FALSE
    BY DEF CopyInit
  <2>2. given.active => owner
    BY DEF CopyInit
  <2> QED BY <2>1, <2>2 DEF BlockIsGiven, Restoring
<1>3. LiftedIsOwed
  BY DEF CopyInit, LiftedIsOwed
<1> QED BY <1>1, <1>2, <1>3 DEF OwnerIInv

\* A copier that moves from one place to another keeps the invariant when the
\* employee is not touched, as long as it does not reach the lifting of a block
\* that was not given, and goes from a transfer to no other place than a
\* transfer or, when it lifted the block, the restore.
LEMMA MovesKeepOwner ==
    ASSUME OwnerIInv, NEW c \in Copiers, NEW q \in CopyStates,
           pc[c] # "dead",
           pc' = [pc EXCEPT ![c] = q],
           UNCHANGED <<given, owner, banNeed, warned, patchLost>>,
           q = "unblock" => ~owner,
           q \in Restoring => banNeed[c],
           pc[c] \in Transferring \cup Restoring /\ banNeed[c] =>
               q \in Transferring \cup Restoring
    PROVE  OwnerIInv'
<1>1. OwnerDomains'
  BY DEF OwnerIInv, OwnerDomains
<1>2. \A d \in Copiers : pc'[d] = IF d = c THEN q ELSE pc[d]
  BY DEF OwnerIInv, OwnerDomains
<1>3. BlockIsGiven'
  BY <1>2 DEF OwnerIInv, BlockIsGiven
<1>4. LiftedIsOwed'
  <2>1. CASE \E d \in Copiers : banNeed[d] /\ pc[d] \in Transferring \cup Restoring
    <3>1. PICK d \in Copiers : banNeed[d] /\ pc[d] \in Transferring \cup Restoring
      BY <2>1
    <3>2. banNeed'[d] /\ pc'[d] \in Transferring \cup Restoring
      BY <1>2, <3>1
    <3> QED BY <3>2 DEF LiftedIsOwed
  <2>2. CASE \E d \in Copiers : pc[d] = "dead"
    <3>1. PICK d \in Copiers : pc[d] = "dead"
      BY <2>2
    <3>2. pc'[d] = "dead"
      BY <1>2, <3>1
    <3> QED BY <3>2 DEF LiftedIsOwed
  <2>3. CASE owner => given.active \/ warned # {} \/ patchLost
    BY <2>3 DEF LiftedIsOwed
  <2> QED BY <2>1, <2>2, <2>3 DEF OwnerIInv, LiftedIsOwed
<1> QED BY <1>1, <1>3, <1>4 DEF OwnerIInv

\* Lifting the block makes this copier the one that owes the restore.
LEMMA UnblockKeepsOwner ==
    ASSUME OwnerIInv, NEW c \in Copiers, Unblock(c)
    PROVE  OwnerIInv'
<1>1. pc[c] = "unblock" /\ UNCHANGED <<given, warned>> /\ ~given.active
  BY DEF Unblock, OwnerIInv, BlockIsGiven
<1>2. FirstPhase \in Transferring
  BY PhasesTransfer DEF OwnerIInv, OwnerDomains
<1>3. CASE owner' = TRUE /\ banNeed' = [banNeed EXCEPT ![c] = TRUE] /\ Goto(c, FirstPhase)
  <2>1. /\ pc' \in [Copiers -> CopyStates]
        /\ \A d \in Copiers : pc'[d] = IF d = c THEN FirstPhase ELSE pc[d]
    BY <1>2, <1>3 DEF Goto, OwnerIInv, OwnerDomains, CopyStates
  <2>2. /\ banNeed' \in [Copiers -> BOOLEAN] /\ banNeed'[c] = TRUE
        /\ \A d \in Copiers : d # c => banNeed'[d] = banNeed[d]
    BY <1>3 DEF OwnerIInv, OwnerDomains
  <2>3. OwnerDomains'
    BY <1>1, <1>3, <2>1, <2>2 DEF OwnerIInv, OwnerDomains
  <2>4. BlockIsGiven'
    BY <1>1, <1>2, <1>3, <2>1, <2>2 DEF OwnerIInv, BlockIsGiven, Transferring, Restoring
  <2>5. LiftedIsOwed'
    BY <1>2, <2>1, <2>2 DEF LiftedIsOwed
  <2> QED BY <2>3, <2>4, <2>5 DEF OwnerIInv
<1>4. CASE Goto(c, "failed") /\ UNCHANGED <<owner, banNeed, patchLost>>
  <2>1. "failed" \in CopyStates \ (Transferring \cup Restoring \cup {"unblock"})
    BY DEF CopyStates, Rest, Transferring, Restoring
  <2>2. pc[c] \notin Transferring \cup Restoring /\ pc[c] # "dead"
    BY <1>1 DEF Transferring, Restoring
  <2> QED BY <1>1, <1>4, <2>1, <2>2, MovesKeepOwner DEF Goto
<1>5. CASE owner' \in {owner, TRUE} /\ patchLost' = TRUE /\ Goto(c, "failed") /\ UNCHANGED banNeed
  <2>1. /\ pc' \in [Copiers -> CopyStates]
        /\ \A d \in Copiers : pc'[d] = IF d = c THEN "failed" ELSE pc[d]
    BY <1>5 DEF Goto, OwnerIInv, OwnerDomains, CopyStates, Rest
  <2>2. OwnerDomains'
    BY <1>1, <1>5, <2>1 DEF OwnerIInv, OwnerDomains
  <2>3. BlockIsGiven'
    BY <1>1, <1>5, <2>1 DEF OwnerIInv, BlockIsGiven, Restoring
  <2>4. LiftedIsOwed'
    BY <1>5 DEF LiftedIsOwed
  <2> QED BY <2>2, <2>3, <2>4 DEF OwnerIInv
<1> QED BY <1>3, <1>4, <1>5 DEF Unblock

\* A restore blocks the employee, asks for the block by hand, or loses its
\* answer.
LEMMA RestoreKeepsOwner ==
    ASSUME OwnerIInv, NEW c \in Copiers, Restore(c)
    PROVE  OwnerIInv'
<1>1. pc[c] \in Restoring /\ banNeed[c] /\ ~given.active /\ UNCHANGED <<given, banNeed>>
  BY DEF Restore, OwnerIInv, BlockIsGiven
<1>2. PICK q \in {"done", "failed"} : pc' = [pc EXCEPT ![c] = q]
  BY DEF Restore, Goto
<1>3. /\ pc' \in [Copiers -> CopyStates]
      /\ \A d \in Copiers : pc'[d] = IF d = c THEN q ELSE pc[d]
  BY <1>2 DEF OwnerIInv, OwnerDomains, CopyStates, Rest
<1>4. owner' \in BOOLEAN
  BY DEF Restore, OwnerIInv, OwnerDomains
<1>5. OwnerDomains'
  BY <1>1, <1>3, <1>4 DEF OwnerIInv, OwnerDomains
<1>6. BlockIsGiven'
  BY <1>1, <1>3 DEF OwnerIInv, BlockIsGiven, Restoring
<1>7. ~owner' \/ warned' # {} \/ patchLost'
  BY DEF Restore
<1>8. LiftedIsOwed'
  BY <1>7 DEF LiftedIsOwed
<1> QED BY <1>5, <1>6, <1>8 DEF OwnerIInv

LEMMA CopierKeepsOwner ==
    ASSUME OwnerIInv, NEW c \in Copiers, CopierStep(c)
    PROVE  OwnerIInv'
<1>0. OwnerDomains
  BY DEF OwnerIInv
<1>1. CASE pc[c] \in Transferring
  <2>1. /\ \E q \in Transferring \cup {Leaving(c, TRUE), Leaving(c, FALSE)} :
              pc' = [pc EXCEPT ![c] = q]
        /\ UNCHANGED <<given, owner, banNeed, warned, patchLost>>
    BY <1>0, <1>1, TransferMoves
  <2>2. PICK q \in Transferring \cup {Leaving(c, TRUE), Leaving(c, FALSE)} :
              pc' = [pc EXCEPT ![c] = q]
    BY <2>1
  <2>3. /\ q \in Transferring \cup Restoring \cup {"done", "failed"}
        /\ banNeed[c] => q \in Transferring \cup Restoring
        /\ q \in Restoring => banNeed[c]
    <3>1. Transferring \cap Restoring = {} /\ {"done", "failed"} \cap Restoring = {}
      BY DEF Transferring, Restoring
    <3>2. banNeed[c] => {Leaving(c, TRUE), Leaving(c, FALSE)} \subseteq Restoring
      BY <1>0, LeavingRestores
    <3>3. ~banNeed[c] => {Leaving(c, TRUE), Leaving(c, FALSE)} \subseteq {"done", "failed"}
      BY <1>0, LeavingRestores
    <3> QED BY <3>1, <3>2, <3>3
  <2>4. q \in CopyStates /\ q # "unblock"
    BY <2>3 DEF CopyStates, Rest, Transferring, Restoring
  <2>5. pc[c] # "dead"
    BY <1>1 DEF Transferring
  <2> QED BY <2>1, <2>2, <2>3, <2>4, <2>5, MovesKeepOwner
<1>2. CASE GetToken(c)
  <2>1. PICK q \in {"status", "failed"} : pc' = [pc EXCEPT ![c] = q]
    BY <1>2 DEF GetToken, Goto
  <2>2. q \in CopyStates /\ q # "unblock" /\ q \notin Restoring
    BY <2>1 DEF CopyStates, Rest, Restoring
  <2>3. pc[c] \notin Transferring \cup Restoring /\ pc[c] # "dead"
    BY <1>2 DEF GetToken, Transferring, Restoring
  <2>4. UNCHANGED <<given, owner, banNeed, warned, patchLost>>
    BY <1>2 DEF GetToken, servers
  <2> QED BY <2>1, <2>2, <2>3, <2>4, MovesKeepOwner
<1>3. CASE GetStatus(c)
  <2>1. PICK q \in {IF owner THEN FirstPhase ELSE "unblock", "failed"} : pc' = [pc EXCEPT ![c] = q]
    BY <1>3 DEF GetStatus, Goto
  <2>2. FirstPhase \in Transferring
    BY <1>0, PhasesTransfer DEF OwnerDomains
  <2>3. q \in CopyStates /\ q \notin Restoring /\ (q = "unblock" => ~owner)
    BY <2>1, <2>2 DEF CopyStates, Rest, Restoring, Transferring
  <2>4. pc[c] \notin Transferring \cup Restoring /\ pc[c] # "dead"
    BY <1>3 DEF GetStatus, Transferring, Restoring
  <2>5. UNCHANGED <<given, owner, banNeed, warned, patchLost>>
    BY <1>3 DEF GetStatus, servers
  <2> QED BY <2>1, <2>3, <2>4, <2>5, MovesKeepOwner
<1>4. CASE Unblock(c)
  BY <1>4, UnblockKeepsOwner
<1>5. CASE Restore(c)
  BY <1>5, RestoreKeepsOwner
<1> QED BY <1>1, <1>2, <1>3, <1>4, <1>5
        DEF CopierStep, Abort, Publish, Collect, EnsureFolder, SaveLink, Poll,
            CopyFileBytes, EnsureTree, PublishOne, UploadOne, Visit, Download,
            Transferring

\* A crash leaves a copier that owed the restore dead, and says so.
LEMMA KillKeepsOwner ==
    ASSUME OwnerIInv, KillCopiers
    PROVE  OwnerIInv'
<1>1. UNCHANGED <<given, owner, banNeed, warned, patchLost>>
  BY DEF KillCopiers, copier, servers
<1>2. \A d \in Copiers : pc'[d] = IF pc[d] \in Rest THEN pc[d] ELSE "dead"
  BY DEF KillCopiers
<1>3. pc' \in [Copiers -> CopyStates]
  BY DEF KillCopiers, OwnerIInv, OwnerDomains, CopyStates, Rest
<1>4. OwnerDomains'
  BY <1>1, <1>3 DEF OwnerIInv, OwnerDomains
<1>5. BlockIsGiven'
  BY <1>1, <1>2 DEF OwnerIInv, BlockIsGiven, Rest, Restoring
<1>6. LiftedIsOwed'
  <2>1. ASSUME NEW d \in Copiers, pc[d] \in Transferring \cup Restoring \cup {"dead"}
        PROVE  pc'[d] = "dead"
    BY <1>2, <2>1 DEF Rest, Transferring, Restoring
  <2> QED BY <1>1, <2>1 DEF OwnerIInv, LiftedIsOwed
<1> QED BY <1>4, <1>5, <1>6 DEF OwnerIInv

\* What a step of copier c must leave of the accounts of all.
CoreTyped ==
    /\ todo \in [Copiers -> SUBSET Resources]
    /\ book \in [Copiers -> [Verdicts -> SUBSET Resources]]
    /\ unpublished \in [Copiers -> SUBSET Resources]
    /\ target \in [Copiers -> SUBSET Resources]
Kept(c) ==
    /\ CoreTyped'
    /\ \A d \in Copiers : d # c =>
         /\ todo'[d] = todo[d] /\ book'[d] = book[d]
         /\ unpublished'[d] = unpublished[d] /\ target'[d] = target[d]
    /\ published' \subseteq given.listed
    /\ Accounts(c)'

----------------------------------------------------------------------------
(* Lemmas about the data of a copier. *)

\* The first of a set of resources is one of them.
LEMMA FirstIsIn ==
    ASSUME NEW S \in SUBSET Resources, S # {}
    PROVE  First(S) \in S
<1>1. S \subseteq Nat
  BY CopyAssumption
<1>2. IsWellFoundedOn(OpToRel(<, Nat), Nat)
  BY NatLessThanWellFounded
<1>3. PICK r \in S : \A s \in S : ~ (<<s, r>> \in OpToRel(<, Nat))
  BY <1>1, <1>2, WFMin
<1>4. \A s \in S : ~ (s < r)
  BY <1>1, <1>3 DEF OpToRel
<1>5. \A s \in S : r <= s
  BY <1>1, <1>4
<1> QED BY <1>5 DEF First

LEMMA ListedAreResources ==
    ASSUME CopyTypeOK
    PROVE  given.listed \subseteq Resources
BY CopyAssumption DEF CopyTypeOK

LEMMA BookUpdate ==
    ASSUME book \in [Copiers -> [Verdicts -> SUBSET Resources]],
           NEW c \in Copiers, NEW v \in Verdicts, NEW S \in SUBSET Resources,
           book' = [book EXCEPT ![c][v] = S]
    PROVE  /\ book' \in [Copiers -> [Verdicts -> SUBSET Resources]]
           /\ book'[c][v] = S
           /\ \A w \in Verdicts : w # v => book'[c][w] = book[c][w]
           /\ \A d \in Copiers : d # c => book'[d] = book[d]
OBVIOUS

\* Before the transfer no resource has a verdict, so that all of the listing is
\* still to do.
LEMMA NothingBooked ==
    ASSUME NEW c \in Copiers, book[c] = NoBook
    PROVE  /\ Divides(c, given.listed) /\ Placed(c)
           /\ \A v \in Verdicts : book[c][v] = {}
<1>1. \A v \in Verdicts : book[c][v] = {}
  BY DEF NoBook
<1>2. /\ book[c].saved = {} /\ book[c].fails = {}
      /\ book[c].skipped = {} /\ book[c].unconfirmed = {}
  BY DEF NoBook, Verdicts
<1> QED BY <1>1, <1>2 DEF Divides, Booked, Apart, Placed

\* A resource that gets its verdict goes from the rest to the booked ones.
LEMMA BookingDivides ==
    ASSUME NEW c \in Copiers, book \in [Copiers -> [Verdicts -> SUBSET Resources]],
           NEW rest \in SUBSET Resources, Divides(c, rest),
           NEW r \in rest, NEW v \in Verdicts, UNCHANGED given,
           book' = [book EXCEPT ![c][v] = @ \cup {r}]
    PROVE  /\ book' \in [Copiers -> [Verdicts -> SUBSET Resources]]
           /\ \A d \in Copiers : d # c => book'[d] = book[d]
           /\ \A w \in Verdicts : book'[c][w] = IF w = v THEN book[c][w] \cup {r}
                                                        ELSE book[c][w]
           /\ Divides(c, rest \ {r})'
<1>1. book[c][v] \cup {r} \in SUBSET Resources
  OBVIOUS
<1>2. book' = [book EXCEPT ![c][v] = book[c][v] \cup {r}]
  OBVIOUS
<1>3. /\ book' \in [Copiers -> [Verdicts -> SUBSET Resources]]
      /\ book'[c][v] = book[c][v] \cup {r}
      /\ \A w \in Verdicts : w # v => book'[c][w] = book[c][w]
      /\ \A d \in Copiers : d # c => book'[d] = book[d]
  BY <1>1, <1>2, BookUpdate
<1>4. \A w \in Verdicts : book'[c][w] = IF w = v THEN book[c][w] \cup {r} ELSE book[c][w]
  BY <1>3
<1>5. \A w \in Verdicts : book[c][w] \subseteq Booked(c)
  BY DEF Verdicts, Booked
<1>6. Booked(c)' = Booked(c) \cup {r}
  BY <1>4 DEF Booked, Verdicts
<1>7. r \notin Booked(c)
  BY DEF Divides
<1>8. Apart(c)'
  BY <1>4, <1>5, <1>7 DEF Apart, Divides
<1>9. Divides(c, rest \ {r})'
  BY <1>6, <1>7, <1>8 DEF Divides
<1> QED BY <1>3, <1>4, <1>9

\* Leaving after the loop, and the phases that loop.
LEMMA LeavingIsOver ==
    ASSUME NEW c \in Copiers
    PROVE  Leaving(c, TRUE) \in Over
BY DEF Leaving, Over

LEMMA LoopLoops ==
    ASSUME CopyTypeOK
    PROVE  Loop \in Loops
<1>1. given.work \in {"personal", "shared", "local"}
  BY CopyAssumption DEF CopyTypeOK
<1> QED BY <1>1 DEF Loop, Loops

LEMMA LoopsAndOver ==
    /\ Loops \cap Over = {}
    /\ Loops \cap {"idle", "token", "status", "unblock", "tree", "visit",
                   "publish", "collect", "folder"} = {}
    /\ Over \cap {"idle", "token", "status", "unblock", "tree", "visit",
                  "publish", "collect", "folder"} = {}
BY DEF Loops, Over

\* What a copier puts at the destination stays there.
LEMMA TargetGrows ==
    ASSUME CopyTypeOK, NEW c \in Copiers, NEW r \in Resources,
           Places(c, r) \/ UNCHANGED target
    PROVE  /\ target' \in [Copiers -> SUBSET Resources]
           /\ \A d \in Copiers : d # c => target'[d] = target[d]
           /\ target[c] \subseteq target'[c]
           /\ Places(c, r) => r \in target'[c]
<1>1. CASE Places(c, r)
  <2>1. target' = [target EXCEPT ![c] = target[c] \cup {r}]
    BY <1>1 DEF Places
  <2> QED BY <2>1 DEF CopyTypeOK
<1>2. CASE UNCHANGED target /\ ~Places(c, r)
  BY <1>2 DEF CopyTypeOK
<1> QED BY <1>1, <1>2

\* A loop that settles a resource keeps its accounts.
LEMMA SettleKept ==
    ASSUME AccountIInv, NEW c \in Copiers, pc[c] \in Loops,
           NEW r \in todo[c], NEW v \in Verdicts, Settle(c, r, v),
           UNCHANGED <<given, unpublished>>,
           Places(c, r) \/ UNCHANGED target,
           v \in {"saved", "skipped"} => Places(c, r) \/ r \in target[c],
           published' \subseteq given.listed
    PROVE  Kept(c)
<1>1. Divides(c, todo[c]) /\ Placed(c)
  BY DEF AccountIInv, Accounts
<1>2. todo[c] \in SUBSET Resources /\ book \in [Copiers -> [Verdicts -> SUBSET Resources]]
  BY DEF AccountIInv, CopyTypeOK
<1>3. PICK rest \in SUBSET Resources : rest = todo[c]
  BY <1>2
<1>4. /\ book' \in [Copiers -> [Verdicts -> SUBSET Resources]]
      /\ \A d \in Copiers : d # c => book'[d] = book[d]
      /\ \A w \in Verdicts : book'[c][w] = IF w = v THEN book[c][w] \cup {r} ELSE book[c][w]
      /\ Divides(c, rest \ {r})'
  <2>1. book' = [book EXCEPT ![c][v] = @ \cup {r}]
    BY DEF Settle
  <2>2. Divides(c, rest) /\ r \in rest
    BY <1>1, <1>3
  <2> QED BY <1>2, <2>1, <2>2, BookingDivides
<1>5. todo' = [todo EXCEPT ![c] = todo[c] \ {r}]
  BY DEF Settle
<1>6. /\ todo' \in [Copiers -> SUBSET Resources]
      /\ todo'[c] = todo[c] \ {r}
      /\ \A d \in Copiers : d # c => todo'[d] = todo[d]
  BY <1>5 DEF AccountIInv, CopyTypeOK
<1>7. /\ target' \in [Copiers -> SUBSET Resources]
      /\ \A d \in Copiers : d # c => target'[d] = target[d]
      /\ target[c] \subseteq target'[c]
      /\ Places(c, r) => r \in target'[c]
  <2>1. r \in Resources
    BY <1>2
  <2> QED BY <2>1, TargetGrows DEF AccountIInv
<1>8. v \in {"saved", "skipped"} => r \in target'[c]
  BY <1>7
<1>9. Placed(c)'
  BY <1>1, <1>4, <1>7, <1>8 DEF Placed, Verdicts
<1>10. CASE todo[c] = {r}
  <2>1. pc'[c] \in Over
    BY <1>10, LeavingIsOver DEF Settle, Goto, AccountIInv, CopyTypeOK
  <2>2. Divides(c, {})'
    <3>1. rest \ {r} = {}
      BY <1>3, <1>10
    <3> QED BY <1>4, <3>1 DEF Divides
  <2>3. Accounts(c)'
    BY <1>9, <2>1, <2>2, LoopsAndOver DEF Accounts
  <2> QED BY <1>4, <1>6, <1>7, <2>3 DEF Kept, CoreTyped, AccountIInv, CopyTypeOK
<1>11. CASE todo[c] # {r}
  <2>1. pc'[c] \in Loops
    BY <1>11, LoopLoops DEF Settle, Goto, AccountIInv, CopyTypeOK
  <2>2. Divides(c, todo[c])' /\ todo'[c] # {}
    <3>1. todo'[c] = rest \ {r}
      BY <1>3, <1>6
    <3> QED BY <1>4, <1>6, <1>11, <3>1 DEF Divides
  <2>3. Accounts(c)'
    BY <1>9, <2>1, <2>2, LoopsAndOver DEF Accounts
  <2> QED BY <1>4, <1>6, <1>7, <2>3 DEF Kept, CoreTyped, AccountIInv, CopyTypeOK
<1> QED BY <1>10, <1>11

\* A step inside a loop that settles nothing.
LEMMA LoopMoveKept ==
    ASSUME AccountIInv, NEW c \in Copiers, pc[c] \in Loops,
           NEW q \in Loops, Goto(c, q),
           UNCHANGED <<given, todo, book, unpublished, target>>,
           published' \subseteq given.listed
    PROVE  Kept(c)
<1>1. pc'[c] = q
  BY DEF Goto, AccountIInv, CopyTypeOK
<1>2. todo[c] # {} /\ Divides(c, todo[c]) /\ Placed(c)
  BY DEF AccountIInv, Accounts
<1>3. Divides(c, todo[c])' /\ Placed(c)'
  BY <1>2 DEF Divides, Booked, Apart, Placed
<1>4. Accounts(c)'
  BY <1>1, <1>2, <1>3, LoopsAndOver DEF Accounts
<1> QED BY <1>4 DEF Kept, CoreTyped, AccountIInv, CopyTypeOK

\* Whoever fails has nothing to account for.
LEMMA FailureKept ==
    ASSUME AccountIInv, NEW c \in Copiers,
           NEW q \in {"failed", "restoreFailed", "dead"}, Goto(c, q),
           UNCHANGED <<given, todo, book, unpublished, target, published>>
    PROVE  Kept(c)
<1>1. pc'[c] = q
  BY DEF Goto, AccountIInv, CopyTypeOK
<1>2. Accounts(c)'
  BY <1>1 DEF Accounts, Loops, Over
<1> QED BY <1>2 DEF Kept, CoreTyped, AccountIInv, CopyTypeOK

----------------------------------------------------------------------------
(* Every resource is accounted for. *)

\* The resource a loop takes next.
LEMMA NextIsTodo ==
    ASSUME AccountIInv, NEW c \in Copiers, pc[c] \in Loops \cup {"publish"}
    PROVE  /\ First(todo[c]) \in todo[c] /\ todo[c] \in SUBSET given.listed
           /\ todo[c] \in SUBSET Resources
<1>1. todo[c] # {} /\ todo[c] \subseteq given.listed
  BY DEF AccountIInv, Accounts, Divides
<1>2. todo[c] \in SUBSET Resources
  BY DEF AccountIInv, CopyTypeOK
<1> QED BY <1>1, <1>2, FirstIsIn

LEMMA UploadKept ==
    ASSUME AccountIInv, NEW c \in Copiers, pc[c] \in Loops,
           Upload(c, First(todo[c])),
           UNCHANGED <<given, unpublished, published>>
    PROVE  Kept(c)
<1>1. PICK r \in todo[c] : r = First(todo[c])
  BY NextIsTodo
<1>2. published' \subseteq given.listed
  BY DEF AccountIInv
<1>3. CASE r \in target[c] /\ Settle(c, r, "skipped") /\ UNCHANGED target
  BY <1>2, <1>3, SettleKept DEF Verdicts
<1>4. CASE Settle(c, r, "saved") /\ Places(c, r)
  BY <1>2, <1>4, SettleKept DEF Verdicts
<1>5. CASE Goto(c, "poll") /\ UNCHANGED <<todo, book, target>>
  <2>1. "poll" \in Loops
    BY DEF Loops
  <2> QED BY <1>2, <1>5, <2>1, LoopMoveKept
<1>6. CASE Settle(c, r, "fails") /\ MayPlace(c, r)
  BY <1>2, <1>6, SettleKept DEF Verdicts, MayPlace
<1> QED BY <1>1, <1>3, <1>4, <1>5, <1>6 DEF Upload

LEMMA SaveLinkKept ==
    ASSUME AccountIInv, NEW c \in Copiers, SaveLink(c)
    PROVE  Kept(c)
<1>1. pc[c] \in Loops /\ UNCHANGED <<given, unpublished, published>>
  BY DEF SaveLink, Loops
<1>2. CASE Upload(c, First(todo[c]))
  BY <1>1, <1>2, UploadKept
<1>3. CASE Goto(c, "bytes") /\ UNCHANGED <<todo, book, target>>
  <2>1. "bytes" \in Loops /\ published' \subseteq given.listed
    BY <1>1 DEF Loops, AccountIInv
  <2> QED BY <1>1, <1>3, <2>1, LoopMoveKept
<1> QED BY <1>2, <1>3 DEF SaveLink

LEMMA PollKept ==
    ASSUME AccountIInv, NEW c \in Copiers, Poll(c)
    PROVE  Kept(c)
<1>1. pc[c] \in Loops /\ UNCHANGED <<given, unpublished, published>>
  BY DEF Poll, Loops
<1>2. PICK r \in todo[c] : r = First(todo[c])
  BY <1>1, NextIsTodo
<1>3. published' \subseteq given.listed
  BY <1>1 DEF AccountIInv
<1>4. \/ Settle(c, r, "saved") /\ Places(c, r)
      \/ Settle(c, r, "fails") /\ MayPlace(c, r)
  BY <1>2 DEF Poll
<1> QED BY <1>1, <1>3, <1>4, SettleKept DEF Verdicts, MayPlace

LEMMA BytesKept ==
    ASSUME AccountIInv, NEW c \in Copiers, CopyFileBytes(c)
    PROVE  Kept(c)
<1>1. pc[c] \in Loops /\ UNCHANGED <<given, unpublished, published>>
  BY DEF CopyFileBytes, Loops
<1>2. PICK r \in todo[c] : r = First(todo[c])
  BY <1>1, NextIsTodo
<1>3. published' \subseteq given.listed
  BY <1>1 DEF AccountIInv
<1>4. \/ r \in target[c] /\ Settle(c, r, "skipped") /\ UNCHANGED target
      \/ Settle(c, r, "saved") /\ Places(c, r)
      \/ \E v \in {"unconfirmed", "fails"} :
           Settle(c, r, v) /\ (Places(c, r) \/ UNCHANGED target)
  BY <1>2 DEF CopyFileBytes, MayPlace
<1> QED BY <1>1, <1>3, <1>4, SettleKept DEF Verdicts

LEMMA UploadOneKept ==
    ASSUME AccountIInv, NEW c \in Copiers, UploadOne(c)
    PROVE  Kept(c)
BY UploadKept DEF UploadOne, Loops

LEMMA DownloadKept ==
    ASSUME AccountIInv, NEW c \in Copiers, Download(c)
    PROVE  Kept(c)
<1>1. pc[c] \in Loops /\ UNCHANGED <<given, unpublished, published>>
  BY DEF Download, Loops
<1>2. PICK r \in todo[c] : r = First(todo[c])
  BY <1>1, NextIsTodo
<1>3. published' \subseteq given.listed
  BY <1>1 DEF AccountIInv
<1>4. \/ r \in target[c] /\ Settle(c, r, "skipped") /\ UNCHANGED target
      \/ Settle(c, r, "saved") /\ Places(c, r)
      \/ Settle(c, r, "fails") /\ UNCHANGED target
  BY <1>2 DEF Download
<1> QED BY <1>1, <1>3, <1>4, SettleKept DEF Verdicts

LEMMA PublishOneKept ==
    ASSUME AccountIInv, NEW c \in Copiers, PublishOne(c)
    PROVE  Kept(c)
<1>1. pc[c] \in Loops /\ UNCHANGED <<given, unpublished, target>>
  BY DEF PublishOne, Loops
<1>2. PICK r \in todo[c] : r = First(todo[c])
  BY <1>1, NextIsTodo
<1>3. published' \subseteq given.listed
  <2>1. r \in given.listed
    BY <1>1, <1>2, NextIsTodo
  <2>2. published' \in {published, published \cup {r}}
    BY <1>2 DEF PublishOne, MayPublish
  <2> QED BY <2>1, <2>2 DEF AccountIInv
<1>4. CASE Goto(c, "upload") /\ UNCHANGED <<todo, book>>
  <2>1. "upload" \in Loops
    BY DEF Loops
  <2> QED BY <1>1, <1>3, <1>4, <2>1, LoopMoveKept
<1>5. CASE Settle(c, r, "fails")
  BY <1>1, <1>3, <1>5, SettleKept DEF Verdicts
<1> QED BY <1>2, <1>4, <1>5 DEF PublishOne

\* make_links: a failed publication is the only verdict it gives.
LEMMA PublishKept ==
    ASSUME AccountIInv, NEW c \in Copiers, Publish(c)
    PROVE  Kept(c)
<1>1. pc[c] = "publish" /\ UNCHANGED <<given, target>>
  BY DEF Publish
<1>2. PICK r \in todo[c] : r = First(todo[c])
  BY <1>1, NextIsTodo
<1>3. todo[c] \subseteq given.listed /\ todo[c] \in SUBSET Resources /\ r \in Resources
  BY <1>1, <1>2, NextIsTodo
<1>4. /\ book[c] = OnlyFails(unpublished[c]) /\ unpublished[c] \subseteq given.listed
      /\ book \in [Copiers -> [Verdicts -> SUBSET Resources]]
      /\ unpublished \in [Copiers -> SUBSET Resources]
  BY <1>1 DEF AccountIInv, Accounts, CopyTypeOK
<1>5. published' \in {published, published \cup {r}}
  BY <1>2 DEF Publish, MayPublish
<1>6. published' \subseteq given.listed
  BY <1>2, <1>3, <1>5 DEF AccountIInv
<1>7. todo' = [todo EXCEPT ![c] = todo[c] \ {r}]
  BY <1>2 DEF Publish, NextPublication
<1>8. /\ todo' \in [Copiers -> SUBSET Resources] /\ todo'[c] = todo[c] \ {r}
      /\ \A d \in Copiers : d # c => todo'[d] = todo[d]
  BY <1>7 DEF AccountIInv, CopyTypeOK
<1>9. pc'[c] = IF todo[c] \ {r} = {} THEN "collect" ELSE "publish"
  BY <1>2 DEF Publish, NextPublication, Goto, AccountIInv, CopyTypeOK
<1>10. /\ book' \in [Copiers -> [Verdicts -> SUBSET Resources]]
       /\ unpublished' \in [Copiers -> SUBSET Resources]
       /\ \A d \in Copiers : d # c => book'[d] = book[d] /\ unpublished'[d] = unpublished[d]
       /\ book'[c] = OnlyFails(unpublished'[c])
       /\ unpublished'[c] \subseteq given.listed
  <2>1. CASE UNCHANGED <<book, unpublished>>
    BY <1>4, <2>1 DEF OnlyFails
  <2>2. CASE /\ book' = [book EXCEPT ![c].fails = @ \cup {r}]
             /\ unpublished' = [unpublished EXCEPT ![c] = @ \cup {r}]
    <3>1. book[c]["fails"] = unpublished[c] /\ "fails" \in Verdicts
      BY <1>4 DEF OnlyFails, NoBook, Verdicts
    <3>2. book' = [book EXCEPT ![c]["fails"] = unpublished[c] \cup {r}]
      BY <2>2, <3>1
    <3>3. unpublished[c] \cup {r} \in SUBSET Resources
      BY <1>3, <1>4
    <3>4. /\ book' \in [Copiers -> [Verdicts -> SUBSET Resources]]
          /\ book'[c]["fails"] = unpublished[c] \cup {r}
          /\ \A w \in Verdicts : w # "fails" => book'[c][w] = book[c][w]
          /\ \A d \in Copiers : d # c => book'[d] = book[d]
      BY <1>4, <3>1, <3>2, <3>3, BookUpdate
    <3>5. /\ unpublished' \in [Copiers -> SUBSET Resources]
          /\ unpublished'[c] = unpublished[c] \cup {r}
          /\ \A d \in Copiers : d # c => unpublished'[d] = unpublished[d]
      BY <1>4, <2>2, <3>3
    <3>6. \A w \in Verdicts : w # "fails" => book'[c][w] = {}
      BY <1>4, <3>4 DEF OnlyFails, NoBook
    <3>7. book'[c] = [w \in Verdicts |-> book'[c][w]]
      BY <3>4
    <3>8. book'[c] = OnlyFails(unpublished'[c])
      BY <3>1, <3>4, <3>5, <3>6, <3>7 DEF OnlyFails, NoBook
    <3> QED BY <1>2, <1>3, <1>4, <3>4, <3>5, <3>8
  <2> QED BY <1>2, <2>1, <2>2 DEF Publish
<1>11. Accounts(c)'
  <2>1. pc'[c] = "publish" => todo'[c] # {} /\ todo'[c] \subseteq given.listed
    BY <1>3, <1>8, <1>9
  <2>2. pc'[c] \in {"publish", "collect"} /\ UNCHANGED given
    BY <1>1, <1>9
  <2> QED BY <1>10, <2>1, <2>2 DEF Accounts, Loops, Over
<1> QED BY <1>1, <1>6, <1>8, <1>10, <1>11 DEF Kept, CoreTyped, AccountIInv, CopyTypeOK

\* get_links: what has no link has failed, whether or not it was tried.
LEMMA CollectKept ==
    ASSUME AccountIInv, NEW c \in Copiers, Collect(c)
    PROVE  Kept(c)
<1>1. /\ pc[c] = "collect" /\ UNCHANGED <<given, todo, unpublished, target, published>>
      /\ pc'[c] = "folder"
  BY DEF Collect, Goto, servers, AccountIInv, CopyTypeOK
<1>2. /\ book[c] = OnlyFails(unpublished[c]) /\ unpublished[c] \subseteq given.listed
      /\ book \in [Copiers -> [Verdicts -> SUBSET Resources]]
      /\ published \subseteq given.listed /\ given.listed \subseteq Resources
  BY <1>1, ListedAreResources DEF AccountIInv, Accounts, CopyTypeOK
<1> DEFINE F == unpublished[c] \cup (given.listed \ (published \cup unpublished[c]))
<1>3. book[c].fails = unpublished[c]
  BY <1>2 DEF OnlyFails, NoBook, Verdicts
<1>4. Linked(c) \in SUBSET Resources /\ F \in SUBSET Resources
  BY <1>2 DEF Linked
<1>5. book' = [book EXCEPT ![c].saved = Linked(c), ![c].fails = F]
  BY <1>3 DEF Collect
<1> HIDE DEF F
<1>6. /\ book' \in [Copiers -> [Verdicts -> SUBSET Resources]]
      /\ \A d \in Copiers : d # c => book'[d] = book[d]
      /\ book'[c]["saved"] = Linked(c) /\ book'[c]["fails"] = F
      /\ book'[c]["skipped"] = book[c]["skipped"]
      /\ book'[c]["unconfirmed"] = book[c]["unconfirmed"]
  BY <1>2, <1>4, <1>5 DEF Verdicts
<1>7. book[c]["skipped"] = {} /\ book[c]["unconfirmed"] = {}
  BY <1>2 DEF OnlyFails, NoBook, Verdicts
<1>8. Linked(c) \cup F = given.listed /\ Linked(c) \cap F = {}
  BY <1>2 DEF Linked, F
<1>9. Booked(c)' = given.listed
  BY <1>6, <1>7, <1>8 DEF Booked
<1>10. Apart(c)'
  BY <1>6, <1>7, <1>8 DEF Apart, Verdicts
<1>11. Divides(c, {})'
  BY <1>1, <1>9, <1>10 DEF Divides
<1>12. Accounts(c)'
  BY <1>1, <1>6, <1>7, <1>11 DEF Accounts, Loops, Over
<1> QED BY <1>1, <1>2, <1>6, <1>12 DEF Kept, CoreTyped, AccountIInv, CopyTypeOK

\* save_links starts with the collected links as what it has to do.
LEMMA FolderKept ==
    ASSUME AccountIInv, NEW c \in Copiers, EnsureFolder(c)
    PROVE  Kept(c)
<1>1. pc[c] = "folder" /\ UNCHANGED <<given, unpublished, target, published>>
  BY DEF EnsureFolder, servers
<1>2. /\ book \in [Copiers -> [Verdicts -> SUBSET Resources]] /\ Divides(c, {})
      /\ todo \in [Copiers -> SUBSET Resources] /\ published \subseteq given.listed
  BY <1>1 DEF AccountIInv, Accounts, CopyTypeOK
<1>3. PICK S \in SUBSET Resources : S = book[c].saved
  BY <1>2 DEF Verdicts
<1>4. /\ book' = [book EXCEPT ![c]["saved"] = {}]
      /\ todo' = [todo EXCEPT ![c] = S]
      /\ Goto(c, IF S = {} THEN Leaving(c, TRUE) ELSE "save")
  BY <1>3 DEF EnsureFolder
<1>5. /\ book' \in [Copiers -> [Verdicts -> SUBSET Resources]]
      /\ \A d \in Copiers : d # c => book'[d] = book[d]
      /\ book'[c]["saved"] = {}
      /\ \A w \in Verdicts : w # "saved" => book'[c][w] = book[c][w]
  <2>1. "saved" \in Verdicts /\ {} \in SUBSET Resources
    BY DEF Verdicts
  <2> QED BY <1>2, <1>4, <2>1, BookUpdate
<1>6. /\ todo' \in [Copiers -> SUBSET Resources] /\ todo'[c] = S
      /\ \A d \in Copiers : d # c => todo'[d] = todo[d]
  BY <1>2, <1>4
<1>7. Divides(c, S)'
  <2>1. /\ book'[c].saved = {} /\ book'[c].fails = book[c].fails
        /\ book'[c].skipped = book[c].skipped /\ book'[c].unconfirmed = book[c].unconfirmed
    BY <1>5 DEF Verdicts
  <2>2. Booked(c) = S \cup Booked(c)'
    BY <1>3, <2>1 DEF Booked
  <2>3. S \cap Booked(c)' = {}
    BY <1>2, <1>3, <2>1 DEF Booked, Divides, Apart, Verdicts
  <2>4. Apart(c)'
    BY <1>2, <1>5 DEF Apart, Divides
  <2> QED BY <1>1, <1>2, <2>2, <2>3, <2>4 DEF Divides
<1>8. pc'[c] = IF S = {} THEN Leaving(c, TRUE) ELSE "save"
  BY <1>4 DEF Goto, AccountIInv, CopyTypeOK
<1>9. Accounts(c)'
  <2>1. book[c].skipped = {}
    BY <1>1 DEF AccountIInv, Accounts
  <2>2. Placed(c)'
    BY <1>5, <2>1 DEF Placed, Verdicts
  <2>3. CASE S = {}
    <3>1. pc'[c] \in Over /\ Divides(c, {})'
      BY <1>7, <1>8, <2>3, LeavingIsOver
    <3> QED BY <2>2, <3>1, LoopsAndOver DEF Accounts
  <2>4. CASE S # {}
    <3>1. pc'[c] = "save" /\ "save" \in Loops
      BY <1>8, <2>4 DEF Loops
    <3>2. todo'[c] # {} /\ Divides(c, todo[c])'
      BY <1>6, <1>7, <2>4 DEF Divides
    <3> QED BY <2>2, <3>1, <3>2, LoopsAndOver DEF Accounts
  <2> QED BY <2>3, <2>4
<1> QED BY <1>1, <1>2, <1>5, <1>6, <1>9 DEF Kept, CoreTyped, AccountIInv, CopyTypeOK

\* The root folder, and the walk of the shared copy.
LEMMA TreeKept ==
    ASSUME AccountIInv, NEW c \in Copiers, EnsureTree(c)
    PROVE  Kept(c)
<1>1. /\ pc[c] = "tree"
      /\ UNCHANGED <<given, todo, book, unpublished, target, published>>
      /\ pc'[c] = IF given.listed = {} THEN Leaving(c, TRUE) ELSE "publishOne"
  BY DEF EnsureTree, Goto, servers, AccountIInv, CopyTypeOK
<1>2. todo[c] = given.listed /\ Divides(c, given.listed) /\ Placed(c)
  BY <1>1, NothingBooked DEF AccountIInv, Accounts
<1>3. Divides(c, todo[c])' /\ Placed(c)'
  BY <1>1, <1>2 DEF Divides, Booked, Apart, Placed
<1>4. CASE given.listed = {}
  <2>1. pc'[c] \in Over /\ Divides(c, {})'
    BY <1>1, <1>2, <1>3, <1>4, LeavingIsOver DEF Divides
  <2>2. Accounts(c)'
    BY <1>3, <2>1, LoopsAndOver DEF Accounts
  <2> QED BY <1>1, <2>2 DEF Kept, CoreTyped, AccountIInv, CopyTypeOK
<1>5. CASE given.listed # {}
  <2>1. pc'[c] \in Loops /\ todo'[c] # {}
    BY <1>1, <1>2, <1>5 DEF Loops
  <2>2. Accounts(c)'
    BY <1>3, <2>1, LoopsAndOver DEF Accounts
  <2> QED BY <1>1, <2>2 DEF Kept, CoreTyped, AccountIInv, CopyTypeOK
<1> QED BY <1>4, <1>5

\* The walk of the local copy books the directories it cannot create.
LEMMA VisitKept ==
    ASSUME AccountIInv, NEW c \in Copiers, Visit(c)
    PROVE  Kept(c)
<1>1. pc[c] = "visit" /\ UNCHANGED <<given, unpublished, target, published>>
  BY DEF Visit, servers
<1>2. PICK bad \in SUBSET (given.listed \cap Dirs) :
        /\ book' = [book EXCEPT ![c].fails = bad]
        /\ todo' = [todo EXCEPT ![c] = given.listed \ bad]
        /\ Goto(c, IF bad = given.listed THEN Leaving(c, TRUE) ELSE "download")
  BY DEF Visit
<1>3. /\ given.listed \subseteq Resources /\ bad \in SUBSET Resources
      /\ book \in [Copiers -> [Verdicts -> SUBSET Resources]]
      /\ todo \in [Copiers -> SUBSET Resources]
      /\ published \subseteq given.listed
  BY ListedAreResources DEF AccountIInv, CopyTypeOK
<1>4. \A v \in Verdicts : book[c][v] = {}
  BY <1>1, NothingBooked DEF AccountIInv, Accounts
<1>5. /\ book' \in [Copiers -> [Verdicts -> SUBSET Resources]]
      /\ book'[c]["fails"] = bad
      /\ \A w \in Verdicts : w # "fails" => book'[c][w] = {}
      /\ \A d \in Copiers : d # c => book'[d] = book[d]
  <2>1. "fails" \in Verdicts /\ book' = [book EXCEPT ![c]["fails"] = bad]
    BY <1>2 DEF Verdicts
  <2> QED BY <1>3, <1>4, <2>1, BookUpdate
<1>6. /\ todo' \in [Copiers -> SUBSET Resources] /\ todo'[c] = given.listed \ bad
      /\ \A d \in Copiers : d # c => todo'[d] = todo[d]
  BY <1>2, <1>3
<1>7. Divides(c, todo[c])' /\ Placed(c)'
  <2>1. Booked(c)' = bad
    BY <1>5 DEF Booked, Verdicts
  <2>2. Apart(c)'
    BY <1>5 DEF Apart
  <2>3. given' = given /\ bad \subseteq given.listed
    BY <1>1
  <2>4. Placed(c)'
    BY <1>5 DEF Placed, Verdicts
  <2> QED BY <1>6, <2>1, <2>2, <2>3, <2>4 DEF Divides
<1>8. pc'[c] = IF bad = given.listed THEN Leaving(c, TRUE) ELSE "download"
  BY <1>2 DEF Goto, AccountIInv, CopyTypeOK
<1>9. Accounts(c)'
  <2>1. CASE bad = given.listed
    <3>1. pc'[c] \in Over /\ todo'[c] = {}
      BY <1>6, <1>8, <2>1, LeavingIsOver
    <3>2. Divides(c, {})'
      BY <1>7, <3>1 DEF Divides
    <3> QED BY <1>7, <3>1, <3>2, LoopsAndOver DEF Accounts
  <2>2. CASE bad # given.listed
    <3>1. pc'[c] \in Loops /\ todo'[c] # {}
      BY <1>6, <1>8, <2>2 DEF Loops
    <3> QED BY <1>7, <3>1, LoopsAndOver DEF Accounts
  <2> QED BY <2>1, <2>2
<1> QED BY <1>1, <1>3, <1>5, <1>6, <1>9 DEF Kept, CoreTyped, AccountIInv, CopyTypeOK

\* The phases a copy can begin with, with nothing booked and all to do.
LEMMA FirstPhaseKept ==
    ASSUME AccountIInv, NEW c \in Copiers,
           book[c] = NoBook, unpublished[c] = {},
           NEW q \in {FirstPhase, "unblock"}, Goto(c, q),
           todo' = [todo EXCEPT ![c] = given.listed],
           UNCHANGED <<given, book, unpublished, target, published>>
    PROVE  Kept(c)
<1>1. pc'[c] = q
  BY DEF Goto, AccountIInv, CopyTypeOK
<1>2. given.work \in {"personal", "shared", "local"}
  BY CopyAssumption DEF AccountIInv, CopyTypeOK
<1>3. /\ q \in {"unblock", "tree", "visit", "collect", "publish"}
      /\ q = "publish" => given.listed # {}
  BY <1>2 DEF FirstPhase
<1>4. /\ todo' \in [Copiers -> SUBSET Resources] /\ todo'[c] = given.listed
      /\ \A d \in Copiers : d # c => todo'[d] = todo[d]
  BY ListedAreResources DEF AccountIInv, CopyTypeOK
<1>5. book[c] = OnlyFails({})
  BY DEF OnlyFails, NoBook, Verdicts
<1>6. Accounts(c)'
  BY <1>1, <1>3, <1>4, <1>5 DEF Accounts, Loops, Over
<1> QED BY <1>4, <1>6 DEF Kept, CoreTyped, AccountIInv, CopyTypeOK

LEMMA StatusKept ==
    ASSUME AccountIInv, NEW c \in Copiers, GetStatus(c)
    PROVE  Kept(c)
<1>1. /\ pc[c] = "status" /\ UNCHANGED <<given, book, unpublished, target, published>>
      /\ todo' = [todo EXCEPT ![c] = given.listed]
  BY DEF GetStatus, servers
<1>2. book[c] = NoBook /\ unpublished[c] = {}
  BY <1>1 DEF AccountIInv, Accounts
<1>3. PICK q \in {FirstPhase, "unblock", "failed"} : Goto(c, q)
  BY DEF GetStatus
<1>4. CASE q \in {FirstPhase, "unblock"}
  BY <1>1, <1>2, <1>3, <1>4, FirstPhaseKept
<1>5. CASE q = "failed"
  <2>1. pc'[c] = "failed"
    BY <1>3, <1>5 DEF Goto, AccountIInv, CopyTypeOK
  <2>2. Accounts(c)'
    BY <2>1 DEF Accounts, Loops, Over
  <2>3. /\ todo' \in [Copiers -> SUBSET Resources]
        /\ \A d \in Copiers : d # c => todo'[d] = todo[d]
    BY <1>1, ListedAreResources DEF AccountIInv, CopyTypeOK
  <2> QED BY <1>1, <2>2, <2>3 DEF Kept, CoreTyped, AccountIInv, CopyTypeOK
<1> QED BY <1>3, <1>4, <1>5

LEMMA UnblockKept ==
    ASSUME AccountIInv, NEW c \in Copiers, Unblock(c)
    PROVE  Kept(c)
<1>1. /\ pc[c] = "unblock"
      /\ UNCHANGED <<given, todo, book, unpublished, target, published>>
  BY DEF Unblock
<1>2. book[c] = NoBook /\ unpublished[c] = {} /\ todo[c] = given.listed
  BY <1>1 DEF AccountIInv, Accounts
<1>3. CASE Goto(c, FirstPhase)
  <2>1. todo' = [todo EXCEPT ![c] = given.listed]
    BY <1>1, <1>2 DEF AccountIInv, CopyTypeOK
  <2> QED BY <1>1, <1>2, <1>3, <2>1, FirstPhaseKept
<1>4. CASE Goto(c, "failed")
  BY <1>1, <1>4, FailureKept
<1> QED BY <1>3, <1>4 DEF Unblock

LEMMA TokenKept ==
    ASSUME AccountIInv, NEW c \in Copiers, GetToken(c) \/ Begin(c)
    PROVE  Kept(c)
<1>1. /\ pc[c] \in {"idle", "token"}
      /\ UNCHANGED <<given, todo, book, unpublished, target, published>>
  BY DEF GetToken, Begin, servers
<1>2. pc'[c] \in {"token", "status", "failed"}
  BY DEF GetToken, Begin, Goto, AccountIInv, CopyTypeOK
<1>3. book[c] = NoBook /\ unpublished[c] = {}
  BY <1>1 DEF AccountIInv, Accounts
<1>4. Accounts(c)'
  BY <1>1, <1>2, <1>3 DEF Accounts, Loops, Over
<1> QED BY <1>1, <1>4 DEF Kept, CoreTyped, AccountIInv, CopyTypeOK

LEMMA AbortKept ==
    ASSUME AccountIInv, NEW c \in Copiers, Abort(c)
    PROVE  Kept(c)
<1>1. Leaving(c, FALSE) \in {"failed", "restoreFailed", "dead"}
  BY DEF Leaving
<1> QED BY <1>1, FailureKept DEF Abort, servers

\* The accounts of a finished transfer are those of the result.
LEMMA RestoreKept ==
    ASSUME AccountIInv, NEW c \in Copiers, Restore(c)
    PROVE  Kept(c)
<1>1. /\ pc[c] \in Restoring
      /\ UNCHANGED <<given, todo, book, unpublished, target, published>>
  BY DEF Restore
<1>2. CASE Goto(c, "failed")
  BY <1>1, <1>2, FailureKept
<1>3. CASE Goto(c, "done") /\ pc[c] = "restoreDone"
  <2>1. Divides(c, {}) /\ Placed(c)
    BY <1>3 DEF AccountIInv, Accounts, Over
  <2>2. Divides(c, {})' /\ Placed(c)'
    BY <1>1, <2>1 DEF Divides, Booked, Apart, Placed
  <2>3. pc'[c] = "done"
    BY <1>3 DEF Goto, AccountIInv, CopyTypeOK
  <2>4. Accounts(c)'
    BY <2>2, <2>3 DEF Accounts, Loops, Over
  <2> QED BY <1>1, <2>4 DEF Kept, CoreTyped, AccountIInv, CopyTypeOK
<1> QED BY <1>2, <1>3 DEF Restore

LEMMA DomainsTyped ==
    ASSUME CopyTypeOK
    PROVE  OwnerDomains
BY DEF CopyTypeOK, OwnerDomains

LEMMA StepKept ==
    ASSUME AccountIInv, NEW c \in Copiers, CopierStep(c)
    PROVE  Kept(c)
BY TokenKept, StatusKept, UnblockKept, AbortKept, RestoreKept, PublishKept, CollectKept,
   FolderKept, SaveLinkKept, PollKept, BytesKept, TreeKept, PublishOneKept, UploadOneKept,
   VisitKept, DownloadKept
   DEF CopierStep

\* What a step leaves besides the accounts.
LEMMA SidesTyped ==
    ASSUME CopyTypeOK, NEW c \in Copiers, CopierStep(c)
    PROVE  UNCHANGED retry /\ warned' \subseteq Copiers /\ patchLost' \in BOOLEAN
<1>1. UNCHANGED retry
  BY DEF CopierStep, GetToken, GetStatus, Unblock, Abort, Restore, Publish, Collect,
         EnsureFolder, SaveLink, Poll, CopyFileBytes, EnsureTree, PublishOne, UploadOne,
         Visit, Download
<1>2. warned' \in {warned, warned \cup {c}} /\ patchLost' \in {patchLost, TRUE}
  <2>1. CASE pc[c] \in Transferring
    BY <2>1, DomainsTyped, TransferMoves
  <2>2. CASE GetToken(c) \/ GetStatus(c) \/ Unblock(c) \/ Restore(c)
    BY <2>2 DEF GetToken, GetStatus, Unblock, Restore
  <2> QED BY <2>1, <2>2
          DEF CopierStep, Abort, Publish, Collect, EnsureFolder, SaveLink, Poll,
              CopyFileBytes, EnsureTree, PublishOne, UploadOne, Visit, Download,
              Transferring
<1> QED BY <1>1, <1>2 DEF CopyTypeOK

\* The others keep their accounts, because what they stand on stays.
LEMMA KeptIsEnough ==
    ASSUME AccountIInv, NEW c \in Copiers, Kept(c), CopyTypeOK', UNCHANGED given,
           \A d \in Copiers : d # c => pc'[d] = pc[d]
    PROVE  AccountIInv'
<1>1. ASSUME NEW d \in Copiers, d # c
      PROVE  Accounts(d)'
  <2>1. /\ todo'[d] = todo[d] /\ book'[d] = book[d]
        /\ unpublished'[d] = unpublished[d] /\ target'[d] = target[d] /\ pc'[d] = pc[d]
    BY <1>1 DEF Kept
  <2>2. Accounts(d)
    BY DEF AccountIInv
  <2>3. /\ Divides(d, {}) => Divides(d, {})'
        /\ Divides(d, todo[d]) => Divides(d, todo[d])'
        /\ Placed(d) => Placed(d)'
    BY <2>1 DEF Divides, Booked, Apart, Placed
  <2> QED BY <2>1, <2>2, <2>3 DEF Accounts
<1>2. Accounts(c)' /\ published' \subseteq given'.listed
  BY DEF Kept
<1> QED BY <1>1, <1>2 DEF AccountIInv

LEMMA CopierKeepsAccounts ==
    ASSUME AccountIInv, OwnerIInv, NEW c \in Copiers, CopierStep(c)
    PROVE  AccountIInv'
<1>0. CopyTypeOK /\ OwnerDomains
  BY DEF AccountIInv, OwnerIInv
<1>1. Kept(c)
  BY StepKept
<1>2. (\E q \in CopyStates : pc' = [pc EXCEPT ![c] = q]) /\ UNCHANGED given
  BY <1>0, StepIsOwn
<1>3. /\ pc' \in [Copiers -> CopyStates]
      /\ \A d \in Copiers : d # c => pc'[d] = pc[d]
  BY <1>0, <1>2 DEF CopyTypeOK
<1>4. banNeed' \in [Copiers -> BOOLEAN] /\ owner' \in BOOLEAN
  BY CopierKeepsOwner DEF OwnerIInv, OwnerDomains
<1>5. UNCHANGED retry /\ warned' \subseteq Copiers /\ patchLost' \in BOOLEAN
  BY <1>0, SidesTyped
<1>6. published' \subseteq Resources
  BY <1>0, <1>1, ListedAreResources DEF Kept
<1>7. CopyTypeOK'
  <2>1. CoreTyped'
    BY <1>1 DEF Kept
  <2> QED BY <1>0, <1>2, <1>3, <1>4, <1>5, <1>6, <2>1 DEF CopyTypeOK, CoreTyped
<1> QED BY <1>1, <1>2, <1>3, <1>7, KeptIsEnough

LEMMA BeginKeepsAccounts ==
    ASSUME AccountIInv, NEW c \in Copiers, Begin(c)
    PROVE  AccountIInv'
<1>1. Kept(c)
  BY TokenKept
<1>2. /\ pc' = [pc EXCEPT ![c] = "token"]
      /\ UNCHANGED <<given, retry, todo, book, unpublished, banNeed, owner, published,
                     target, warned, patchLost>>
  BY DEF Begin, Goto, servers
<1>3. "token" \in CopyStates
  BY DEF CopyStates
<1>4. pc' \in [Copiers -> CopyStates] /\ \A d \in Copiers : d # c => pc'[d] = pc[d]
  BY <1>2, <1>3 DEF AccountIInv, CopyTypeOK
<1>5. CopyTypeOK'
  BY <1>2, <1>4 DEF AccountIInv, CopyTypeOK
<1> QED BY <1>1, <1>2, <1>4, <1>5, KeptIsEnough

\* When only retries are switched, or the copiers die, nobody has to account
\* for more.
LEMMA KillKeepsAccounts ==
    ASSUME AccountIInv, KillCopiers
    PROVE  AccountIInv'
<1>1. /\ \A d \in Copiers : pc'[d] = IF pc[d] \in Rest THEN pc[d] ELSE "dead"
      /\ UNCHANGED <<given, retry, todo, book, unpublished, banNeed, owner, published,
                     target, warned, patchLost>>
  BY DEF KillCopiers, servers
<1>2. pc' \in [Copiers -> CopyStates]
  BY DEF KillCopiers, AccountIInv, CopyTypeOK, CopyStates, Rest
<1>3. CopyTypeOK'
  BY <1>1, <1>2 DEF AccountIInv, CopyTypeOK
<1>4. ASSUME NEW d \in Copiers
      PROVE  Accounts(d)'
  <2>1. Accounts(d)
    BY DEF AccountIInv
  <2>2. CASE pc[d] \in Rest
    <3>1. /\ Divides(d, {}) => Divides(d, {})'
          /\ Divides(d, todo[d]) => Divides(d, todo[d])'
          /\ Placed(d) => Placed(d)'
      BY <1>1 DEF Divides, Booked, Apart, Placed
    <3> QED BY <1>1, <2>1, <2>2, <3>1 DEF Accounts
  <2>3. CASE pc[d] \notin Rest
    BY <1>1, <2>3 DEF Accounts, Loops, Over
  <2> QED BY <2>2, <2>3
<1> QED BY <1>1, <1>3, <1>4 DEF AccountIInv

LEMMA SwitchKeepsAccounts ==
    ASSUME AccountIInv, NEW cs \in SUBSET Copiers, NEW enabled \in BOOLEAN,
           SwitchRetries(cs, enabled)
    PROVE  AccountIInv'
<1>1. UNCHANGED <<given, pc, todo, book, unpublished, banNeed, owner, published,
                  target, warned, patchLost>>
  BY DEF SwitchRetries, servers
<1>2. retry' \in [Copiers -> BOOLEAN]
  BY DEF SwitchRetries, AccountIInv, CopyTypeOK
<1>3. CopyTypeOK'
  BY <1>1, <1>2 DEF AccountIInv, CopyTypeOK
<1>4. \A d \in Copiers : Accounts(d)'
  BY <1>1 DEF AccountIInv, Accounts, Divides, Booked, Apart, Placed
<1> QED BY <1>1, <1>3, <1>4 DEF AccountIInv

LEMMA StillKeepsAccounts ==
    ASSUME AccountIInv, UNCHANGED copyVars
    PROVE  AccountIInv'
<1>1. UNCHANGED <<given, retry, pc, todo, book, unpublished, banNeed, owner, published,
                  target, warned, patchLost>>
  BY DEF copyVars, copier, servers
<1>2. CopyTypeOK'
  BY <1>1 DEF AccountIInv, CopyTypeOK
<1>3. \A d \in Copiers : Accounts(d)'
  BY <1>1 DEF AccountIInv, Accounts, Divides, Booked, Apart, Placed
<1> QED BY <1>1, <1>2, <1>3 DEF AccountIInv

LEMMA AccountInit ==
    ASSUME CopyInit
    PROVE  AccountIInv
<1>1. CopyTypeOK
  <2>1. given \in [work : Works, listed : Listings, active : BOOLEAN]
    BY DEF CopyInit
  <2>2. pc \in [Copiers -> CopyStates]
    BY DEF CopyInit, CopyStates, Rest
  <2>3. /\ todo \in [Copiers -> SUBSET Resources]
        /\ unpublished \in [Copiers -> SUBSET Resources]
        /\ banNeed \in [Copiers -> BOOLEAN] /\ retry \in [Copiers -> BOOLEAN]
    BY DEF CopyInit
  <2>4. book \in [Copiers -> [Verdicts -> SUBSET Resources]]
    BY DEF CopyInit, NoBook
  <2>5. owner \in BOOLEAN /\ published \subseteq Resources /\ warned \subseteq Copiers
    BY <2>1 DEF CopyInit
  <2>6. target \in [Copiers -> SUBSET Resources] /\ patchLost \in BOOLEAN
    <3>1. PICK held \in Occupied : target = [c \in Copiers |-> held]
      BY DEF CopyInit
    <3>2. held \in SUBSET Resources
      BY <3>1, CopyAssumption
    <3> QED BY <3>1, <3>2 DEF CopyInit
  <2> QED BY <2>1, <2>2, <2>3, <2>4, <2>5, <2>6 DEF CopyTypeOK
<1>2. ASSUME NEW d \in Copiers
      PROVE  Accounts(d)
  BY DEF CopyInit, Accounts, Loops, Over
<1>3. published \subseteq given.listed
  BY DEF CopyInit
<1> QED BY <1>1, <1>2, <1>3 DEF AccountIInv

LEMMA AccountsAreComplete ==
    ASSUME AccountIInv
    PROVE  FilesAccounted
<1> SUFFICES ASSUME NEW c \in Copiers, pc[c] \in {"restoreDone", "done"}
             PROVE  /\ given.listed = UNION {book[c][v] : v \in Verdicts}
                    /\ \A v, w \in Verdicts : v # w => book[c][v] \cap book[c][w] = {}
                    /\ book[c].saved \cup book[c].skipped \subseteq target[c]
  BY DEF FilesAccounted
<1>1. Divides(c, {}) /\ Placed(c)
  BY DEF AccountIInv, Accounts, Over
<1>2. UNION {book[c][v] : v \in Verdicts} = Booked(c)
  BY DEF Verdicts, Booked
<1> QED BY <1>1, <1>2 DEF Divides, Apart, Placed

=============================================================================
