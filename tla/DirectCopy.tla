----------------------------- MODULE DirectCopy -----------------------------
(***************************************************************************)
(* DiskCopier.run: one direct copy of an employee's Disk, from the token   *)
(* to the restored block, for several copiers that read the Disk of the    *)
(* same employee at once (the pairs of a batch, or separate jobs).         *)
(*                                                                         *)
(* A step is one request to a server with the code around it, or one       *)
(* walk of the listing.  The servers are external: the directory of the    *)
(* organisation holds whether the employee is active, the Disk refuses the *)
(* calls of a blocked employee, and any call may fail.  Attempts repeated  *)
(* inside one call (the session, the 401 refresh, the download loop and    *)
(* the polling of an operation) are one step with the outcome of the last. *)
(* Pages of a listing, pauses between files and the space check are left   *)
(* out: they add waiting, or an exception that Abort stands for.           *)
(*                                                                         *)
(* A definition just before the one its name begins like, and used nowhere *)
(* else, is a seeded defect: in its neighbour's place it must break one of *)
(* the properties.                                                         *)
(***************************************************************************)
EXTENDS Integers, FiniteSets

CONSTANTS
    Copiers,    \* the DiskCopier objects
    Resources,  \* the resources of the source, numbered in the order of the listing
    Dirs,       \* the directories among them; copied to the machine, with one file in each
    Works,      \* the kinds of copy to consider
    Listings,   \* what the source path may list, nothing when it does not exist
    Occupied    \* the sets of resources a destination may hold beforehand

ASSUME CopyAssumption ==
    /\ Resources \subseteq Nat /\ IsFiniteSet(Resources)
    /\ Listings \subseteq SUBSET Resources
    /\ Dirs \subseteq Resources
    /\ Works \subseteq {"personal", "shared", "local"}
    /\ Occupied \subseteq SUBSET Resources

VARIABLES
    given,      \* kind of copy, what the path lists, whether the employee was active
    retry,      \* retry_policy.enabled, shared by the copiers of a job
    pc,         \* where each copier stands
    todo,       \* the resources its current loop has not handled
    book,       \* its links, fails, skipped and unconfirmed lists
    unpublished,\* _failed_publications
    banNeed,    \* ban_need: this copier lifted the block
    owner,      \* isEnabled of the employee, in the directory
    published,  \* the resources of the source with a public key
    target,     \* what each destination holds
    warned,     \* the copiers that asked to restore the block by hand
    patchLost   \* an answer to a PATCH of the employee was lost

copier == <<retry, pc, todo, book, unpublished, banNeed>>
servers == <<owner, published, target>>
copyVars == <<given, copier, servers, warned, patchLost>>

Verdicts == {"saved", "fails", "skipped", "unconfirmed"}
NoBook == [v \in Verdicts |-> {}]

Rest == {"idle", "done", "failed", "dead"}
Restoring == {"restoreDone", "restoreFailed"}
Transferring == {"publish", "collect", "folder", "save", "poll", "bytes",
                 "tree", "publishOne", "upload", "visit", "download"}
CopyStates == Rest \cup Restoring \cup Transferring \cup {"token", "status", "unblock"}

CopyTypeOK ==
    /\ given \in [work : Works, listed : Listings, active : BOOLEAN]
    /\ retry \in [Copiers -> BOOLEAN]
    /\ pc \in [Copiers -> CopyStates]
    /\ todo \in [Copiers -> SUBSET Resources]
    /\ book \in [Copiers -> [Verdicts -> SUBSET Resources]]
    /\ unpublished \in [Copiers -> SUBSET Resources]
    /\ banNeed \in [Copiers -> BOOLEAN]
    /\ owner \in BOOLEAN
    /\ published \subseteq Resources
    /\ target \in [Copiers -> SUBSET Resources]
    /\ warned \subseteq Copiers
    /\ patchLost \in BOOLEAN

CopyInit ==
    /\ given \in [work : Works, listed : Listings, active : BOOLEAN]
    /\ retry \in {[c \in Copiers |-> v] : v \in BOOLEAN}
    /\ pc = [c \in Copiers |-> "idle"]
    /\ todo = [c \in Copiers |-> {}]
    /\ book = [c \in Copiers |-> NoBook]
    /\ unpublished = [c \in Copiers |-> {}]
    /\ banNeed = [c \in Copiers |-> FALSE]
    /\ owner = given.active
    /\ published = {}
    /\ \E held \in Occupied : target = [c \in Copiers |-> held]
    /\ warned = {}
    /\ patchLost = FALSE

----------------------------------------------------------------------------
(* Moving between the phases. *)

First(S) == CHOOSE r \in S : \A s \in S : r <= s

Goto(c, place) == pc' = [pc EXCEPT ![c] = place]

\* Where run() goes once the block is lifted or was not needed.
FirstPhase == CASE given.work = "personal" -> IF given.listed = {} THEN "collect" ELSE "publish"
                [] given.work = "shared"   -> "tree"
                [] given.work = "local"    -> "visit"

\* The phase that takes the next resource of the loop.
Loop == CASE given.work = "personal" -> "save"
          [] given.work = "shared"   -> "publishOne"
          [] given.work = "local"    -> "download"

\* The finally clause: the block is restored whatever the transfer did.
LeavingForgetsFailure(c, ok) ==
    IF banNeed[c] /\ ok THEN "restoreDone" ELSE IF ok THEN "done" ELSE "failed"
Leaving(c, ok) ==
    IF banNeed[c] THEN IF ok THEN "restoreDone" ELSE "restoreFailed"
                  ELSE IF ok THEN "done" ELSE "failed"

\* An exception escapes the transfer: a token that is refused, a listing that
\* cannot be read, an error the current phase does not catch.
Abort(c) ==
    /\ pc[c] \in Transferring
    /\ Goto(c, Leaving(c, FALSE))
    /\ UNCHANGED <<given, retry, todo, book, unpublished, banNeed, servers,
                   warned, patchLost>>

\* Resource r ends with verdict v, and the loop goes on or ends.
Settle(c, r, v) ==
    /\ book' = [book EXCEPT ![c][v] = @ \cup {r}]
    /\ todo' = [todo EXCEPT ![c] = @ \ {r}]
    /\ Goto(c, IF todo[c] = {r} THEN Leaving(c, TRUE) ELSE Loop)

Places(c, r) == target' = [target EXCEPT ![c] = @ \cup {r}]
MayPlace(c, r) == Places(c, r) \/ UNCHANGED target
MayPublish(r) == published' \in {published, published \cup {r}}

----------------------------------------------------------------------------
(* Before the transfer: the token, the state of the employee, the block. *)

Begin(c) ==
    /\ pc[c] = "idle"
    /\ Goto(c, "token")
    /\ UNCHANGED <<given, retry, todo, book, unpublished, banNeed, servers,
                   warned, patchLost>>

GetToken(c) ==
    /\ pc[c] = "token"
    /\ \E next \in {"status", "failed"} : Goto(c, next)
    /\ UNCHANGED <<given, retry, todo, book, unpublished, banNeed, servers,
                   warned, patchLost>>

\* The source loop starts with every resource of the listing.
GetStatus(c) ==
    /\ pc[c] = "status"
    /\ \E next \in {IF owner THEN FirstPhase ELSE "unblock", "failed"} : Goto(c, next)
    /\ todo' = [todo EXCEPT ![c] = given.listed]
    /\ UNCHANGED <<given, retry, book, unpublished, banNeed, servers, warned, patchLost>>

\* ban_need is set only after the answer: a refusal and a lost answer both
\* leave run() before its try, without a restore.
Unblock(c) ==
    /\ pc[c] = "unblock"
    /\ \/ /\ owner' = TRUE
          /\ banNeed' = [banNeed EXCEPT ![c] = TRUE]
          /\ Goto(c, FirstPhase)
          /\ UNCHANGED patchLost
       \/ /\ Goto(c, "failed")
          /\ UNCHANGED <<owner, banNeed, patchLost>>
       \/ /\ owner' \in {owner, TRUE}
          /\ patchLost' = TRUE
          /\ Goto(c, "failed")
          /\ UNCHANGED banNeed
    /\ UNCHANGED <<given, retry, todo, book, unpublished, published, target, warned>>

\* After the transfer.  A refusal is logged and hides no earlier error; a
\* transport error is not caught and is not logged.
Restore(c) ==
    /\ pc[c] \in Restoring
    /\ \/ /\ owner' = FALSE
          /\ Goto(c, IF pc[c] = "restoreDone" THEN "done" ELSE "failed")
          /\ UNCHANGED <<warned, patchLost>>
       \/ /\ warned' = warned \cup {c}
          /\ Goto(c, "failed")
          /\ UNCHANGED <<owner, patchLost>>
       \/ /\ owner' \in {owner, FALSE}
          /\ patchLost' = TRUE
          /\ Goto(c, "failed")
          /\ UNCHANGED warned
    /\ UNCHANGED <<given, retry, todo, book, unpublished, banNeed, published, target>>

----------------------------------------------------------------------------
(* To a personal Disk: make_links, get_links, save_links. *)

\* make_links goes on to the next resource, and after the last to get_links.
NextPublication(c) ==
    LET rest == todo[c] \ {First(todo[c])}
    IN  /\ todo' = [todo EXCEPT ![c] = rest]
        /\ Goto(c, IF rest = {} THEN "collect" ELSE "publish")

\* A refused publication is passed over while retries are on (401 and 403
\* abort), and final for its resource when they are off.
Publish(c) ==
    /\ pc[c] = "publish"
    /\ NextPublication(c)
    /\ LET r == First(todo[c])
       IN  \/ /\ owner
              /\ published' = published \cup {r}
              /\ UNCHANGED <<book, unpublished>>
           \/ /\ retry[c] /\ owner
              /\ UNCHANGED <<book, unpublished, published>>
           \/ /\ ~retry[c]
              /\ book' = [book EXCEPT ![c].fails = @ \cup {r}]
              /\ unpublished' = [unpublished EXCEPT ![c] = @ \cup {r}]
              /\ (owner /\ MayPublish(r)) \/ UNCHANGED published
    /\ UNCHANGED <<given, retry, banNeed, owner, target, warned, patchLost>>

\* What get_links puts into self.links, and what it passes over.
LinkedCountsFailed(c) == published
Linked(c) == published \ unpublished[c]

Collect(c) ==
    /\ pc[c] = "collect" /\ owner
    /\ book' = [book EXCEPT ![c].saved = Linked(c),
                            ![c].fails = @ \cup (given.listed \ (published \cup unpublished[c]))]
    /\ Goto(c, "folder")
    /\ UNCHANGED <<given, retry, todo, unpublished, banNeed, servers, warned, patchLost>>

\* save_links takes the collected links, creates the folder, and makes
\* self.links the list of what is really saved.
EnsureFolder(c) ==
    /\ pc[c] = "folder"
    /\ todo' = [todo EXCEPT ![c] = book[c].saved]
    /\ book' = [book EXCEPT ![c].saved = {}]
    /\ Goto(c, IF book[c].saved = {} THEN Leaving(c, TRUE) ELSE "save")
    /\ UNCHANGED <<given, retry, unpublished, banNeed, servers, warned, patchLost>>

\* _disk_save_public_resource or _vd_upload_from_url: 409, 201, 202, an error.
Upload(c, r) ==
    \/ /\ r \in target[c]
       /\ Settle(c, r, "skipped")
       /\ UNCHANGED target
    \/ /\ r \notin target[c]
       /\ Settle(c, r, "saved")
       /\ Places(c, r)
    \/ /\ r \notin target[c]
       /\ Goto(c, "poll")
       /\ UNCHANGED <<todo, book, target>>
    \/ /\ Settle(c, r, "fails")
       /\ MayPlace(c, r)

\* A dead public link of a file is replaced by its bytes while retries are on.
SaveLink(c) ==
    /\ pc[c] = "save"
    /\ LET r == First(todo[c])
       IN  \/ Upload(c, r)
           \/ /\ retry[c] /\ r \notin Dirs
              /\ Goto(c, "bytes")
              /\ UNCHANGED <<todo, book, target>>
    /\ UNCHANGED <<given, retry, unpublished, banNeed, owner, published, warned, patchLost>>

\* _wait_operation: success, or an error that leaves the outcome open.
Poll(c) ==
    /\ pc[c] = "poll"
    /\ LET r == First(todo[c])
       IN  \/ Settle(c, r, "saved") /\ Places(c, r)
           \/ Settle(c, r, "fails") /\ MayPlace(c, r)
    /\ UNCHANGED <<given, retry, unpublished, banNeed, owner, published, warned, patchLost>>

\* _copy_file_bytes reads with the token of the owner.  An upload answered with
\* 202 has no operation to ask about: it is unconfirmed.
CopyFileBytes(c) ==
    /\ pc[c] = "bytes"
    /\ LET r == First(todo[c])
       IN  \/ /\ owner /\ r \in target[c]
              /\ Settle(c, r, "skipped")
              /\ UNCHANGED target
           \/ /\ owner /\ r \notin target[c]
              /\ Settle(c, r, "saved")
              /\ Places(c, r)
           \/ /\ owner /\ r \notin target[c]
              /\ Settle(c, r, "unconfirmed")
              /\ MayPlace(c, r)
           \/ /\ Settle(c, r, "fails")
              /\ (owner /\ MayPlace(c, r)) \/ UNCHANGED target
    /\ UNCHANGED <<given, retry, unpublished, banNeed, owner, published, warned, patchLost>>

----------------------------------------------------------------------------
(* To a shared disk: save_to_shared. *)

\* The root folder, and the walk that collects the files.
EnsureTree(c) ==
    /\ pc[c] = "tree" /\ owner
    /\ Goto(c, IF given.listed = {} THEN Leaving(c, TRUE) ELSE "publishOne")
    /\ UNCHANGED <<given, retry, todo, book, unpublished, banNeed, servers,
                   warned, patchLost>>

\* Folders, publication, public key and download link of one file.  With
\* retries on, an error before the key is known escapes: see Abort.
PublishOne(c) ==
    /\ pc[c] = "publishOne"
    /\ LET r == First(todo[c])
       IN  \/ /\ owner
              /\ published' = published \cup {r}
              /\ Goto(c, "upload")
              /\ UNCHANGED <<todo, book>>
           \/ /\ owner \/ ~retry[c]
              /\ Settle(c, r, "fails")
              /\ (owner /\ MayPublish(r)) \/ UNCHANGED published
    /\ UNCHANGED <<given, retry, unpublished, banNeed, owner, target, warned, patchLost>>

UploadOne(c) ==
    /\ pc[c] = "upload"
    /\ Upload(c, First(todo[c]))
    /\ UNCHANGED <<given, retry, unpublished, banNeed, owner, published, warned, patchLost>>

----------------------------------------------------------------------------
(* To the machine: save_local. *)

\* The walk creates the directories.  One that cannot be created aborts the
\* copy while retries are on; otherwise it is recorded with all it holds.
Visit(c) ==
    /\ pc[c] = "visit" /\ owner
    /\ \E bad \in SUBSET (given.listed \cap Dirs) :
         /\ bad # {} => ~retry[c]
         /\ book' = [book EXCEPT ![c].fails = bad]
         /\ todo' = [todo EXCEPT ![c] = given.listed \ bad]
         /\ Goto(c, IF bad = given.listed THEN Leaving(c, TRUE) ELSE "download")
    /\ UNCHANGED <<given, retry, unpublished, banNeed, servers, warned, patchLost>>

\* The name appears only when the whole file has been received.
Download(c) ==
    /\ pc[c] = "download"
    /\ LET r == First(todo[c])
       IN  \/ r \in target[c] /\ Settle(c, r, "skipped") /\ UNCHANGED target
           \/ owner /\ r \notin target[c] /\ Settle(c, r, "saved") /\ Places(c, r)
           \/ r \notin target[c] /\ Settle(c, r, "fails") /\ UNCHANGED target
    /\ UNCHANGED <<given, retry, unpublished, banNeed, owner, published, warned, patchLost>>

----------------------------------------------------------------------------
CopierStep(c) ==
    \/ GetToken(c) \/ GetStatus(c) \/ Unblock(c) \/ Abort(c) \/ Restore(c)
    \/ Publish(c) \/ Collect(c) \/ EnsureFolder(c) \/ SaveLink(c) \/ Poll(c)
    \/ CopyFileBytes(c) \/ EnsureTree(c) \/ PublishOne(c) \/ UploadOne(c)
    \/ Visit(c) \/ Download(c)

\* The process dies with its copiers.
KillCopiers ==
    /\ pc' = [c \in Copiers |-> IF pc[c] \in Rest THEN pc[c] ELSE "dead"]
    /\ UNCHANGED <<given, retry, todo, book, unpublished, banNeed, servers,
                   warned, patchLost>>

\* set_enabled by the request of the user.
SwitchRetries(cs, enabled) ==
    /\ retry' = [c \in Copiers |-> IF c \in cs THEN enabled ELSE retry[c]]
    /\ UNCHANGED <<given, pc, todo, book, unpublished, banNeed, servers, warned, patchLost>>

----------------------------------------------------------------------------
(* What a copy promises. *)

\* A copy that returns a result accounts for every resource of the listing
\* exactly once, and what it calls saved or skipped is at the destination,
\* whatever answers were lost and whenever the retries were switched.
FilesAccounted ==
    \A c \in Copiers : pc[c] \in {"restoreDone", "done"} =>
        /\ given.listed = UNION {book[c][v] : v \in Verdicts}
        /\ \A v, w \in Verdicts : v # w => book[c][v] \cap book[c][w] = {}
        /\ book[c].saved \cup book[c].skipped \subseteq target[c]

\* When no copier is at work, the employee is as blocked as before the first
\* of them began, however their steps mixed and whichever transfers failed,
\* unless a journal asks for a block by hand, an answer about the block was
\* lost, or the process died with a copy under way.
OwnerRestored ==
    (\A c \in Copiers : pc[c] \in Rest) =>
        \/ owner = given.active
        \/ warned # {} \/ patchLost
        \/ \E c \in Copiers : pc[c] = "dead"

=============================================================================
