------------------------------ MODULE Throttle ------------------------------
(***************************************************************************)
(* The requests of the direct modes (app/throttle.py, RetryPolicy, and the *)
(* transport retries of app/disk_copy.py): threads send requests through   *)
(* one SplitRateLimiter of the process, wait out errors, and repeat a      *)
(* request until it succeeds, the attempts are used up, or the user turns  *)
(* automatic retries off.                                                  *)
(*                                                                         *)
(* Time is a number; a slot is the time from which a request may go out.   *)
(* A slot is reserved under the locks, the thread sleeps without them, and *)
(* looks again whether an answer 429 has moved the barrier meanwhile.      *)
(*                                                                         *)
(* A definition just before the one its name begins like, and used nowhere *)
(* else, is a seeded defect: in its neighbour's place it must break one of *)
(* the properties.                                                         *)
(***************************************************************************)
EXTENDS Integers

CONSTANTS
    Threads,            \* threads that send requests
    Switched,           \* those of the job whose retries are turned off and on
    Downloads,          \* those on a download session: no mutation, and no second attempt
    ReadInterval, WriteInterval, TotalInterval,     \* 1 / rps of the three gates
    Delays,             \* Retry-After, or the back-off without it
    MaxCooldown,        \* the cap on a pause of all threads
    MaxAttempts,        \* attempts of an API session for one request
    MaxTransport,       \* attempts of urllib3 within one of these, after the first
    MaxSends,           \* bound: requests
    MaxSwitches,        \* bound: turns of the switch
    MaxTime             \* bound: idle time passes no further

ASSUME ThrottleAssumption ==
    /\ Switched \subseteq Threads /\ Downloads \subseteq Threads
    /\ {ReadInterval, WriteInterval, TotalInterval} \subseteq Nat \ {0}
    /\ Delays \subseteq Nat
    /\ {MaxCooldown, MaxTransport, MaxSends, MaxSwitches, MaxTime} \subseteq Nat
    /\ MaxAttempts \in Nat \ {0}

VARIABLES
    now,        \* the monotonic clock
    next,       \* _next_slot of each gate
    blocked,    \* _blocked_until of each gate
    policy,     \* the RetryPolicy of the job: its switch and how often it was turned off
    thread,     \* where each thread stands in send, with its locals
    sent,       \* history: gate and slot of each request that went out
    quiet,      \* history: the end of the longest pause a thread has finished to announce
    budget      \* requests and turns of the switch that may still come

vars == <<now, next, blocked, policy, thread, sent, quiet, budget>>

Gates == {"read", "write", "total"}
Lanes == {"read", "write"}
Interval(g) == CASE g = "read" -> ReadInterval [] g = "write" -> WriteInterval
                 [] g = "total" -> TotalInterval
LanesOf(t) == IF t \in Downloads THEN {"read"} ELSE Lanes
Later(a, b) == IF a > b THEN a ELSE b
Earlier(a, b) == IF a < b THEN a ELSE b

PCs == {"idle", "top", "sleep", "check", "go", "sent", "pen_read", "pen_write",
        "pen_total", "failed", "note", "backoff"}

\* lost: the attempt of urllib3 failed, tries and inner count the attempts; cut: history,
\* the switch was turned off while a retry of this request was waiting.
Idle == [pc |-> "idle", lane |-> "read", slot |-> 0, tries |-> 0, inner |-> 0, lost |-> FALSE,
         delay |-> 0, until |-> 0, gen |-> 0, cut |-> FALSE]

Init ==
    /\ now = 0
    /\ next = [g \in Gates |-> 0]
    /\ blocked = [g \in Gates |-> 0]
    /\ policy = [on |-> TRUE, gen |-> 0]
    /\ thread = [t \in Threads |-> Idle]
    /\ sent = {}
    /\ quiet = 0
    /\ budget = [sends |-> MaxSends, switches |-> MaxSwitches]

At(t, pc) == thread[t].pc = pc
Go(t, pc) == thread' = [thread EXCEPT ![t].pc = pc]
Limiter == <<next, blocked>>
History == <<sent, quiet>>

----------------------------------------------------------------------------
(* RetryPolicy. *)

On(t) == t \in Switched => policy.on

\* Seeded defect: a wait only looks at the switch.
ValidWhileOn(t) == On(t)

\* What wait returns while time is left: neither off, nor turned off since the generation
\* was read.  The first attempt of a request is not bound to the switch.
Valid(t) == On(t) /\ (t \in Switched => policy.gen = thread[t].gen)
Proceeds(t) == thread[t].tries = 0 \/ Valid(t)

Waiting == {"backoff", "top", "sleep", "check", "go"}

TurnOff ==
    /\ budget.switches > 0
    /\ budget' = [budget EXCEPT !.switches = @ - 1]
    /\ policy' = [on |-> FALSE, gen |-> policy.gen + 1]
    /\ thread' = [t \in Threads |->
         IF t \in Switched /\ thread[t].tries > 0 /\ thread[t].pc \in Waiting
         THEN [thread[t] EXCEPT !.cut = TRUE] ELSE thread[t]]
    /\ UNCHANGED <<now, Limiter, History>>

TurnOn ==
    /\ ~policy.on
    /\ policy' = [policy EXCEPT !.on = TRUE]
    /\ UNCHANGED <<now, Limiter, thread, History, budget>>

\* The retry is cancelled: send returns the last answer, or raises the last error.  A
\* sleep and a back-off look at the switch every 0.2 s.
Cancel(t) ==
    /\ thread[t].pc \in {"backoff", "top", "sleep", "go"} /\ ~Proceeds(t)
    /\ thread' = [thread EXCEPT ![t] = Idle]
    /\ UNCHANGED <<now, Limiter, policy, History, budget>>

----------------------------------------------------------------------------
(* SplitRateLimiter.acquire. *)

BeginSend(t) ==
    /\ At(t, "idle")
    /\ budget.sends > 0
    /\ budget' = [budget EXCEPT !.sends = @ - 1]
    /\ \E lane \in LanesOf(t) : thread' = [thread EXCEPT ![t] = [Idle EXCEPT !.pc = "top",
                                                                           !.lane = lane]]
    /\ UNCHANGED <<now, Limiter, policy, History>>

\* Seeded defect: the lane and the process are gated one after the other.
FreeSlotOfLane(l) == Later(now, Later(next[l], Later(blocked[l], blocked["total"])))

FreeSlot(l) == Later(now, Later(Later(next[l], next["total"]),
                                Later(blocked[l], blocked["total"])))

\* A look at the switch, then, under the locks of the lane and of the process, a slot.
Reserve(t) ==
    /\ At(t, "top") /\ Proceeds(t)
    /\ LET lane == thread[t].lane
           slot == FreeSlot(lane)
       IN /\ next' = [next EXCEPT ![lane] = slot + Interval(lane),
                                  !["total"] = slot + TotalInterval]
          /\ thread' = [thread EXCEPT ![t].slot = slot,
                                      ![t].pc = IF slot > now THEN "sleep" ELSE "check"]
    /\ UNCHANGED <<now, blocked, policy, History, budget>>

WakeUp(t) ==
    /\ At(t, "sleep") /\ Proceeds(t)
    /\ now >= thread[t].slot
    /\ Go(t, "check")
    /\ UNCHANGED <<now, Limiter, policy, History, budget>>

\* Seeded defect: the barrier is not looked at again.
RecheckNothing(t) ==
    /\ At(t, "check")
    /\ Go(t, "go")
    /\ UNCHANGED <<now, Limiter, policy, History, budget>>

\* The slot is given up when the barrier is behind it by now.
Recheck(t) ==
    /\ At(t, "check")
    /\ IF Later(blocked[thread[t].lane], blocked["total"]) <= thread[t].slot
       THEN Go(t, "go")
       ELSE thread' = [thread EXCEPT ![t].pc = "top", ![t].slot = 0]
    /\ UNCHANGED <<now, Limiter, policy, History, budget>>

----------------------------------------------------------------------------
(* ThrottledSession.send and the transport retries of urllib3 inside of it. *)

\* The last look at the switch, and the request goes out.
SendOut(t) ==
    /\ At(t, "go") /\ Proceeds(t)
    /\ thread' = [thread EXCEPT ![t].pc = "sent", ![t].slot = 0, ![t].lost = FALSE,
                                ![t].gen = 0, ![t].tries = IF thread[t].lost THEN @ ELSE @ + 1]
    /\ sent' = sent \cup {[lane |-> thread[t].lane, slot |-> thread[t].slot]}
    /\ UNCHANGED <<now, Limiter, policy, quiet, budget>>

\* An answer that is not repeated ends the request.
Answered(t) ==
    /\ At(t, "sent")
    /\ thread' = [thread EXCEPT ![t] = Idle]
    /\ UNCHANGED <<now, Limiter, policy, History, budget>>

\* 5xx concerns this request only, 429 pauses all threads.
Refused(t) ==
    /\ At(t, "sent")
    /\ \E delay \in Delays, all \in BOOLEAN :
          thread' = [thread EXCEPT ![t].pc = IF all THEN "pen_read" ELSE "failed",
                         ![t].delay = IF all THEN Earlier(delay, MaxCooldown) ELSE delay,
                         ![t].until = IF all THEN now + Earlier(delay, MaxCooldown) ELSE 0,
                         ![t].inner = 0]
    /\ UNCHANGED <<now, Limiter, policy, History, budget>>

\* The connection breaks.
Lost(t) ==
    /\ At(t, "sent")
    /\ \E delay \in Delays :
          thread' = [thread EXCEPT ![t].pc = "failed", ![t].lost = TRUE, ![t].delay = delay,
                                   ![t].inner = @ + 1]
    /\ UNCHANGED <<now, Limiter, policy, History, budget>>

\* penalize of one gate: the barrier moves, and the free slots with it.
Penalized(t, g) ==
    /\ LET barrier == Later(blocked[g], now + thread[t].delay)
       IN /\ blocked' = [blocked EXCEPT ![g] = barrier]
          /\ next' = [next EXCEPT ![g] = Later(@, barrier)]
    /\ UNCHANGED <<now, policy, sent, budget>>

PenalizeRead(t) ==
    At(t, "pen_read") /\ Penalized(t, "read") /\ Go(t, "pen_write") /\ UNCHANGED quiet
PenalizeWrite(t) ==
    At(t, "pen_write") /\ Penalized(t, "write") /\ Go(t, "pen_total") /\ UNCHANGED quiet
PenalizeTotal(t) ==
    /\ At(t, "pen_total") /\ Penalized(t, "total")
    /\ thread' = [thread EXCEPT ![t].pc = "failed", ![t].until = 0]
    /\ quiet' = Later(quiet, thread[t].until)

\* A download session repeats nothing: save_local counts the attempts of a whole file.
Attempts(t) == IF t \in Downloads THEN 1 ELSE MaxAttempts
TransportRetries(t) == IF t \in Downloads THEN 0 ELSE MaxTransport

\* Seeded defect: one attempt too many.
ExhaustedLate(t) == IF thread[t].lost THEN thread[t].inner > TransportRetries(t)
                    ELSE thread[t].tries > Attempts(t)

Exhausted(t) == IF thread[t].lost THEN thread[t].inner > TransportRetries(t)
                ELSE thread[t].tries >= Attempts(t)

Settle(t) ==
    /\ At(t, "failed")
    /\ IF On(t) /\ ~Exhausted(t) THEN Go(t, "note") ELSE thread' = [thread EXCEPT ![t] = Idle]
    /\ UNCHANGED <<now, Limiter, policy, History, budget>>

\* cancellation_generation is read after the switch, and the wait begins.
NoteGeneration(t) ==
    /\ At(t, "note")
    /\ thread' = [thread EXCEPT ![t].pc = "backoff", ![t].gen = policy.gen,
                                ![t].until = now + thread[t].delay, ![t].delay = 0]
    /\ UNCHANGED <<now, Limiter, policy, History, budget>>

\* The wait is over: the retry queues for a slot of its own.
Retry(t) ==
    /\ At(t, "backoff") /\ Proceeds(t)
    /\ now >= thread[t].until
    /\ thread' = [thread EXCEPT ![t].pc = "top", ![t].until = 0]
    /\ UNCHANGED <<now, Limiter, policy, History, budget>>

----------------------------------------------------------------------------

SleepsUntil(t) == CASE At(t, "sleep") -> thread[t].slot
                    [] At(t, "backoff") -> thread[t].until
                    [] OTHER -> 0

\* Bounded as long as nobody waits for time to pass.
Tick ==
    /\ now < MaxTime \/ \E t \in Threads : now < SleepsUntil(t)
    /\ now' = now + 1
    /\ UNCHANGED <<Limiter, policy, thread, History, budget>>

Acquire(t) == Reserve(t) \/ WakeUp(t) \/ Recheck(t)
Outcome(t) == Answered(t) \/ Refused(t) \/ Lost(t)
Penalize(t) == PenalizeRead(t) \/ PenalizeWrite(t) \/ PenalizeTotal(t)
Step(t) ==
    \/ Acquire(t) \/ SendOut(t) \/ Outcome(t) \/ Penalize(t)
    \/ Settle(t) \/ NoteGeneration(t) \/ Retry(t) \/ Cancel(t)

Next ==
    \/ Tick \/ TurnOff \/ TurnOn
    \/ \E t \in Threads : BeginSend(t) \/ Step(t)

Spec == Init /\ [][Next]_vars

----------------------------------------------------------------------------
(* Properties. *)

Slots == [lane : Lanes, slot : Nat]
ThreadRows == [pc : PCs, lane : Lanes, slot : Nat, tries : 0..MaxAttempts,
               inner : 0..(MaxTransport + 1), lost : BOOLEAN, delay : Nat, until : Nat,
               gen : Nat, cut : BOOLEAN]

\* The state stays in its domains; a request is tried MaxAttempts times at most.
TypeOK ==
    /\ now \in Nat /\ quiet \in Nat
    /\ next \in [Gates -> Nat] /\ blocked \in [Gates -> Nat]
    /\ policy \in [on : BOOLEAN, gen : Nat]
    /\ thread \in [Threads -> ThreadRows]
    /\ sent \in SUBSET Slots
    /\ budget \in [sends : 0..MaxSends, switches : 0..MaxSwitches]

\* Two slots keep the interval of the process and, in the same lane, that of the lane.
Apart(p, q) ==
    LET distance == IF p.slot > q.slot THEN p.slot - q.slot ELSE q.slot - p.slot
    IN /\ distance >= TotalInterval
       /\ p.lane = q.lane => distance >= Interval(p.lane)

Holds(t) == thread[t].pc \in {"sleep", "check", "go"}
Held(t) == [lane |-> thread[t].lane, slot |-> thread[t].slot]

\* However the threads interleave, and whatever the pauses do to the queue, the slots that
\* are held and those that were used are an interval apart, and no request goes out
\* before its slot: never more requests than the budget of the process and of each lane
\* allows since the start.
Paced ==
    /\ \A p, q \in sent : p # q => Apart(p, q)
    /\ \A t \in Threads : Holds(t) => \A q \in sent : Apart(Held(t), q)
    /\ \A t, u \in Threads : t # u /\ Holds(t) /\ Holds(u) => Apart(Held(t), Held(u))
    /\ \A p \in sent : p.slot <= now

\* Once an answer 429 has been announced to all gates, no thread of either lane is let
\* through with a slot before the end of the pause, not even one that slept already.
CooldownKept == [][\A t \in Threads :
    At(t, "check") /\ thread'[t].pc = "go" => thread[t].slot >= quiet]_vars

\* A retry that was waiting when retries were turned off is never sent, not even when
\* they are turned on again before its wait is over.
CutStaysCut == [][\A t \in Threads :
    thread[t].cut => thread'[t].pc # "sent"]_vars
=============================================================================
