--------------------------- MODULE ThrottleProofs ---------------------------
(***************************************************************************)
(* The properties of Throttle for any number of threads, any intervals and *)
(* any bounds.  Paced needs to know that every slot handed out lies an     *)
(* interval before the next free one (Reserved); CooldownKept that a pause *)
(* is announced no shorter than it was computed (Announced); CutStaysCut   *)
(* that a cancelled retry carries a generation that has passed (CutOff);   *)
(* the attempts are counted by Counted.                                    *)
(***************************************************************************)
EXTENDS Throttle, TLAPS

Repeating == {"top", "sleep", "check", "go", "note", "backoff"}

Counted == \A t \in Threads :
    /\ thread[t].pc \in Repeating /\ ~thread[t].lost => thread[t].tries < MaxAttempts
    /\ thread[t].pc # "failed" \/ ~thread[t].lost => thread[t].inner <= MaxTransport

Below(p) ==
    /\ p.slot + TotalInterval <= next["total"]
    /\ p.slot + Interval(p.lane) <= next[p.lane]

Reserved ==
    /\ \A p \in sent : Below(p)
    /\ \A t \in Threads : Holds(t) => Below(Held(t))
    /\ \A t \in Threads : thread[t].pc \in {"check", "go"} => thread[t].slot <= now

Announced ==
    /\ quiet <= blocked["total"]
    /\ \A t \in Threads : thread[t].pc \in {"pen_read", "pen_write", "pen_total"} =>
                             thread[t].until <= now + thread[t].delay

CutOff == \A t \in Switched :
    /\ thread[t].gen <= policy.gen
    /\ thread[t].cut => /\ thread[t].pc \in Waiting /\ thread[t].tries > 0
                        /\ thread[t].gen < policy.gen

CutOthers == \A t \in Threads \ Switched : ~thread[t].cut

IInv == TypeOK /\ Counted /\ Reserved /\ Paced /\ Announced /\ CutOff /\ CutOthers

----------------------------------------------------------------------------
(* Facts about the constants and the helpers. *)

LEMMA Constants ==
    /\ ReadInterval \in Nat \ {0} /\ WriteInterval \in Nat \ {0}
    /\ TotalInterval \in Nat \ {0} /\ MaxCooldown \in Nat /\ MaxTransport \in Nat
    /\ MaxSends \in Nat /\ MaxSwitches \in Nat /\ MaxAttempts \in Nat \ {0}
    /\ Delays \subseteq Nat /\ Switched \subseteq Threads
BY ThrottleAssumption

LEMMA Intervals ==
    /\ \A g \in Gates : Interval(g) \in Nat \ {0}
    /\ Lanes \subseteq Gates /\ "total" \in Gates
BY Constants DEF Gates, Lanes, Interval

\* What a slot is chosen from.
LEMMA FreeSlotBounds ==
    ASSUME TypeOK, NEW l \in Lanes
    PROVE  /\ FreeSlot(l) \in Nat
           /\ FreeSlot(l) >= now /\ FreeSlot(l) >= next[l] /\ FreeSlot(l) >= next["total"]
BY Intervals DEF TypeOK, FreeSlot, Later

LEMMA Initially == Init => IInv
<1> SUFFICES ASSUME Init PROVE IInv
  OBVIOUS
<1> USE DEF Init
<1>1. Idle \in ThreadRows
  BY Constants DEF Idle, ThreadRows, PCs, Lanes
<1>2. TypeOK
  BY <1>1, Constants DEF TypeOK, Gates, Slots
<1>3. Counted /\ Reserved /\ Paced /\ Announced /\ CutOff /\ CutOthers
  BY Constants, Intervals DEF Counted, Repeating, Reserved, Holds, Paced, Announced, CutOff,
     CutOthers, Idle
<1> QED BY <1>2, <1>3 DEF IInv

----------------------------------------------------------------------------
(* Domains and attempts. *)

LEMMA TypeStep ==
    ASSUME TypeOK, Counted, Next
    PROVE  TypeOK' /\ Counted'
<1> USE Constants, Intervals DEF TypeOK, Counted, Repeating
<1>1. CASE Tick
  BY <1>1 DEF Tick, Limiter, History
<1>2. CASE TurnOff
  <2>1. thread' \in [Threads -> ThreadRows]
    <3> SUFFICES ASSUME NEW t \in Threads PROVE thread'[t] \in ThreadRows
      BY <1>2 DEF TurnOff
    <3>1. [thread[t] EXCEPT !.cut = TRUE] \in ThreadRows
      BY DEF ThreadRows
    <3> QED BY <1>2, <3>1 DEF TurnOff
  <2>2. Counted'
    BY <1>2 DEF TurnOff
  <2> QED BY <1>2, <2>1, <2>2 DEF TurnOff, Limiter, History
<1>3. CASE TurnOn
  BY <1>3 DEF TurnOn, Limiter, History
<1>4. ASSUME NEW t \in Threads, BeginSend(t) \/ Step(t) PROVE TypeOK' /\ Counted'
  <2>0. Idle \in ThreadRows /\ thread[t] \in ThreadRows
    BY DEF Idle, ThreadRows, PCs, Lanes
  <2>1. CASE BeginSend(t)
    <3>1. PICK lane \in Lanes : thread' = [thread EXCEPT ![t] = [Idle EXCEPT !.pc = "top",
                                                                         !.lane = lane]]
      BY <2>1 DEF BeginSend, LanesOf, Lanes
    <3>2. [Idle EXCEPT !.pc = "top", !.lane = lane] \in ThreadRows
      BY <2>0 DEF ThreadRows, PCs
    <3>3. thread' \in [Threads -> ThreadRows]
      BY <3>1, <3>2
    <3>4. Counted'
      <4>1. thread'[t].tries = 0 /\ thread'[t].inner = 0
        BY <3>1 DEF Idle
      <4>2. \A u \in Threads \ {t} : thread'[u] = thread[u]
        BY <3>1
      <4> QED BY <4>1, <4>2
    <3> QED BY <2>1, <3>3, <3>4 DEF BeginSend, Limiter, History
  <2>2. CASE Reserve(t)
    BY <2>0, <2>2, FreeSlotBounds DEF Reserve, At, ThreadRows, PCs, History
  <2>3. CASE WakeUp(t)
    BY <2>0, <2>3 DEF WakeUp, At, Go, ThreadRows, PCs, Limiter, History
  <2>4. CASE Recheck(t)
    BY <2>0, <2>4 DEF Recheck, At, Go, ThreadRows, PCs, Limiter, History
  <2>5. CASE SendOut(t)
    BY <2>0, <2>5 DEF SendOut, At, ThreadRows, PCs, Limiter, Slots
  <2>6. CASE Answered(t) \/ Cancel(t)
    <3>1. thread' = [thread EXCEPT ![t] = Idle]
      BY <2>6 DEF Answered, Cancel
    <3>2. Counted'
      BY <3>1 DEF Idle
    <3> QED BY <2>0, <2>6, <3>1, <3>2 DEF Answered, Cancel, Limiter, History
  <2>7. CASE Refused(t)
    <3>1. PICK delay \in Delays, all \in BOOLEAN :
            thread' = [thread EXCEPT ![t].pc = IF all THEN "pen_read" ELSE "failed",
                         ![t].delay = IF all THEN Earlier(delay, MaxCooldown) ELSE delay,
                         ![t].until = IF all THEN now + Earlier(delay, MaxCooldown) ELSE 0,
                         ![t].inner = 0]
      BY <2>7 DEF Refused
    <3>2. delay \in Nat /\ Earlier(delay, MaxCooldown) \in Nat
      BY DEF Earlier
    <3>3. thread' \in [Threads -> ThreadRows]
      <4> DEFINE pc == IF all THEN "pen_read" ELSE "failed"
                 pause == IF all THEN Earlier(delay, MaxCooldown) ELSE delay
                 until == IF all THEN now + Earlier(delay, MaxCooldown) ELSE 0
      <4>1. pc \in PCs /\ pause \in Nat /\ until \in Nat /\ 0 \in 0..(MaxTransport + 1)
        BY <3>2 DEF PCs
      <4>2. thread' = [thread EXCEPT ![t] = [thread[t] EXCEPT !.pc = pc, !.delay = pause,
                                                              !.until = until, !.inner = 0]]
        BY <3>1
      <4> HIDE DEF pc, pause, until
      <4>3. [thread[t] EXCEPT !.pc = pc, !.delay = pause, !.until = until, !.inner = 0]
              \in ThreadRows
        BY <2>0, <4>1 DEF ThreadRows
      <4> QED BY <4>2, <4>3
    <3>4. Counted'
      <4>1. thread'[t].pc \in {"pen_read", "failed"} /\ thread'[t].inner = 0
        BY <2>0, <3>1 DEF ThreadRows
      <4>2. \A u \in Threads \ {t} : thread'[u] = thread[u]
        BY <3>1
      <4> QED BY <4>1, <4>2
    <3> QED BY <2>7, <3>3, <3>4 DEF Refused, Limiter, History
  <2>8. CASE Lost(t)
    BY <2>0, <2>8 DEF Lost, At, ThreadRows, PCs, Limiter, History
  <2>9. CASE PenalizeRead(t) \/ PenalizeWrite(t)
    BY <2>0, <2>9 DEF PenalizeRead, PenalizeWrite, Penalized, At, Go, ThreadRows, PCs, Gates,
       Later
  <2>10. CASE PenalizeTotal(t)
    <3>1. thread' \in [Threads -> ThreadRows]
      BY <2>0, <2>10 DEF PenalizeTotal, ThreadRows, PCs
    <3>2. thread[t].delay \in Nat /\ thread[t].until \in Nat
      BY DEF ThreadRows
    <3>3. next' \in [Gates -> Nat] /\ blocked' \in [Gates -> Nat] /\ quiet' \in Nat
      BY <2>10, <3>2 DEF PenalizeTotal, Penalized, Gates, Later
    <3>4. Counted'
      BY <2>10 DEF PenalizeTotal, At
    <3> QED BY <2>10, <3>1, <3>3, <3>4 DEF PenalizeTotal, Penalized
  <2>11. CASE Settle(t)
    <3>1. CASE On(t) /\ ~Exhausted(t)
      <4>1. thread' = [thread EXCEPT ![t].pc = "note"]
        BY <2>11, <3>1 DEF Settle, Go
      <4>2. thread' \in [Threads -> ThreadRows]
        BY <2>0, <4>1 DEF ThreadRows, PCs
      <4>3. Counted'
        BY <2>0, <3>1, <4>1 DEF Exhausted, Attempts, TransportRetries, ThreadRows
      <4> QED BY <2>11, <4>2, <4>3 DEF Settle, Limiter, History
    <3>2. CASE ~(On(t) /\ ~Exhausted(t))
      <4>1. thread' = [thread EXCEPT ![t] = Idle]
        BY <2>11, <3>2 DEF Settle
      <4>2. Counted'
        BY <4>1 DEF Idle
      <4> QED BY <2>0, <2>11, <4>1, <4>2 DEF Settle, Limiter, History
    <3> QED BY <3>1, <3>2
  <2>12. CASE NoteGeneration(t)
    <3>1. thread[t].delay \in Nat /\ policy.gen \in Nat
      BY DEF ThreadRows
    <3>2. thread' \in [Threads -> ThreadRows]
      <4> DEFINE gen == policy.gen
                 until == now + thread[t].delay
                 row == [thread[t] EXCEPT !.pc = "backoff", !.gen = gen, !.until = until,
                                          !.delay = 0]
      <4>1. gen \in Nat /\ until \in Nat /\ "backoff" \in PCs
        BY <3>1 DEF PCs
      <4>2. thread' = [thread EXCEPT ![t] = row]
        BY <2>12 DEF NoteGeneration
      <4> HIDE DEF gen, until
      <4>3. row \in ThreadRows
        BY <2>0, <4>1 DEF ThreadRows
      <4> QED BY <4>2, <4>3
    <3>3. Counted'
      <4>1. /\ thread[t].pc = "note"
            /\ thread'[t].tries = thread[t].tries /\ thread'[t].inner = thread[t].inner
            /\ thread'[t].lost = thread[t].lost
        BY <2>0, <2>12 DEF NoteGeneration, At, ThreadRows
      <4>2. \A u \in Threads \ {t} : thread'[u] = thread[u]
        BY <2>12 DEF NoteGeneration
      <4> QED BY <4>1, <4>2
    <3> QED BY <2>12, <3>2, <3>3 DEF NoteGeneration, Limiter, History
  <2>13. CASE Retry(t)
    BY <2>0, <2>13 DEF Retry, At, ThreadRows, PCs, Limiter, History
  <2> QED BY <1>4, <2>1, <2>2, <2>3, <2>4, <2>5, <2>6, <2>7, <2>8, <2>9, <2>10, <2>11, <2>12,
             <2>13 DEF Step, Acquire, Outcome, Penalize
<1> QED BY <1>1, <1>2, <1>3, <1>4 DEF Next
----------------------------------------------------------------------------
(* Slots. *)

\* What only gives slots up, or moves the queue back, keeps them apart.
LEMMA SlotsKept ==
    ASSUME TypeOK, TypeOK', Reserved, Paced, sent' = sent, now' >= now,
           \A u \in Threads : Holds(u)' => Holds(u) /\ Held(u)' = Held(u),
           \A g \in Gates : next'[g] >= next[g],
           \A u \in Threads : thread'[u].pc \in {"check", "go"} => thread'[u].slot <= now'
    PROVE  Reserved' /\ Paced'
<1> USE Intervals
<1>1. \A p \in Slots : Below(p) => Below(p)'
  <2> SUFFICES ASSUME NEW p \in Slots, Below(p) PROVE Below(p)'
    OBVIOUS
  <2>1. /\ p.slot \in Nat /\ p.lane \in Gates
        /\ next'[p.lane] >= next[p.lane] /\ next'["total"] >= next["total"]
    BY DEF Slots, Lanes, Gates
  <2>2. /\ next[p.lane] \in Nat /\ next'[p.lane] \in Nat
        /\ next["total"] \in Nat /\ next'["total"] \in Nat
        /\ Interval(p.lane) \in Nat /\ TotalInterval \in Nat
    BY <2>1, Constants DEF TypeOK, Gates
  <2> QED BY <2>1, <2>2 DEF Below
<1>2. \A u \in Threads : Held(u) \in Slots
  BY DEF TypeOK, ThreadRows, Held, Slots
<1>3. Reserved'
  BY <1>1, <1>2 DEF Reserved, TypeOK
<1>4. Paced'
  <2>1. \A p \in sent' : p.slot <= now'
    BY DEF Paced, TypeOK, Slots
  <2> QED BY <2>1 DEF Paced
<1> QED BY <1>3, <1>4

\* The slot just handed out, against one below the next free slots of before.
LEMMA NewSlotApart ==
    ASSUME TypeOK, NEW l \in Lanes, NEW p \in Slots, Below(p)
    PROVE  /\ Apart([lane |-> l, slot |-> FreeSlot(l)], p)
           /\ Apart(p, [lane |-> l, slot |-> FreeSlot(l)])
<1>1. /\ p.slot \in Nat /\ FreeSlot(l) \in Nat /\ TotalInterval \in Nat \ {0}
      /\ Interval(p.lane) \in Nat /\ next[l] \in Nat /\ next["total"] \in Nat
      /\ FreeSlot(l) >= next[l] /\ FreeSlot(l) >= next["total"]
  BY FreeSlotBounds, Intervals, Constants DEF Slots, TypeOK
<1>2. FreeSlot(l) - p.slot >= TotalInterval
  BY <1>1 DEF Below
<1>3. p.lane = l => FreeSlot(l) - p.slot >= Interval(p.lane)
  BY <1>1 DEF Below
<1> QED BY <1>1, <1>2, <1>3 DEF Apart
LEMMA ReserveApart ==
    ASSUME TypeOK, TypeOK', Reserved, Paced, NEW t \in Threads, Reserve(t)
    PROVE  Reserved' /\ Paced'
<1>a. PICK l \in Lanes : l = thread[t].lane
  BY DEF TypeOK, ThreadRows
<1>b. PICK new \in Slots : new = [lane |-> l, slot |-> FreeSlot(l)]
  BY FreeSlotBounds DEF Slots
<1>0. l \in Lanes /\ thread[t] \in ThreadRows
  BY DEF TypeOK, ThreadRows
<1>1. /\ next' = [next EXCEPT ![l] = FreeSlot(l) + Interval(l),
                              !["total"] = FreeSlot(l) + TotalInterval]
      /\ thread' = [thread EXCEPT ![t].slot = FreeSlot(l),
                                  ![t].pc = IF FreeSlot(l) > now THEN "sleep" ELSE "check"]
      /\ sent' = sent /\ now' = now
  BY <1>a DEF Reserve, History
<1>2. /\ thread'[t].slot = FreeSlot(l) /\ thread'[t].lane = l
      /\ thread'[t].pc = IF FreeSlot(l) > now THEN "sleep" ELSE "check"
      /\ \A u \in Threads \ {t} : thread'[u] = thread[u]
  BY <1>0, <1>1, <1>a DEF TypeOK, ThreadRows
<1>3. /\ Held(t)' = new
      /\ \A u \in Threads \ {t} : Holds(u)' = Holds(u) /\ Held(u)' = Held(u)
  BY <1>2, <1>b DEF Held, Holds
<1>4. /\ FreeSlot(l) \in Nat /\ FreeSlot(l) >= next[l] /\ FreeSlot(l) >= next["total"]
      /\ next[l] \in Nat /\ next["total"] \in Nat
      /\ Interval(l) \in Nat /\ TotalInterval \in Nat
      /\ next'["total"] = FreeSlot(l) + TotalInterval
      /\ next'[l] = FreeSlot(l) + Interval(l)
      /\ \A g \in Gates \ {l, "total"} : next'[g] = next[g]
  BY <1>0, <1>1, FreeSlotBounds, Intervals, Constants DEF TypeOK, Lanes, Gates
<1>5. Below(new)'
  BY <1>4, <1>b DEF Below
<1>6. \A p \in Slots : Below(p) => Below(p)'
  <2> SUFFICES ASSUME NEW p \in Slots, Below(p) PROVE Below(p)'
    OBVIOUS
  <2>1. /\ p.slot \in Nat /\ p.lane \in Gates /\ next[p.lane] \in Nat
        /\ Interval(p.lane) \in Nat
    BY Intervals DEF Slots, TypeOK
  <2>2. next'["total"] >= next["total"] /\ next'[p.lane] >= next[p.lane]
    BY <1>4, <2>1
  <2>3. next'["total"] \in Nat /\ next'[p.lane] \in Nat
    BY <2>1, Intervals DEF TypeOK
  <2> QED BY <1>4, <2>1, <2>2, <2>3 DEF Below
<1>7. sent \subseteq Slots /\ \A u \in Threads : Held(u) \in Slots
  BY DEF TypeOK, ThreadRows, Held, Slots
<1>8. Reserved'
  <2>1. \A u \in Threads : Holds(u)' => Below(Held(u))'
    <3> SUFFICES ASSUME NEW u \in Threads, Holds(u)' PROVE Below(Held(u))'
      OBVIOUS
    <3>1. CASE u = t
      BY <1>3, <1>5, <3>1 DEF Below
    <3>2. CASE u # t
      <4>1. PICK p \in Slots : p = Held(u)
        BY <1>7
      <4>2. Below(p)'
        BY <1>3, <1>6, <3>2, <4>1 DEF Reserved
      <4> QED BY <1>3, <3>2, <4>1, <4>2 DEF Below
    <3> QED BY <3>1, <3>2
  <2>2. \A u \in Threads : thread'[u].pc \in {"check", "go"} => thread'[u].slot <= now
    BY <1>2, <1>4 DEF Reserved, TypeOK
  <2> QED BY <1>1, <1>6, <1>7, <2>1, <2>2 DEF Reserved
<1>9. Paced'
  <2>1. \A q \in sent : Apart(new, q)
    BY <1>b, <1>7, NewSlotApart DEF Reserved
  <2>2. \A u \in Threads \ {t} : Holds(u) => Apart(new, Held(u)) /\ Apart(Held(u), new)
    BY <1>b, <1>7, NewSlotApart DEF Reserved
  <2>3. \A u \in Threads : Holds(u)' => \A q \in sent : Apart(Held(u)', q)
    BY <1>3, <2>1 DEF Paced
  <2>4. \A u, v \in Threads : u # v /\ Holds(u)' /\ Holds(v)' => Apart(Held(u)', Held(v)')
    BY <1>3, <2>2 DEF Paced
  <2> QED BY <1>1, <2>3, <2>4 DEF Paced
<1> QED BY <1>8, <1>9

LEMMA SendOutApart ==
    ASSUME TypeOK, TypeOK', Reserved, Paced, NEW t \in Threads, SendOut(t)
    PROVE  Reserved' /\ Paced'
<1>1. Holds(t) /\ thread[t].pc = "go"
  BY DEF SendOut, At, Holds
<1>2. /\ sent' = sent \cup {Held(t)} /\ now' = now /\ next' = next
      /\ \A u \in Threads \ {t} : thread'[u] = thread[u]
      /\ thread'[t].pc = "sent"
  BY DEF SendOut, Held, Limiter, TypeOK, ThreadRows
<1>3. /\ ~Holds(t)'
      /\ \A u \in Threads \ {t} : Holds(u)' = Holds(u) /\ Held(u)' = Held(u)
  BY <1>2 DEF Holds, Held
<1>4. \A p : Below(p)' = Below(p)
  BY <1>2 DEF Below
<1>5. Reserved'
  BY <1>1, <1>2, <1>3, <1>4 DEF Reserved
<1>6. Held(t).slot <= now
  BY <1>1 DEF Reserved, Held
<1>7. sent \subseteq Slots /\ \A u \in Threads : Held(u) \in Slots
  BY DEF TypeOK, ThreadRows, Held, Slots
<1>8. \A p, q \in Slots : Apart(p, q) => Apart(q, p)
  <2> SUFFICES ASSUME NEW p \in Slots, NEW q \in Slots, Apart(p, q) PROVE Apart(q, p)
    OBVIOUS
  <2>1. p.slot \in Nat /\ q.slot \in Nat
    BY DEF Slots
  <2> QED BY <2>1 DEF Apart
<1>9. Paced'
  <2>1. \A p, q \in sent' : p # q => Apart(p, q)
    BY <1>1, <1>2, <1>7, <1>8 DEF Paced
  <2>2. \A u \in Threads : Holds(u)' => \A q \in sent' : Apart(Held(u)', q)
    BY <1>1, <1>2, <1>3 DEF Paced
  <2>3. \A u, v \in Threads : u # v /\ Holds(u)' /\ Holds(v)' => Apart(Held(u)', Held(v)')
    BY <1>3 DEF Paced
  <2>4. \A p \in sent' : p.slot <= now'
    BY <1>2, <1>6 DEF Paced
  <2> QED BY <2>1, <2>2, <2>3, <2>4 DEF Paced
<1> QED BY <1>5, <1>9

LEMMA PacedStep ==
    ASSUME TypeOK, TypeOK', Reserved, Paced, Next
    PROVE  Reserved' /\ Paced'
<1> USE DEF TypeOK
<1>1. CASE Tick
  <2>1. now' >= now /\ UNCHANGED <<next, thread, sent>>
    BY <1>1 DEF Tick, Limiter, History
  <2>2. \A u \in Threads : thread[u].slot \in Nat
    BY DEF ThreadRows
  <2> QED BY <2>1, <2>2, SlotsKept DEF Holds, Held, Reserved
<1>2. CASE TurnOff
  <2>1. UNCHANGED <<now, next, sent>>
    BY <1>2 DEF TurnOff, Limiter, History
  <2>2. \A u \in Threads : /\ thread'[u].pc = thread[u].pc /\ thread'[u].slot = thread[u].slot
                           /\ thread'[u].lane = thread[u].lane
    BY <1>2 DEF TurnOff, ThreadRows
  <2> QED BY <2>1, <2>2, SlotsKept DEF Holds, Held, Reserved
<1>3. CASE TurnOn
  <2>1. UNCHANGED <<now, next, thread, sent>>
    BY <1>3 DEF TurnOn, Limiter, History
  <2> QED BY <2>1, SlotsKept DEF Holds, Held, Reserved
<1>4. ASSUME NEW t \in Threads, BeginSend(t) \/ Step(t) PROVE Reserved' /\ Paced'
  <2>0. thread[t] \in ThreadRows
    OBVIOUS
  <2> DEFINE Rest == \A u \in Threads \ {t} : thread'[u] = thread[u]
             Free == thread'[t].pc \notin {"sleep", "check", "go"}
  <2>1. ASSUME Rest, Free, sent' = sent, now' = now, \A g \in Gates : next'[g] >= next[g]
        PROVE  Reserved' /\ Paced'
    <3>1. \A u \in Threads : Holds(u)' => Holds(u) /\ Held(u)' = Held(u)
      BY <2>1 DEF Holds, Held
    <3>2. \A u \in Threads : thread'[u].pc \in {"check", "go"} => thread'[u].slot <= now'
      BY <2>1 DEF Reserved
    <3> QED BY <2>1, <3>1, <3>2, SlotsKept
  <2>2. CASE BeginSend(t) \/ Cancel(t) \/ Answered(t)
    <3>1. Rest /\ sent' = sent /\ now' = now /\ next' = next
      BY <2>2 DEF BeginSend, Cancel, Answered, Limiter, History
    <3>2. thread'[t].pc \in {"idle", "top"}
      <4>1. CASE BeginSend(t)
        <5>1. PICK lane : thread' = [thread EXCEPT ![t] = [Idle EXCEPT !.pc = "top",
                                                                       !.lane = lane]]
          BY <4>1 DEF BeginSend
        <5> QED BY <5>1 DEF Idle
      <4>2. CASE Cancel(t) \/ Answered(t)
        BY <4>2 DEF Cancel, Answered, Idle
      <4> QED BY <2>2, <4>1, <4>2
    <3> QED BY <2>1, <3>1, <3>2
  <2>3. CASE Reserve(t)
    BY <2>3, ReserveApart
  <2>4. CASE WakeUp(t) \/ Recheck(t)
    <3>1. Rest /\ sent' = sent /\ now' = now /\ next' = next
      BY <2>4 DEF WakeUp, Recheck, Go, Limiter, History
    <3>2. CASE thread'[t].pc = "top"
      BY <2>1, <3>1, <3>2
    <3>3. CASE thread'[t].pc # "top"
      <4>1. /\ thread'[t].slot = thread[t].slot /\ thread'[t].lane = thread[t].lane
            /\ Holds(t) /\ thread[t].slot <= now
        BY <2>0, <2>4, <3>3 DEF WakeUp, Recheck, At, Go, Holds, Reserved, ThreadRows
      <4> QED BY <3>1, <4>1, SlotsKept DEF Holds, Held, Reserved
    <3> QED BY <3>2, <3>3
  <2>5. CASE SendOut(t)
    BY <2>5, SendOutApart
  <2>6. CASE Refused(t) \/ Lost(t) \/ Settle(t) \/ NoteGeneration(t) \/ Retry(t)
    <3>1. Rest /\ sent' = sent /\ now' = now /\ next' = next
      BY <2>6 DEF Refused, Lost, Settle, NoteGeneration, Retry, Go, Limiter, History
    <3>2. thread'[t].pc \in {"pen_read", "failed", "note", "idle", "backoff", "top"}
      <4>1. CASE Refused(t)
        <5>1. PICK delay, all :
                thread' = [thread EXCEPT ![t].pc = IF all THEN "pen_read" ELSE "failed",
                         ![t].delay = IF all THEN Earlier(delay, MaxCooldown) ELSE delay,
                         ![t].until = IF all THEN now + Earlier(delay, MaxCooldown) ELSE 0,
                         ![t].inner = 0]
          BY <4>1 DEF Refused
        <5>2. thread'[t].pc = IF all THEN "pen_read" ELSE "failed"
          BY <2>0, <5>1 DEF ThreadRows
        <5> QED BY <5>2
      <4>2. CASE Lost(t) \/ Retry(t)
        <5>1. CASE Lost(t)
          <6>1. PICK delay : thread' = [thread EXCEPT ![t].pc = "failed", ![t].lost = TRUE,
                                          ![t].delay = delay, ![t].inner = @ + 1]
            BY <5>1 DEF Lost
          <6> QED BY <2>0, <6>1 DEF ThreadRows
        <5>2. CASE Retry(t)
          BY <2>0, <5>2 DEF Retry, ThreadRows
        <5> QED BY <4>2, <5>1, <5>2
      <4>3. CASE Settle(t) \/ NoteGeneration(t)
        BY <2>0, <4>3 DEF Settle, NoteGeneration, Go, Idle, ThreadRows
      <4> QED BY <2>6, <4>1, <4>2, <4>3
    <3> QED BY <2>1, <3>1, <3>2
  <2>7. CASE Penalize(t)
    <3>1. Rest /\ sent' = sent /\ now' = now
      BY <2>7 DEF Penalize, PenalizeRead, PenalizeWrite, PenalizeTotal, Penalized, Go
    <3>2. thread'[t].pc \in {"pen_write", "pen_total", "failed"}
      BY <2>0, <2>7 DEF Penalize, PenalizeRead, PenalizeWrite, PenalizeTotal, Go, ThreadRows
    <3>3. ASSUME NEW g \in Gates, Penalized(t, g) PROVE \A h \in Gates : next'[h] >= next[h]
      <4>1. PICK b : next' = [next EXCEPT ![g] = Later(@, b)]
        BY <3>3 DEF Penalized
      <4> QED BY <4>1 DEF Later
    <3>4. \A h \in Gates : next'[h] >= next[h]
      BY <2>7, <3>3 DEF Penalize, PenalizeRead, PenalizeWrite, PenalizeTotal, Gates
    <3> QED BY <2>1, <3>1, <3>2, <3>4
  <2> QED BY <1>4, <2>2, <2>3, <2>4, <2>5, <2>6, <2>7 DEF Step, Acquire, Outcome
<1> QED BY <1>1, <1>2, <1>3, <1>4 DEF Next
----------------------------------------------------------------------------
(* Pauses. *)

LEMMA AnnouncedStep ==
    ASSUME TypeOK, TypeOK', Announced, Next
    PROVE  Announced'
<1> DEFINE Pens == {"pen_read", "pen_write", "pen_total"}
<1> USE DEF Announced
<1>0. \A u \in Threads : thread[u] \in ThreadRows /\ thread'[u] \in ThreadRows
  BY DEF TypeOK
<1>1. CASE Tick \/ TurnOn
  <2>1. now' >= now /\ UNCHANGED <<blocked, thread, quiet>> /\ now \in Nat /\ now' \in Nat
    BY <1>1 DEF Tick, TurnOn, Limiter, History, TypeOK
  <2>2. \A u \in Threads : thread[u].until \in Nat /\ thread[u].delay \in Nat
    BY <1>0 DEF ThreadRows
  <2> QED BY <2>1, <2>2
<1>2. CASE TurnOff
  <2>1. UNCHANGED <<now, blocked, quiet>>
    BY <1>2 DEF TurnOff, Limiter, History
  <2>2. \A u \in Threads : /\ thread'[u].pc = thread[u].pc /\ thread'[u].until = thread[u].until
                           /\ thread'[u].delay = thread[u].delay
    BY <1>0, <1>2 DEF TurnOff, ThreadRows
  <2> QED BY <2>1, <2>2
<1>3. ASSUME NEW t \in Threads, BeginSend(t) \/ Step(t) PROVE Announced'
  <2> DEFINE Rest == \A u \in Threads \ {t} : thread'[u] = thread[u]
  <2>0. thread \in [Threads -> ThreadRows] /\ thread[t] \in ThreadRows
    BY DEF TypeOK
  <2>1. ASSUME Rest, thread'[t].pc \notin Pens, UNCHANGED <<now, blocked, quiet>>
        PROVE  Announced'
    BY <2>1
  <2>2. CASE BeginSend(t) \/ Cancel(t) \/ Answered(t)
    <3>1. Rest /\ UNCHANGED <<now, blocked, quiet>>
      BY <2>0, <2>2 DEF BeginSend, Cancel, Answered, Limiter, History
    <3>2. thread'[t].pc \notin Pens
      <4>1. CASE BeginSend(t)
        <5>1. PICK lane : thread' = [thread EXCEPT ![t] = [Idle EXCEPT !.pc = "top",
                                                                       !.lane = lane]]
          BY <4>1 DEF BeginSend
        <5> QED BY <2>0, <5>1 DEF Idle
      <4>2. CASE Cancel(t) \/ Answered(t)
        BY <2>0, <4>2 DEF Cancel, Answered, Idle
      <4> QED BY <2>2, <4>1, <4>2
    <3> QED BY <2>1, <3>1, <3>2
  <2>3. CASE Acquire(t) \/ SendOut(t)
    <3>1. Rest /\ UNCHANGED <<now, blocked, quiet>>
      BY <2>0, <2>3 DEF Acquire, Reserve, WakeUp, Recheck, SendOut, Go, Limiter, History
    <3>2. thread'[t].pc \notin Pens
      BY <2>0, <2>3 DEF Acquire, Reserve, WakeUp, Recheck, SendOut, Go, ThreadRows
    <3> QED BY <2>1, <3>1, <3>2
  <2>4. CASE Refused(t)
    <3>1. PICK delay \in Delays, all \in BOOLEAN :
            thread' = [thread EXCEPT ![t].pc = IF all THEN "pen_read" ELSE "failed",
                         ![t].delay = IF all THEN Earlier(delay, MaxCooldown) ELSE delay,
                         ![t].until = IF all THEN now + Earlier(delay, MaxCooldown) ELSE 0,
                         ![t].inner = 0]
      BY <2>4 DEF Refused
    <3>2. Earlier(delay, MaxCooldown) \in Nat /\ now \in Nat
      BY Constants DEF Earlier, TypeOK
    <3>3. CASE all
      <4>1. /\ thread'[t].until = now + Earlier(delay, MaxCooldown)
            /\ thread'[t].delay = Earlier(delay, MaxCooldown)
        BY <2>0, <3>1, <3>3 DEF ThreadRows
      <4> QED BY <2>0, <2>4, <3>1, <3>2, <4>1 DEF Refused, Limiter, History
    <3>4. CASE ~all
      <4>1. thread'[t].pc = "failed"
        BY <2>0, <3>1, <3>4 DEF ThreadRows
      <4> QED BY <2>0, <2>1, <2>4, <3>1, <4>1 DEF Refused, Limiter, History
    <3> QED BY <3>3, <3>4
  <2>5. CASE Lost(t) \/ Settle(t) \/ NoteGeneration(t) \/ Retry(t)
    <3>1. Rest /\ UNCHANGED <<now, blocked, quiet>>
      BY <2>0, <2>5 DEF Lost, Settle, NoteGeneration, Retry, Go, Limiter, History
    <3>2. thread'[t].pc \notin Pens
      <4>1. CASE Lost(t)
        <5>1. PICK delay : thread' = [thread EXCEPT ![t].pc = "failed", ![t].lost = TRUE,
                                          ![t].delay = delay, ![t].inner = @ + 1]
          BY <4>1 DEF Lost
        <5> QED BY <2>0, <5>1 DEF ThreadRows
      <4>2. CASE Settle(t) \/ NoteGeneration(t) \/ Retry(t)
        BY <2>0, <4>2 DEF Settle, NoteGeneration, Retry, Go, Idle, ThreadRows
      <4> QED BY <2>5, <4>1, <4>2
    <3> QED BY <2>1, <3>1, <3>2
  <2>6. CASE PenalizeRead(t) \/ PenalizeWrite(t)
    <3>1. /\ Rest /\ UNCHANGED <<now, quiet>> /\ blocked'["total"] = blocked["total"]
          /\ thread[t].pc \in Pens /\ thread'[t].until = thread[t].until
          /\ thread'[t].delay = thread[t].delay
      BY <2>0, <2>6 DEF PenalizeRead, PenalizeWrite, Penalized, At, Go, ThreadRows, TypeOK, Gates
    <3> QED BY <3>1
  <2>7. CASE PenalizeTotal(t)
    <3>1. /\ Rest /\ now' = now /\ quiet' = Later(quiet, thread[t].until)
          /\ blocked'["total"] = Later(blocked["total"], now + thread[t].delay)
          /\ thread[t].until <= now + thread[t].delay /\ thread'[t].pc = "failed"
      BY <2>0, <2>7 DEF PenalizeTotal, Penalized, At, ThreadRows, TypeOK, Gates
    <3>2. /\ now \in Nat /\ quiet \in Nat /\ blocked["total"] \in Nat
          /\ thread[t].until \in Nat /\ thread[t].delay \in Nat
      BY <2>0 DEF TypeOK, ThreadRows, Gates
    <3>3. quiet' <= blocked'["total"]
      BY <3>1, <3>2 DEF Later
    <3> QED BY <3>1, <3>3
  <2> QED BY <1>3, <2>2, <2>3, <2>4, <2>5, <2>6, <2>7 DEF Step, Outcome, Penalize
<1> QED BY <1>1, <1>2, <1>3 DEF Next

----------------------------------------------------------------------------
(* Cancelled retries. *)

LEMMA CutStep ==
    ASSUME TypeOK, TypeOK', CutOff, CutOthers, Next
    PROVE  CutOff' /\ CutOthers'
<1> USE Constants DEF CutOff, CutOthers
<1>0. /\ thread \in [Threads -> ThreadRows] /\ policy.gen \in Nat
      /\ \A u \in Threads : thread[u].gen \in Nat /\ thread[u].tries \in Nat
  BY DEF TypeOK, ThreadRows
<1>1. CASE Tick \/ TurnOn
  <2>1. thread' = thread /\ policy'.gen = policy.gen
    BY <1>1 DEF Tick, TurnOn, TypeOK
  <2> QED BY <2>1
<1>2. CASE TurnOff
  <2>1. /\ policy'.gen = policy.gen + 1
        /\ \A u \in Threads :
              /\ thread'[u].pc = thread[u].pc /\ thread'[u].tries = thread[u].tries
              /\ thread'[u].gen = thread[u].gen
              /\ thread'[u].cut => \/ thread[u].cut
                                   \/ /\ u \in Switched /\ thread[u].tries > 0
                                      /\ thread[u].pc \in Waiting
    BY <1>0, <1>2 DEF TurnOff, ThreadRows
  <2>2. CutOff'
    <3> SUFFICES ASSUME NEW u \in Switched
                 PROVE  /\ thread'[u].gen <= policy'.gen
                        /\ thread'[u].cut => /\ thread'[u].pc \in Waiting /\ thread'[u].tries > 0
                                             /\ thread'[u].gen < policy'.gen
      OBVIOUS
    <3>1. thread[u].gen <= policy.gen /\ thread[u].gen \in Nat
      BY <1>0
    <3>2. thread'[u].gen < policy'.gen
      BY <1>0, <2>1, <3>1
    <3>3. thread'[u].cut => thread'[u].pc \in Waiting /\ thread'[u].tries > 0
      BY <2>1
    <3> QED BY <1>0, <2>1, <3>1, <3>2, <3>3
  <2>3. CutOthers'
    BY <2>1
  <2> QED BY <2>2, <2>3
<1>3. ASSUME NEW t \in Threads, BeginSend(t) \/ Step(t) PROVE CutOff' /\ CutOthers'
  <2> DEFINE Rest == \A u \in Threads \ {t} : thread'[u] = thread[u]
  <2>1. Rest /\ policy' = policy
    BY <1>0, <1>3 DEF BeginSend, Step, Acquire, Reserve, WakeUp, Recheck, SendOut, Outcome,
       Answered, Refused, Lost, Penalize, PenalizeRead, PenalizeWrite, PenalizeTotal, Penalized,
       Settle, NoteGeneration, Retry, Cancel, Go
  <2>2. ASSUME thread'[t].gen \in {0, thread[t].gen, policy.gen},
               thread'[t].cut => thread[t].cut,
               thread'[t].cut => /\ thread'[t].pc \in Waiting /\ thread'[t].gen = thread[t].gen
                                 /\ thread'[t].tries = thread[t].tries
        PROVE  CutOff' /\ CutOthers'
    BY <1>0, <2>1, <2>2
  <2>3. thread[t].cut => thread[t].tries > 0 /\ thread[t].pc \in Waiting /\ ~Proceeds(t)
    BY <1>0 DEF Proceeds, Valid, On
  <2>4. CASE BeginSend(t) \/ Cancel(t) \/ Answered(t)
    <3>1. CASE BeginSend(t)
      <4>1. PICK lane : thread' = [thread EXCEPT ![t] = [Idle EXCEPT !.pc = "top",
                                                                     !.lane = lane]]
        BY <3>1 DEF BeginSend
      <4>2. thread'[t].gen = 0 /\ ~thread'[t].cut
        BY <1>0, <4>1 DEF Idle
      <4> QED BY <2>2, <4>2
    <3>2. CASE Cancel(t) \/ Answered(t)
      <4>1. thread'[t].gen = 0 /\ ~thread'[t].cut
        BY <1>0, <3>2 DEF Cancel, Answered, Idle
      <4> QED BY <2>2, <4>1
    <3> QED BY <2>4, <3>1, <3>2
  <2>5. CASE Reserve(t) \/ WakeUp(t) \/ Retry(t)
    <3>1. ~thread[t].cut
      BY <2>3, <2>5 DEF Reserve, WakeUp, Retry
    <3>2. thread'[t].gen = thread[t].gen /\ thread'[t].cut = thread[t].cut
      BY <1>0, <2>5 DEF Reserve, WakeUp, Retry, Go, ThreadRows
    <3> QED BY <2>2, <3>1, <3>2
  <2>6. CASE Recheck(t)
    <3>1. /\ thread'[t].gen = thread[t].gen /\ thread'[t].cut = thread[t].cut
          /\ thread'[t].tries = thread[t].tries /\ thread'[t].pc \in {"go", "top"}
      BY <1>0, <2>6 DEF Recheck, Go, ThreadRows
    <3> QED BY <2>2, <3>1 DEF Waiting
  <2>7. CASE SendOut(t)
    <3>1. ~thread[t].cut
      BY <2>3, <2>7 DEF SendOut
    <3>2. thread'[t].gen = 0 /\ thread'[t].cut = thread[t].cut
      BY <1>0, <2>7 DEF SendOut, ThreadRows
    <3> QED BY <2>2, <3>1, <3>2
  <2>8. CASE Refused(t) \/ Lost(t) \/ Penalize(t) \/ Settle(t)
    <3>1. ~thread[t].cut
      BY <2>3, <2>8 DEF Refused, Lost, Penalize, PenalizeRead, PenalizeWrite, PenalizeTotal,
         Settle, At, Waiting
    <3>2. thread'[t].gen \in {0, thread[t].gen} /\ (thread'[t].cut => thread[t].cut)
      <4>1. CASE Refused(t)
        <5>1. PICK delay, all :
                thread' = [thread EXCEPT ![t].pc = IF all THEN "pen_read" ELSE "failed",
                         ![t].delay = IF all THEN Earlier(delay, MaxCooldown) ELSE delay,
                         ![t].until = IF all THEN now + Earlier(delay, MaxCooldown) ELSE 0,
                         ![t].inner = 0]
          BY <4>1 DEF Refused
        <5> QED BY <1>0, <5>1 DEF ThreadRows
      <4>2. CASE Lost(t)
        <5>1. PICK delay : thread' = [thread EXCEPT ![t].pc = "failed", ![t].lost = TRUE,
                                          ![t].delay = delay, ![t].inner = @ + 1]
          BY <4>2 DEF Lost
        <5>2. thread'[t].gen = thread[t].gen /\ thread'[t].cut = thread[t].cut
          BY <1>0, <5>1 DEF ThreadRows
        <5> QED BY <5>2
      <4>3. CASE Penalize(t)
        BY <1>0, <4>3 DEF Penalize, PenalizeRead, PenalizeWrite, PenalizeTotal, Go, ThreadRows
      <4>4. CASE Settle(t)
        BY <1>0, <4>4 DEF Settle, Go, ThreadRows, Idle
      <4> QED BY <2>8, <4>1, <4>2, <4>3, <4>4
    <3> QED BY <2>2, <3>1, <3>2
  <2>9. CASE NoteGeneration(t)
    <3>1. ~thread[t].cut
      BY <2>3, <2>9 DEF NoteGeneration, At, Waiting
    <3>2. thread'[t].gen = policy.gen /\ thread'[t].cut = thread[t].cut
      BY <1>0, <2>9 DEF NoteGeneration, ThreadRows
    <3> QED BY <2>2, <3>1, <3>2
  <2> QED BY <1>3, <2>4, <2>5, <2>6, <2>7, <2>8, <2>9 DEF Step, Acquire, Outcome
<1> QED BY <1>1, <1>2, <1>3 DEF Next
----------------------------------------------------------------------------
(* The theorems. *)

LEMMA InvStep == IInv /\ [Next]_vars => IInv'
<1> SUFFICES ASSUME IInv, [Next]_vars PROVE IInv'
  OBVIOUS
<1>1. CASE Next
  <2>1. TypeOK' /\ Counted'
    BY <1>1, TypeStep DEF IInv
  <2>2. Reserved' /\ Paced'
    BY <1>1, <2>1, PacedStep DEF IInv
  <2>3. Announced'
    BY <1>1, <2>1, AnnouncedStep DEF IInv
  <2>4. CutOff' /\ CutOthers'
    BY <1>1, <2>1, CutStep DEF IInv
  <2> QED BY <2>1, <2>2, <2>3, <2>4 DEF IInv
<1>2. CASE UNCHANGED vars
  BY <1>2 DEF vars, IInv, TypeOK, Counted, Reserved, Below, Holds, Held, Paced, Announced,
     CutOff, CutOthers
<1> QED BY <1>1, <1>2

LEMMA Invariant == Spec => []IInv
BY Initially, InvStep, PTL DEF Spec

\* The limiter and its threads stay in their domains, and no request is tried more often
\* than MaxAttempts.
THEOREM ThrottleTypeCorrect == Spec => []TypeOK
<1>1. IInv => TypeOK
  BY DEF IInv
<1> QED BY <1>1, Invariant, PTL

\* For any number of threads and any pauses: the slots of the requests keep the interval of
\* the process and that of their lane, and no request goes out before its slot.
THEOREM RequestsPaced == Spec => []Paced
<1>1. IInv => Paced
  BY DEF IInv
<1> QED BY <1>1, Invariant, PTL

\* What a thread is let through with is never a slot from before the end of a pause that
\* has been announced to all gates.
THEOREM CooldownHolds == Spec => CooldownKept
<1>1. ASSUME IInv, [Next]_vars, NEW t \in Threads, At(t, "check"), thread'[t].pc = "go"
      PROVE  thread[t].slot >= quiet
  <2>1. Recheck(t)
    <3>0. thread \in [Threads -> ThreadRows]
      BY <1>1 DEF IInv, TypeOK
    <3>1. thread' # thread
      BY <1>1 DEF At
    <3>2. \E u \in Threads : BeginSend(u) \/ Step(u)
      <4>1. CASE TurnOff
        BY <1>1, <3>0, <4>1 DEF TurnOff, At, ThreadRows
      <4> QED BY <1>1, <3>1, <4>1 DEF Next, Tick, TurnOn, vars
    <3>3. PICK u \in Threads : BeginSend(u) \/ Step(u)
      BY <3>2
    <3>4. u = t
      BY <1>1, <3>0, <3>3 DEF At, BeginSend, Step, Acquire, Reserve, WakeUp, Recheck, SendOut,
         Outcome, Answered, Refused, Lost, Penalize, PenalizeRead, PenalizeWrite,
         PenalizeTotal, Settle, NoteGeneration, Retry, Cancel, Go
    <3> QED BY <1>1, <3>3, <3>4 DEF At, BeginSend, Step, Acquire, Reserve, WakeUp, SendOut,
         Outcome, Answered, Refused, Lost, Penalize, PenalizeRead, PenalizeWrite,
         PenalizeTotal, Settle, NoteGeneration, Retry, Cancel
  <2>2. /\ thread[t].lane \in Gates /\ blocked[thread[t].lane] \in Nat
        /\ blocked["total"] \in Nat /\ quiet \in Nat /\ thread[t].slot \in Nat
        /\ thread \in [Threads -> ThreadRows]
    BY <1>1, Intervals DEF IInv, TypeOK, ThreadRows
  <2>3. Later(blocked[thread[t].lane], blocked["total"]) <= thread[t].slot
    BY <1>1, <2>1, <2>2 DEF Recheck, ThreadRows
  <2> QED BY <1>1, <2>2, <2>3 DEF Later, IInv, Announced
<1>2. IInv /\ [Next]_vars => [\A t \in Threads :
         At(t, "check") /\ thread'[t].pc = "go" => thread[t].slot >= quiet]_vars
  BY <1>1
<1> QED BY <1>2, Invariant, PTL DEF Spec, CooldownKept

\* A retry that was waiting when retries were turned off is not sent, whatever is turned on
\* or off before its wait is over.
THEOREM CancelledNotSent == Spec => CutStaysCut
<1>1. ASSUME IInv, [Next]_vars, NEW t \in Threads, thread[t].cut
      PROVE  thread'[t].pc # "sent"
  <2>1. t \in Switched /\ thread[t].pc # "sent" /\ ~Proceeds(t)
    <3>1. t \in Switched
      BY <1>1 DEF IInv, CutOthers
    <3>2. /\ thread[t].pc \in Waiting /\ thread[t].tries > 0 /\ thread[t].gen < policy.gen
          /\ thread[t].gen \in Nat /\ policy.gen \in Nat /\ thread[t].tries \in Nat
      BY <1>1, <3>1 DEF IInv, CutOff, TypeOK, ThreadRows
    <3> QED BY <3>1, <3>2 DEF Waiting, Proceeds, Valid
  <2>2. CASE UNCHANGED thread
    BY <2>1, <2>2
  <2>3. CASE TurnOff
    BY <1>1, <2>1, <2>3 DEF TurnOff, IInv, TypeOK, ThreadRows
  <2>4. CASE \E u \in Threads : BeginSend(u) \/ Step(u)
    <3>0. thread \in [Threads -> ThreadRows]
      BY <1>1 DEF IInv, TypeOK
    <3>1. PICK u \in Threads : BeginSend(u) \/ Step(u)
      BY <2>4
    <3>2. CASE u # t
      <4>1. thread'[t] = thread[t]
        BY <3>0, <3>1, <3>2 DEF BeginSend, Step, Acquire, Reserve, WakeUp, Recheck, SendOut,
           Outcome, Answered, Refused, Lost, Penalize, PenalizeRead, PenalizeWrite,
           PenalizeTotal, Settle, NoteGeneration, Retry, Cancel, Go
      <4> QED BY <2>1, <4>1
    <3>3. CASE u = t /\ ~SendOut(t)
      <4>1. thread[t].pc \in Waiting
        BY <1>1, <2>1 DEF IInv, CutOff
      <4>2. CASE Recheck(t)
        BY <3>0, <4>2 DEF Recheck, Go, ThreadRows
      <4>3. CASE Cancel(t)
        BY <3>0, <4>3 DEF Cancel, Idle
      <4> QED BY <2>1, <3>1, <3>3, <4>1, <4>2, <4>3 DEF Waiting, At, BeginSend, Step, Acquire,
             Reserve, WakeUp, Outcome, Answered, Refused, Lost, Penalize, PenalizeRead,
             PenalizeWrite, PenalizeTotal, Settle, NoteGeneration, Retry
    <3>4. CASE u = t /\ SendOut(t)
      BY <2>1, <3>4 DEF SendOut
    <3> QED BY <3>2, <3>3, <3>4
  <2> QED BY <1>1, <2>2, <2>3, <2>4 DEF Next, Tick, TurnOn, vars
<1>2. IInv /\ [Next]_vars =>
        [\A t \in Threads : thread[t].cut => thread'[t].pc # "sent"]_vars
  BY <1>1
<1> QED BY <1>2, Invariant, PTL DEF Spec, CutStaysCut
=============================================================================
