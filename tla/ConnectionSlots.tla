--------------------------- MODULE ConnectionSlots ---------------------------
(***************************************************************************)
(* The host-wide gate every connection passes through (slots.py): a        *)
(* counting gate whose limit can move under live traffic, with a queue of  *)
(* commands served before a queue of housekeeping, and a hold-off during   *)
(* which nobody is let in.                                                 *)
(*                                                                         *)
(* A caller is one task that calls acquire().  asyncio runs one task at a  *)
(* time, so each action below is the code between two suspension points;   *)
(* what interleaves is who runs next, which task is cancelled, and when    *)
(* the clock moves past the end of the hold-off.                           *)
(***************************************************************************)
EXTENDS Integers, Sequences, FiniteSets

CONSTANTS
  Callers,        \* the tasks that ask for a connection
  Commands,       \* those that ask with urgent=True
  Entries,        \* the config entries that register a request
  MaxLimit,       \* the largest limit an options form offers
  DefaultLimit,   \* DEFAULT_MAX_CONNECTIONS, used when no entry has asked
  MaxTimers       \* bound on the resume timers armed at once

ASSUME CallersAssumption == IsFiniteSet(Callers) /\ Commands \subseteq Callers
ASSUME LimitAssumption == /\ MaxLimit \in Nat /\ DefaultLimit \in 1..MaxLimit
                          /\ IsFiniteSet(Entries)
ASSUME TimersAssumption == MaxTimers \in Nat

VARIABLES
  limit,      \* _limit
  inFlight,   \* _in_flight
  urgent,     \* _urgent: the callers whose waiters are queued as commands
  ordinary,   \* _ordinary: the same for housekeeping
  heldOff,    \* whether the clock is still before _held_off_until
  timers,     \* how many call_later(..., _resume) are armed
  asked,      \* _asked: what each entry requested, 0 when it has not
  pc          \* where each caller is

vars == <<limit, inFlight, urgent, ordinary, heldOff, timers, asked, pc>>

(***************************************************************************)
(* away       not inside acquire() and owning nothing                      *)
(* cooling    asleep in acquire() until the hold-off is over               *)
(* waiting    awaiting a waiter that is neither done nor cancelled         *)
(* cancelled  cancelled while waiting: the waiter is done, the task has    *)
(*            not run yet, and the waiter may still be in its queue        *)
(* admitted   the waiter has its result, the task has not run yet          *)
(* revoked    admitted, then cancelled before it ran                       *)
(* holding    acquire() has returned, release() is owed                    *)
(***************************************************************************)
Places == {"away", "cooling", "waiting", "cancelled", "admitted", "revoked",
           "holding"}

Owners == {c \in Callers : pc[c] \in {"admitted", "revoked", "holding"}}

Line == urgent \o ordinary

----------------------------------------------------------------------------
(* _admit: the loop pops the head of the line for as long as there is one  *)
(* and a slot is free, so it reaches the i-th position exactly when the    *)
(* live waiters before it have not used the free slots up.  Cancelled      *)
(* waiters are popped too and cost nothing.                                *)
LiveAhead(line, i, p) == {j \in 1..(i - 1) : p[line[j]] = "waiting"}

Reached(line, free, p) ==
  {i \in 1..Len(line) : Cardinality(LiveAhead(line, i, p)) < free}

LetIn(line, free, p) ==
  {c \in Callers : /\ p[c] = "waiting"
                   /\ \E i \in Reached(line, free, p) : line[i] = c}

AfterPopping(q, k) == SubSeq(q, k + 1, Len(q))

Drain(u, o, n, p, free) ==
  LET line   == u \o o
      popped == Cardinality(Reached(line, free, p))
      in     == LetIn(line, free, p)
  IN  /\ urgent' = AfterPopping(u, popped)
      /\ ordinary' = IF popped > Len(u) THEN AfterPopping(o, popped - Len(u))
                                        ELSE o
      /\ inFlight' = n + Cardinality(in)
      /\ pc' = [c \in Callers |-> IF c \in in THEN "admitted" ELSE p[c]]

\* Fault: the hold-off is not looked at.
AdmitThroughAHoldOff(u, o, n, l, p, held) == Drain(u, o, n, p, l - n)
Admit(u, o, n, l, p, held) ==
  Drain(u, o, n, p, IF held THEN 0 ELSE l - n)

\* deque.remove(waiter), with its ValueError suppressed.
Without(q, c) ==
  IF \E i \in 1..Len(q) : q[i] = c
  THEN LET i == CHOOSE i \in 1..Len(q) : q[i] = c
       IN  SubSeq(q, 1, i - 1) \o SubSeq(q, i + 1, Len(q))
  ELSE q

----------------------------------------------------------------------------
Init == /\ limit = DefaultLimit
        /\ inFlight = 0
        /\ urgent = <<>> /\ ordinary = <<>>
        /\ heldOff = FALSE
        /\ timers = 0
        /\ asked = [e \in Entries |-> 0]
        /\ pc = [c \in Callers |-> "away"]

TakeSlot(c) == /\ inFlight' = inFlight + 1
               /\ pc' = [pc EXCEPT ![c] = "holding"]
               /\ UNCHANGED <<urgent, ordinary>>

JoinQueue(c) ==
  /\ pc' = [pc EXCEPT ![c] = "waiting"]
  /\ IF c \in Commands
     THEN urgent' = Append(urgent, c) /\ UNCHANGED ordinary
     ELSE ordinary' = Append(ordinary, c) /\ UNCHANGED urgent
  /\ UNCHANGED inFlight

\* Fault: a free slot is taken without looking at the queue.
EnterPastTheQueue(c) == IF inFlight < limit THEN TakeSlot(c) ELSE JoinQueue(c)

\* acquire, once the host is not held off: a slot at once if nobody is
\* queued, live or not, or else the back of the caller's own queue.
Enter(c) ==
  IF Line = <<>> /\ inFlight < limit THEN TakeSlot(c) ELSE JoinQueue(c)

Acquire(c) ==
  /\ pc[c] = "away"
  /\ IF heldOff
     THEN /\ pc' = [pc EXCEPT ![c] = "cooling"]
          /\ UNCHANGED <<inFlight, urgent, ordinary>>
     ELSE Enter(c)
  /\ UNCHANGED <<limit, heldOff, timers, asked>>

\* The sleep ends; the loop sleeps again if the hold-off was extended.
Wake(c) ==
  /\ pc[c] = "cooling"
  /\ ~heldOff
  /\ Enter(c)
  /\ UNCHANGED <<limit, heldOff, timers, asked>>

\* The task that was admitted runs: acquire() returns.
Return(c) ==
  /\ pc[c] = "admitted"
  /\ pc' = [pc EXCEPT ![c] = "holding"]
  /\ UNCHANGED <<limit, inFlight, urgent, ordinary, heldOff, timers, asked>>

\* task.cancel(): a pending waiter becomes done at once, and the task sees
\* CancelledError only when it runs.  A holder is cancelled inside taken(),
\* whose finally releases: that is Release.
Cancel(c) ==
  /\ \/ pc[c] = "cooling" /\ pc' = [pc EXCEPT ![c] = "away"]
     \/ pc[c] = "waiting" /\ pc' = [pc EXCEPT ![c] = "cancelled"]
     \/ pc[c] = "admitted" /\ pc' = [pc EXCEPT ![c] = "revoked"]
  /\ UNCHANGED <<limit, inFlight, urgent, ordinary, heldOff, timers, asked>>

\* CancelledError inside acquire(), the waiter having been cancelled.
LeaveQueue(c) ==
  /\ pc[c] = "cancelled"
  /\ urgent' = IF c \in Commands THEN Without(urgent, c) ELSE urgent
  /\ ordinary' = IF c \in Commands THEN ordinary ELSE Without(ordinary, c)
  /\ pc' = [pc EXCEPT ![c] = "away"]
  /\ UNCHANGED <<limit, inFlight, heldOff, timers, asked>>

\* Fault: the slot of a caller cancelled after it was admitted is lost.
LoseTheSlot(c) ==
  /\ pc[c] = "revoked"
  /\ pc' = [pc EXCEPT ![c] = "away"]
  /\ UNCHANGED <<limit, inFlight, urgent, ordinary, heldOff, timers, asked>>

\* CancelledError inside acquire(), the waiter having its result: the slot
\* is handed on.
HandOn(c) ==
  /\ pc[c] = "revoked"
  /\ Admit(urgent, ordinary, inFlight - 1, limit, [pc EXCEPT ![c] = "away"], heldOff)
  /\ UNCHANGED <<limit, heldOff, timers, asked>>

\* release(), on every way out of taken().
Release(c) ==
  /\ pc[c] = "holding"
  /\ Admit(urgent, ordinary, IF inFlight > 0 THEN inFlight - 1 ELSE inFlight,
           limit, [pc EXCEPT ![c] = "away"], heldOff)
  /\ UNCHANGED <<limit, heldOff, timers, asked>>

\* Fault: the hold-off arms no timer.
HostIsFullWithoutATimer(c) ==
  /\ pc[c] = "holding"
  /\ heldOff' = TRUE
  /\ Admit(urgent, ordinary, inFlight - 1, limit, [pc EXCEPT ![c] = "away"], TRUE)
  /\ UNCHANGED <<limit, timers, asked>>

\* A holder's connect raised BleakOutOfConnectionSlotsError: hold_off() and
\* then the way out of taken(), with no suspension in between.  A hold-off
\* that ends no later than the current one arms nothing.
HostIsFull(c) ==
  /\ pc[c] = "holding"
  /\ heldOff' = TRUE
  /\ \/ timers < MaxTimers /\ timers' = timers + 1
     \/ heldOff /\ UNCHANGED timers
  /\ Admit(urgent, ordinary, IF inFlight > 0 THEN inFlight - 1 ELSE inFlight,
           limit, [pc EXCEPT ![c] = "away"], TRUE)
  /\ UNCHANGED <<limit, asked>>

\* The clock passes _held_off_until.
HoldOffEnds ==
  /\ heldOff
  /\ heldOff' = FALSE
  /\ UNCHANGED <<limit, inFlight, urgent, ordinary, timers, asked, pc>>

\* _resume: one armed timer fires.  Still cooling, it arms itself again and
\* nothing changes; otherwise the queue is drained.
Resume ==
  /\ timers > 0
  /\ ~heldOff
  /\ timers' = timers - 1
  /\ Admit(urgent, ordinary, inFlight, limit, pc, heldOff)
  /\ UNCHANGED <<limit, heldOff, asked>>

Resize(l) ==
  /\ limit' = l
  /\ IF l = limit THEN UNCHANGED <<inFlight, urgent, ordinary, pc>>
                  ELSE Admit(urgent, ordinary, inFlight, l, pc, heldOff)

Requests(a) == {a[e] : e \in {e \in Entries : a[e] > 0}}

LowestOf(S) == CHOOSE l \in S : \A m \in S : l <= m

\* register_request: an entry is set up, or its options change.
RegisterRequest(e, l) ==
  /\ asked' = [asked EXCEPT ![e] = l]
  /\ Resize(LowestOf(Requests(asked')))
  /\ UNCHANGED <<heldOff, timers>>

\* withdraw_request: an entry is unloaded or removed.
WithdrawRequest(e) ==
  /\ asked[e] > 0
  /\ asked' = [asked EXCEPT ![e] = 0]
  /\ Resize(IF Requests(asked') = {} THEN DefaultLimit
                                     ELSE LowestOf(Requests(asked')))
  /\ UNCHANGED <<heldOff, timers>>

Next ==
  \/ \E c \in Callers : \/ Acquire(c) \/ Wake(c) \/ Return(c) \/ Cancel(c)
                        \/ LeaveQueue(c) \/ HandOn(c) \/ Release(c)
                        \/ HostIsFull(c)
  \/ HoldOffEnds \/ Resume
  \/ \E e \in Entries : \/ \E l \in 1..MaxLimit : RegisterRequest(e, l)
                        \/ WithdrawRequest(e)

Spec == Init /\ [][Next]_vars

----------------------------------------------------------------------------
\* The type of every variable; a caller is in at most one queue, its own.
TypeOK ==
  /\ limit \in 1..MaxLimit
  /\ inFlight \in Nat
  /\ urgent \in Seq(Commands)
  /\ ordinary \in Seq(Callers \ Commands)
  /\ heldOff \in BOOLEAN
  /\ timers \in Nat
  /\ asked \in [Entries -> 0..MaxLimit]
  /\ pc \in [Callers -> Places]

\* No slot is lost and none is counted twice, whatever is cancelled when:
\* _in_flight is the number of callers that owe a release, the admitted ones
\* that have not run yet included.
SlotsAccountedFor == inFlight = Cardinality(Owners)

\* No slot is left idle: while anybody is queued beside a free slot, a resume
\* timer is armed that will drain the queue.  This is what _resume_later is
\* for: the caller that found the host full may be the last one to release.
NoSlotLeftIdle == (Line # <<>> /\ inFlight < limit) => timers > 0

\* A hold-off always has a timer that will drain the queue after it.
HoldOffHasATimer == heldOff => timers > 0

\* Whoever is given a slot finds the host open, and leaves no more slots in
\* use than any entry has agreed to.
AdmissionStep ==
  Owners' \ Owners # {} =>
    /\ ~heldOff /\ ~heldOff'
    /\ Cardinality(Owners') <= limit'
    /\ \A e \in Entries : asked'[e] > 0 => Cardinality(Owners') <= asked'[e]

\* Commands go before housekeeping and each queue is first in, first out:
\* when a caller is given a slot, nobody who is still waiting was ahead of it.
\* A newcomer is behind everybody.
AheadOf(c, d) ==
  \/ /\ \E i \in 1..Len(Line) : Line[i] = d
     /\ \A j \in 1..Len(Line) : Line[j] # c
  \/ \E i, j \in 1..Len(Line) : i < j /\ Line[i] = d /\ Line[j] = c

OvertakingStep ==
  \A c \in Owners' \ Owners :
    \A d \in Callers : AheadOf(c, d) => pc'[d] # "waiting"

AdmissionRespectsTheCap == [][AdmissionStep]_vars
NobodyOvertakes == [][OvertakingStep]_vars
=============================================================================
