------------------------------ MODULE WriteQueue ------------------------------
(***************************************************************************)
(* The queue of commands of one device (coordinator.py: async_write,       *)
(* _flush_soon): callers queue a value under _pending_lock and wait, one   *)
(* flush task drains the queue, one command per connection.                *)
(*                                                                         *)
(* asyncio runs one task at a time and _pending_lock is never held across  *)
(* a suspension, so an action is what a task does between two of them.     *)
(* The lock still orders tasks: it is handed to the head of its queue,     *)
(* which runs later, and whoever comes meanwhile stands behind.  Home      *)
(* Assistant starts tasks eagerly, so a new flush task asks for the lock   *)
(* while the writer that created it holds it, and is queued at once.       *)
(***************************************************************************)
EXTENDS Integers, Sequences, FiniteSets, Subsequences

CONSTANTS
  Commands,            \* the calls of async_write, each made once
  EntryOf,             \* EntryOf[c]: the entry command c is for
  Events,              \* the commands queued with coalesce=False
  Flush, None,         \* the flush task in the lock's queue; no command
  FlushMayBeCancelled  \* whether the flush task may be cancelled, at a shutdown

ASSUME CommandsAssumption ==
  /\ IsFiniteSet(Commands) /\ Events \subseteq Commands
  /\ DOMAIN EntryOf = Commands
  /\ Flush \notin Commands /\ None \notin Commands
  /\ FlushMayBeCancelled \in BOOLEAN

VARIABLES
  call,      \* what each caller of async_write is doing, or was told
  pending,   \* _pending: the queued commands
  queuedAt,  \* the place of each command in the order of queueing, 0 before
  lockQ,     \* who asked for _pending_lock, its next holder first
  flush,     \* what _flush_task is doing
  current,   \* the command the flush task has popped
  sent,      \* the commands that reached the device, in order
  abandoned  \* the commands a cancelled flush task has left with no answer

queue == <<call, pending, queuedAt, lockQ, flush, current, sent, abandoned>>

(***************************************************************************)
(* A caller:  unissued; locking, for _pending_lock; awaiting its waiter;   *)
(*   told ok, failed (its own write) or stopped ("the write queue          *)
(*   stopped"); gone, having been cancelled.                               *)
(* The flush task:  none or done; locking, at the top of its loop;         *)
(*   writing; acked, the device having acknowledged and the connection     *)
(*   still being open; finishing, asking for the lock in its finally.      *)
(***************************************************************************)
Calls == {"unissued", "locking", "awaiting", "ok", "failed", "stopped", "gone"}
Stages == {"none", "locking", "writing", "acked", "finishing"}

InSeq(x, s) == \E i \in 1..Len(s) : s[i] = x

Without(s, x) == Kept(s, (Commands \cup {Flush}) \ {x})

\* _settle: a waiter that is done already is left alone.
Settle(cs, told) ==
  [c \in Commands |-> IF c \in cs /\ call[c] = "awaiting" THEN told ELSE call[c]]

Queued == {c \in Commands : InSeq(c, pending)}

Issued == {c \in Commands : queuedAt[c] > 0}

----------------------------------------------------------------------------
Init == /\ call = [c \in Commands |-> "unissued"]
        /\ pending = <<>> /\ lockQ = <<>> /\ sent = <<>>
        /\ queuedAt = [c \in Commands |-> 0]
        /\ flush = "none" /\ current = None /\ abandoned = {}

\* The commands a new one replaces.
Superseded(c) ==
  IF c \in Events THEN {}
  ELSE {d \in Queued : EntryOf[d] = EntryOf[c] /\ d \notin Events}

\* Fault: the new command takes the place of the one it replaces.
AppendInPlace(c, gone) ==
  IF gone = {} THEN Append(pending, c)
  ELSE [i \in 1..Len(pending) |-> IF pending[i] \in gone THEN c ELSE pending[i]]

AppendBehind(c, gone) ==
  Append(Kept(pending, Commands \ gone), c)

\* async_create_task: the new task runs up to the lock its creator holds.
StartFlush(q) ==
  IF flush = "none"
  THEN flush' = "locking" /\ lockQ' = Append(q, Flush)
  ELSE flush' = flush /\ lockQ' = q

\* The body of async_write under the lock, q being who waits for it.
Enqueue(c, q) ==
  /\ call' = [Settle(Superseded(c), "ok") EXCEPT ![c] = "awaiting"]
  /\ pending' = AppendBehind(c, Superseded(c))
  /\ queuedAt' = [queuedAt EXCEPT ![c] = Cardinality(Issued) + 1]
  /\ StartFlush(q)
  /\ UNCHANGED <<current, sent, abandoned>>

\* async_write is called.
Issue(c) ==
  /\ call[c] = "unissued"
  /\ IF lockQ = <<>>
     THEN Enqueue(c, <<>>)
     ELSE /\ call' = [call EXCEPT ![c] = "locking"]
          /\ lockQ' = Append(lockQ, c)
          /\ UNCHANGED <<pending, queuedAt, flush, current, sent, abandoned>>

\* A writer that waited for the lock gets it.
WriterRuns(c) ==
  /\ lockQ # <<>> /\ Head(lockQ) = c
  /\ Enqueue(c, Tail(lockQ))

\* A caller is cancelled.  What it has queued stays queued.
CancelCaller(c) ==
  /\ call[c] \in {"locking", "awaiting"}
  /\ call' = [call EXCEPT ![c] = "gone"]
  /\ lockQ' = Without(lockQ, c)
  /\ UNCHANGED <<pending, queuedAt, flush, current, sent, abandoned>>

----------------------------------------------------------------------------
\* The finally under the lock: whoever is still queued is told so.
Strand == call' = Settle(Queued, "stopped") /\ pending' = <<>>

\* The finally after a cancellation, reached with q waiting for the lock.
Finish(q) ==
  IF q = <<>>
  THEN Strand /\ flush' = "none" /\ lockQ' = q
  ELSE /\ flush' = "finishing" /\ lockQ' = Append(q, Flush)
       /\ UNCHANGED <<call, pending>>

\* The top of the loop, with the lock and q waiting for it.  An empty queue
\* ends the loop: the finally has nobody to tell, unless a writer that waits
\* for the lock gets in before it.
LoopTop(q) ==
  IF pending # <<>>
  THEN /\ current' = Head(pending) /\ pending' = Tail(pending)
       /\ flush' = "writing" /\ lockQ' = q
  ELSE /\ current' = None /\ UNCHANGED pending
       /\ IF q = <<>> THEN flush' = "none" /\ lockQ' = q
                      ELSE flush' = "finishing" /\ lockQ' = Append(q, Flush)

\* The flush task gets the lock it asked for at the top of its loop.
FlushRuns ==
  /\ flush = "locking" /\ lockQ # <<>> /\ Head(lockQ) = Flush
  /\ LoopTop(Tail(lockQ))
  /\ UNCHANGED <<call, queuedAt, sent, abandoned>>

\* The flush task gets the lock it asked for in its finally.
FlushEnds ==
  /\ flush = "finishing" /\ lockQ # <<>> /\ Head(lockQ) = Flush
  /\ Strand
  /\ flush' = "none" /\ lockQ' = Tail(lockQ)
  /\ UNCHANGED <<queuedAt, current, sent, abandoned>>

\* Fault: the acknowledgement is not passed on to the caller.
AcknowledgeNobody ==
  /\ flush = "writing"
  /\ sent' = Append(sent, current)
  /\ flush' = "acked"
  /\ UNCHANGED <<call, pending, queuedAt, lockQ, current, abandoned>>

\* on_acknowledged: the caller is told, the connection stays open.
Acknowledge ==
  /\ flush = "writing"
  /\ sent' = Append(sent, current)
  /\ call' = Settle({current}, "ok")
  /\ flush' = "acked"
  /\ UNCHANGED <<pending, queuedAt, lockQ, current, abandoned>>

\* _write_now returns, or raises: before the acknowledgement the caller is
\* told -- and the value may have reached the device all the same -- and
\* after it nobody is.  The loop then asks for the lock again, and has it
\* at once if nobody else wants it.
WriteEnds ==
  /\ \/ flush = "acked" /\ UNCHANGED <<call, sent>>
     \/ /\ flush = "writing"
        /\ call' = Settle({current}, "failed")
        /\ sent' \in {sent, Append(sent, current)}
  /\ IF lockQ = <<>>
     THEN LoopTop(<<>>)
     ELSE /\ flush' = "locking" /\ lockQ' = Append(lockQ, Flush)
          /\ current' = None
          /\ UNCHANGED pending
  /\ UNCHANGED <<queuedAt, abandoned>>

\* The flush task is cancelled.  CancelledError is not an Exception: the
\* command in flight is not settled, and the finally asks for the lock; a
\* second cancellation there leaves the queue as it is, for the next command
\* to start another task.
CancelFlush ==
  /\ FlushMayBeCancelled
  /\ flush # "none"
  /\ IF flush = "finishing"
     THEN /\ flush' = "none" /\ lockQ' = Without(lockQ, Flush)
          /\ abandoned' = abandoned \cup Queued
          /\ UNCHANGED <<call, pending>>
     ELSE /\ Finish(Without(lockQ, Flush))
          /\ abandoned' = abandoned \cup ({current} \ {None})
  /\ current' = None
  /\ UNCHANGED <<queuedAt, sent>>

----------------------------------------------------------------------------
\* What the callers have been told, to those who do not see the lock.
Answers ==
  [c \in Commands |-> CASE call[c] \in {"unissued", "locking"} -> "unasked"
                        [] call[c] = "awaiting" -> "open"
                        [] OTHER -> call[c]]

Serving == flush # "none"

\* What this queue implements: the lock, the flush task and the callers that
\* wait for the lock are left out of the picture.
Promise == INSTANCE CommandQueue WITH
  answer <- Answers, queue <- pending, busy <- current, onDuty <- Serving

\* The queue keeps the promise of async_write, progress included.
KeepsItsPromise == Promise!Spec

\* The type of every variable.  There is one flush task at a time, and
\* nobody stands twice in the queue of the lock.
TypeOK ==
  /\ call \in [Commands -> Calls]
  /\ pending \in Seq(Commands)
  /\ queuedAt \in [Commands -> Nat]
  /\ lockQ \in Seq(Commands \cup {Flush})
  /\ \A i, j \in 1..Len(lockQ) : lockQ[i] = lockQ[j] => i = j
  /\ flush \in Stages
  /\ current \in Commands \cup {None}
  /\ sent \in Seq(Commands)

\* The device receives commands in the order they were queued, each once at
\* most, whatever was replaced or cancelled in between.
SentInOrder ==
  \A i, j \in 1..Len(sent) : i < j => queuedAt[sent[i]] < queuedAt[sent[j]]

\* Nobody is told that the queue stopped while nothing has stopped it.
NobodyIsToldItStopped == \A c \in Commands : call[c] # "stopped"

\* Every caller is answered, or has gone; only a cancelled flush task leaves
\* one waiting, for the command it had in hand.
EveryCallerIsAnswered ==
  \A c \in Commands :
    call[c] \in {"locking", "awaiting"} ~>
      call[c] \in {"ok", "failed", "stopped", "gone"} \/ c \in abandoned
=============================================================================
