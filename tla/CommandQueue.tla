----------------------------- MODULE CommandQueue -----------------------------
(***************************************************************************)
(* What async_write promises, without the lock, the flush task and the     *)
(* connection that keep the promise: commands are taken one at a time in   *)
(* the order they came, a newer value replaces a queued one for the same   *)
(* entry, and whoever waits is told.                                       *)
(***************************************************************************)
EXTENDS Integers, Sequences, Subsequences

CONSTANTS Commands, EntryOf, Events, None

VARIABLES
  answer,  \* what each caller has been told: not yet asked, nothing, ...
  queue,   \* the commands accepted and not yet begun
  busy,    \* the command being delivered, None when there is none
  onDuty   \* whether somebody serves the queue

vars == <<answer, queue, busy, onDuty>>

Told(cs, what) ==
  [c \in Commands |-> IF c \in cs /\ answer[c] = "open" THEN what ELSE answer[c]]

Replaced(c) ==
  {d \in Commands : /\ \E i \in 1..Len(queue) : queue[i] = d
                    /\ EntryOf[d] = EntryOf[c]
                    /\ c \notin Events /\ d \notin Events}

Init == /\ answer = [c \in Commands |-> "unasked"]
        /\ queue = <<>>
        /\ busy = None /\ onDuty = FALSE

\* A command joins the queue; the value it replaces counts as delivered.
Accept(c) ==
  /\ answer[c] = "unasked"
  /\ answer' = [Told(Replaced(c), "ok") EXCEPT ![c] = "open"]
  /\ queue' = Append(Kept(queue, Commands \ Replaced(c)), c)
  /\ onDuty' = TRUE
  /\ UNCHANGED busy

TakeNext == /\ queue # <<>>
            /\ busy' = Head(queue) /\ queue' = Tail(queue)
            /\ UNCHANGED onDuty

Begin == onDuty /\ busy = None /\ TakeNext /\ UNCHANGED answer

Deliver == /\ busy # None
           /\ answer' = Told({busy}, "ok")
           /\ UNCHANGED <<queue, busy, onDuty>>

\* The connection is over: a command that was not delivered has failed.
End == /\ busy # None
       /\ answer' = Told({busy}, "failed")
       /\ \/ TakeNext
          \/ /\ busy' = None /\ UNCHANGED queue
             /\ onDuty' \in {onDuty, queue # <<>>}

\* The caller gives up, before or after its command was accepted.
Leave(c) == /\ answer[c] \in {"unasked", "open"}
            /\ answer' = [answer EXCEPT ![c] = "gone"]
            /\ UNCHANGED <<queue, busy, onDuty>>

\* The queue stops between two commands, and says so to all who wait in it.
Stop == /\ onDuty /\ busy = None
        /\ answer' = Told({queue[i] : i \in 1..Len(queue)}, "stopped")
        /\ queue' = <<>>
        /\ onDuty' = FALSE
        /\ UNCHANGED busy

\* Whoever served the queue is gone, with the command in hand, and says so to
\* those who wait in the queue, or to nobody.
Abandon == /\ onDuty
           /\ \/ /\ answer' = Told({queue[i] : i \in 1..Len(queue)}, "stopped")
                 /\ queue' = <<>> /\ onDuty' = FALSE
              \/ UNCHANGED <<answer, queue>> /\ onDuty' \in BOOLEAN
           /\ busy' = None

Next == \/ \E c \in Commands : Accept(c) \/ Leave(c)
        \/ Begin \/ Deliver \/ End \/ Stop \/ Abandon

Safety == Init /\ [][Next]_vars

Spec == Safety /\ WF_vars(Begin \/ Stop) /\ WF_vars(End)
=============================================================================
