------------------------------- MODULE Entities -------------------------------
(***************************************************************************)
(* The controls of a device (entity.py and the platforms), over the queue  *)
(* of its commands: a control shows the value of its newest command while  *)
(* any of them is on its way, and belongs to one entry as one object; the  *)
(* device may declare another layout at any moment.                        *)
(*                                                                         *)
(* The controls and the objects of the declaration are the pairs of an     *)
(* entry's number and an object, so the layout is a set of controls.       *)
(***************************************************************************)
EXTENDS WriteQueue

CONSTANTS
  ControlOf,  \* ControlOf[c]: the control that command c is given to
  FirstLayout,  \* the layout heard first
  Layouts,    \* the layouts the device may declare
  MaxLayouts  \* bound on the times the declaration changes

ASSUME ControlsAssumption ==
  /\ DOMAIN ControlOf = Commands
  /\ \A c \in Commands : EntryOf[c] = ControlOf[c][1]
  /\ \A c, d \in Commands : ControlOf[c] = ControlOf[d] => (c \in Events <=> d \in Events)
  /\ MaxLayouts \in Nat

Controls == {ControlOf[c] : c \in Commands}
NoObject == 0

VARIABLES
  declared,  \* coordinator.declaration
  layouts,   \* how often it has changed
  added,     \* the controls that exist
  values,    \* _values, as the command the value comes from
  takenAs,   \* the object the command in hand was encoded for
  apply,     \* the coroutine async_apply of each command
  inFlight,  \* _in_flight of each control, as the command whose value it is
  writes     \* _writes_in_flight of each control

declaration == <<declared, layouts, added>>
controls == <<apply, inFlight, writes>>
vars == <<queue, declaration, values, takenAs, controls>>

EntryNumbers == {EntryOf[c] : c \in Commands}

EntitiesInit ==
  /\ Init
  /\ declared = FirstLayout /\ layouts = 0
  /\ added = declared \cap Controls
  /\ values = [n \in EntryNumbers |-> None]
  /\ takenAs = NoObject
  /\ apply = [c \in Commands |-> "not called"]
  /\ inFlight = [x \in Controls |-> None]
  /\ writes = [x \in Controls |-> 0]

\* Whether entry n of the declaration is still this object.
StillDeclared(x) == x \in declared

\* self.entry(number), read when the command's turn comes.
ObjectOfEntry(n) ==
  IF \E x \in declared : x[1] = n THEN (CHOOSE x \in declared : x[1] = n)[2]
  ELSE NoObject

\* The beginning of _write_now, in the step that takes the command.
TakesItsObject ==
  takenAs' = IF current' \in {current, None} THEN takenAs
             ELSE ObjectOfEntry(EntryOf[current'])

----------------------------------------------------------------------------
\* Another layout is heard: what was known of the entries is forgotten, and
\* the controls it declares are added unless they exist.
LayoutHeard(l) ==
  /\ layouts < MaxLayouts /\ l # declared
  /\ declared' = l /\ layouts' = layouts + 1
  /\ added' = added \cup (l \cap Controls)
  /\ values' = [n \in EntryNumbers |-> None]
  /\ UNCHANGED <<queue, takenAs, controls>>

\* async_apply is called on a control, and calls async_write.
Applied(c) ==
  LET x == ControlOf[c] IN
  /\ x \in added /\ StillDeclared(x)
  /\ apply[c] = "not called"
  /\ apply' = [apply EXCEPT ![c] = "running"]
  /\ inFlight' = [inFlight EXCEPT ![x] = IF c \in Events THEN None ELSE c]
  /\ writes' = [writes EXCEPT ![x] = @ + 1]
  /\ Issue(c)
  /\ UNCHANGED <<declaration, values, takenAs>>

\* Fault: the first write to finish takes the value off the screen.
ReleaseAtOnce(x, left) == None

\* Fault: nothing is released while other controls have writes on their way.
ReleaseWhenAllAreDone(x, left) ==
  IF left = 0 /\ \A y \in Controls \ {x} : writes[y] = 0 THEN None ELSE inFlight[x]

\* What a control shows with so many writes left.
Release(x, left) == IF left = 0 THEN None ELSE inFlight[x]

\* _settled: async_write has returned or raised, and async_apply goes on.
Settled(c) ==
  LET x == ControlOf[c]
      left == IF writes[x] = 0 THEN 0 ELSE writes[x] - 1
  IN /\ apply[c] = "running" /\ call[c] \in {"ok", "failed", "stopped"}
     /\ apply' = [apply EXCEPT ![c] = "returned"]
     /\ writes' = [writes EXCEPT ![x] = left]
     /\ inFlight' = [inFlight EXCEPT ![x] = Release(x, left)]
     /\ UNCHANGED <<queue, declaration, values, takenAs>>

\* The service call is cancelled, in async_write or on the way back from it.
\* CancelledError is not an Exception: nothing is settled.
Cancelled(c) ==
  /\ apply[c] = "running"
  /\ CancelCaller(c) \/ (call[c] \in {"ok", "failed", "stopped"} /\ UNCHANGED queue)
  /\ apply' = [apply EXCEPT ![c] = "cancelled"]
  /\ UNCHANGED <<declaration, values, takenAs, inFlight, writes>>

WriterGoesOn(c) ==
  WriterRuns(c) /\ UNCHANGED <<declaration, values, takenAs, controls>>

\* The device acknowledges the command in hand: the value is known, an event
\* leaves none behind.  A number that has no entry was never sent.
Acknowledged ==
  /\ takenAs # NoObject
  /\ Acknowledge
  /\ values' = IF current \in Events THEN values
               ELSE [values EXCEPT ![EntryOf[current]] = current]
  /\ UNCHANGED <<declaration, takenAs, controls>>

WriteIsOver == /\ WriteEnds /\ TakesItsObject
               /\ takenAs = NoObject => sent' = sent
               /\ UNCHANGED <<declaration, values, controls>>

FlushGoesOn == /\ FlushRuns /\ TakesItsObject
               /\ UNCHANGED <<declaration, values, controls>>

FlushIsOver == /\ FlushEnds
               /\ UNCHANGED <<declaration, values, takenAs, controls>>

FlushIsCancelled == /\ CancelFlush
                    /\ UNCHANGED <<declaration, values, takenAs, controls>>

Next == \/ \E l \in Layouts : LayoutHeard(l)
        \/ \E c \in Commands : Applied(c) \/ Settled(c) \/ Cancelled(c) \/ WriterGoesOn(c)
        \/ Acknowledged \/ WriteIsOver \/ FlushGoesOn \/ FlushIsOver \/ FlushIsCancelled

Spec == EntitiesInit /\ [][Next]_vars

\* The event loop runs whoever holds the lock or has been answered, and a
\* connection ends, well or badly.
Fairness == /\ \A c \in Commands : WF_vars(WriterGoesOn(c)) /\ WF_vars(Settled(c))
            /\ WF_vars(FlushGoesOn) /\ WF_vars(FlushIsOver) /\ WF_vars(WriteIsOver)

FairSpec == Spec /\ Fairness

----------------------------------------------------------------------------
\* One command was given before another; a command that waits for the lock, or
\* gave up there, is behind all that are queued.
Older(c, d) ==
  queuedAt[c] # 0 /\ (queuedAt[d] = 0 \/ queuedAt[c] < queuedAt[d])

\* While any command of a control is on its way, the control shows the value
\* of the newest (D-094).
ShowsTheNewest ==
  \A c \in Commands \ Events :
    apply[c] = "running" =>
      LET shown == inFlight[ControlOf[c]] IN shown # None /\ ~Older(shown, c)

\* A control gives its value up in the end, unless a service call of its own
\* was cancelled or its command was lost with the flush task.
ValuesAreReleased ==
  \A x \in Controls :
    inFlight[x] # None ~>
      \/ inFlight[x] = None
      \/ \E c \in Commands : /\ ControlOf[c] = x
                             /\ apply[c] = "cancelled" \/ c \in abandoned

\* A command is encoded for the object its control stands for (D-083).
CommandsReachTheirObject ==
  current # None => takenAs \in {ControlOf[current][2], NoObject}
=============================================================================
