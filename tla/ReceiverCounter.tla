--------------------------- MODULE ReceiverCounter ---------------------------
(***************************************************************************)
(* The write counter of the receiver (coordinator.py, __init__.py): drawn  *)
(* once per sealed write, kept coarsely in the config entry as a mark      *)
(* ahead of it, and never resumed below the clock.  An update of the       *)
(* config entry is taken to be on disk when the call returns.              *)
(***************************************************************************)
EXTENDS Integers

CONSTANTS
  Stride,         \* COUNTER_STRIDE
  Jump,           \* RESYNC_JUMP
  FirstClock,     \* the time of the first start
  LastClock,      \* bound on the clock
  LastCounter     \* bound on the counters drawn

ASSUME ReceiverStrideAssumption == Stride \in Nat \ {0} /\ Jump \in Nat \ {0}
ASSUME ClockAssumption ==
  FirstClock \in Nat /\ LastClock \in Nat /\ LastCounter \in Nat

VARIABLES
  counter,   \* _counter
  mark,      \* _counter_mark
  stored,    \* the entry's CONF_WRITE_COUNTER, 0 when it has none
  clock,     \* time.time()
  drawn      \* the highest counter a write was sealed with in the life of
             \* this config entry, 0 at first

receiverVars == <<counter, mark, stored, clock, drawn>>

Higher(a, b) == IF a > b THEN a ELSE b

\* Fault: the clock is not looked at.
StartFromTheStored(kept) == kept

\* _starting_counter
StartingCounter(kept) == Higher(kept, clock)

\* The coordinator is created on an entry that holds `kept`.
StartOn(kept) == /\ counter' = StartingCounter(kept)
                 /\ mark' = counter'

ReceiverInit == /\ clock = FirstClock
                /\ counter = FirstClock /\ mark = FirstClock
                /\ stored = 0 /\ drawn = 0

\* Fault: the counter is saved, not a mark ahead of it.
DrawAndSaveTheCounter ==
  /\ counter' = counter + 1
  /\ IF counter' >= mark
     THEN mark' = counter' + Stride /\ stored' = counter'
     ELSE UNCHANGED <<mark, stored>>
  /\ drawn' = Higher(drawn, counter')
  /\ UNCHANGED clock

\* next_write_counter, _remember_counter
DrawNext ==
  /\ counter' = counter + 1
  /\ IF counter' >= mark
     THEN mark' = counter' + Stride /\ stored' = mark'
     ELSE UNCHANGED <<mark, stored>>
  /\ drawn' = Higher(drawn, counter')
  /\ UNCHANGED clock

\* The counter moves to n, and the mark and the entry with it.
MoveTo(n) == /\ counter' = n
             /\ mark' = n + Stride
             /\ stored' = mark'
             /\ UNCHANGED <<clock, drawn>>

\* resynchronise, from the button.
Resynchronise == MoveTo(counter + Jump)

\* _adopt_counter, for a report that authenticates; resumed is one above
\* what the device reported.
Adopt(resumed) ==
  IF resumed <= counter
  THEN UNCHANGED receiverVars
  ELSE MoveTo(resumed)

Tick == /\ clock' = clock + 1
        /\ UNCHANGED <<counter, mark, stored, drawn>>

\* Home Assistant restarts, crashes, or reloads the entry.
Restart == StartOn(stored) /\ UNCHANGED <<stored, clock, drawn>>

\* The entry is deleted and added again, or restored without its mark.  What
\* its predecessor drew is forgotten, though the key may be the same.
Recreate == /\ StartOn(0)
            /\ stored' = 0 /\ drawn' = 0
            /\ UNCHANGED clock

\* The bounds on the counter and the clock.
ReceiverNext == \/ counter < LastCounter /\ DrawNext
                \/ counter + Jump <= LastCounter /\ Resynchronise
                \/ \E resumed \in 1..LastCounter : Adopt(resumed)
                \/ clock < LastClock /\ Tick
                \/ Restart \/ Recreate

ReceiverSpec == ReceiverInit /\ [][ReceiverNext]_receiverVars

----------------------------------------------------------------------------
\* The type of every variable.
ReceiverTypeOK == /\ counter \in Nat /\ mark \in Nat /\ stored \in Nat
                  /\ clock \in Nat /\ drawn \in Nat

\* No counter seals two writes in the life of a config entry, over all
\* restarts: whatever is drawn next is above everything drawn before.  Sealing
\* twice under one counter repeats a nonce, and the device refuses the second
\* write in silence.
NoCounterIsDrawnTwice == drawn <= counter

\* The counter never goes down, over restarts either, and whatever a device
\* says of itself, unless the entry is re-created.
CounterGoesUp == [][counter' >= counter \/ Recreate]_receiverVars
=============================================================================
