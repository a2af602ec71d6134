--------------------------- MODULE CounterProtocol ---------------------------
(***************************************************************************)
(* The receiver's write counter against the device's (sections 5.3 and     *)
(* 5.6): sealed writes, and the question a receiver asks on the connection *)
(* of a write when it may have fallen behind.  A refused write is refused  *)
(* in silence, so being behind is what must not happen, or must be mended  *)
(* by the question.                                                        *)
(*                                                                         *)
(* A connection is a few steps during which either side may restart; a     *)
(* restart of either ends it.  The receiver writes one command at a time,  *)
(* with other connections of its own (reads) in between.  The question     *)
(* rides on the write's connection or, when that is turned off, has one of *)
(* its own before the write's, and one at setup.                           *)
(***************************************************************************)
EXTENDS ReceiverCounter

CONSTANTS
  Space, Window, WriteStride, HighestCounter,
  NoWrite    \* the link of a connection that is not there

VARIABLES
  writeCounter, writeMark, savedMark, lastAccepted,    \* DeviceWriteCounter
  offered,   \* whether the device has the counter characteristic
  table,     \* the host's GATT table of the device: none, with or without it
  armed,     \* _resync_counter
  dropped,   \* _counter_table_dropped
  offers,    \* _offers_counter_report: unknown (None), yes or no
  link,      \* the connection of the write or of the question under way
  folds,     \* FOLD_THE_COUNTER_QUESTION_INTO_A_WRITE
  alone,     \* of the questions on connections of their own: whether the one
             \* of setup is to come, and whether the command's is behind it
  moved      \* since the device last told its counter, it has restarted or
             \* the receiver's entry was re-created

deviceVars == <<writeCounter, writeMark, savedMark, lastAccepted>>
question == <<armed, dropped, offers>>

ways == <<folds, alone>>

vars == <<deviceVars, receiverVars, question, offered, table, link, moved, ways>>

Device == INSTANCE DeviceWriteCounter

\* Every counter is below half the ring, whose end the clock that seeds them
\* reaches in 2038, and no mark ahead of one wraps.
ASSUME HalfTheRingAssumption ==
  /\ Space \in Nat /\ Window \in Nat /\ WriteStride \in Nat /\ HighestCounter \in Nat
  /\ LastCounter <= Window /\ LastCounter + WriteStride + 1 < Space
  /\ HighestCounter + 1 < Space

Tables == {"none", "with", "without"}

\* A connection is at "open"; "asked", the question being over; or "sealed",
\* the write being about to leave; or it is the question's own, at its "first"
\* or its "second" look, for the write that waits or for setup.  `number` is the counter the receiver held
\* when it opened, and then the one the write was sealed with; `answered`:
\* the device told its counter on it.

----------------------------------------------------------------------------
\* Setup arms the question, or sends it on its way.
StartAsking == /\ armed' = folds /\ dropped' = FALSE /\ offers' = "unknown"
               /\ alone' = [setup |-> ~folds, asked |-> FALSE]
               /\ UNCHANGED folds

Init == /\ Device!WriteInit /\ ReceiverInit
        /\ folds \in BOOLEAN /\ alone = [setup |-> ~folds, asked |-> FALSE]
        /\ armed = folds /\ dropped = FALSE /\ offers = "unknown"
        /\ offered \in BOOLEAN
        /\ table \in Tables
        /\ link = NoWrite
        /\ moved = TRUE

\* What connecting does to the host's table: a missing one is discovered.
Discover == table' = IF table # "none" THEN table
                     ELSE IF offered THEN "with" ELSE "without"

\* async_ask_the_counter_on_the_next_write, _notice_revision: the settings
\* revision moved, which is what a restart looks like.
RevisionMoves == /\ offers # "no"
                 /\ armed' = TRUE
                 /\ UNCHANGED <<deviceVars, receiverVars, dropped, offers,
                                offered, table, link, moved, ways>>

\* _write_now opens its link, a question due to go before it having gone.
Connect == /\ link = NoWrite
           /\ folds \/ ~armed \/ alone.asked
           /\ Discover
           /\ link' = [at |-> "open", number |-> counter, answered |-> FALSE]
           /\ alone' = [alone EXCEPT !.asked = FALSE]
           /\ UNCHANGED <<deviceVars, receiverVars, question, offered, moved, folds>>

\* Another connection of this receiver comes and goes: a read.
ReadConnects == /\ link = NoWrite
                /\ Discover
                /\ UNCHANGED <<deviceVars, receiverVars, question, offered, link,
                               moved, ways>>

Asked == link' = [link EXCEPT !.at = "asked"]

\* Fault: the first miss is the verdict.
GiveUpAtOnce ==
  /\ table = "without"
  /\ table' = "none"
  /\ offers' = "no" /\ armed' = FALSE /\ UNCHANGED dropped
  /\ Asked
  /\ UNCHANGED <<deviceVars, receiverVars, moved>>

\* The question when the table lacks the characteristic: the table is
\* dropped, and the second time the device is taken at its word.
MissTheCharacteristic ==
  /\ table = "without"
  /\ table' = "none"
  /\ IF dropped
     THEN offers' = "no" /\ armed' = FALSE /\ UNCHANGED dropped
     ELSE dropped' = TRUE /\ UNCHANGED <<offers, armed>>
  /\ Asked
  /\ UNCHANGED <<deviceVars, receiverVars, moved>>

\* The exchange raises, or the table promises what the device has not got:
\* the question stays armed, the write goes on.
AskInVain == /\ table = "with"
             /\ Asked
             /\ UNCHANGED <<deviceVars, receiverVars, question, table, moved>>

\* The device answers.
Answered == /\ table = "with" /\ offered
            /\ Adopt(Device!Plus(writeCounter, 1))
            /\ link' = [link EXCEPT !.at = "asked", !.answered = TRUE]
            /\ moved' = FALSE

\* The report does not authenticate: it was read before the device, which
\* answers a turn of its loop later, had replaced the challenge.
AnsweredTooLate == /\ table = "with" /\ offered
                   /\ Asked
                   /\ UNCHANGED <<receiverVars, moved>>

\* Any report spends the question.
HearTheReport == /\ Answered \/ AnsweredTooLate
                 /\ dropped' = FALSE /\ offers' = "yes" /\ armed' = FALSE
                 /\ UNCHANGED <<deviceVars, table>>

\* _ask_for_the_counter_here; a question that failed on a connection of its
\* own is asked again here.
Ask == /\ link # NoWrite /\ link.at = "open" /\ armed
       /\ MissTheCharacteristic \/ AskInVain \/ HearTheReport
       /\ UNCHANGED <<offered, ways>>

----------------------------------------------------------------------------
\* async_sync_write_counter: a connection of the question's own, from setup
\* or ahead of a command's.
QuestionConnects(asker) ==
  /\ link = NoWrite /\ ~folds
  /\ IF asker = "setup" THEN alone.setup ELSE armed /\ ~alone.asked
  /\ alone' = IF asker = "setup" THEN [alone EXCEPT !.setup = FALSE] ELSE alone
  /\ Discover
  /\ link' = [at |-> "first", number |-> counter, answered |-> FALSE,
              asker |-> asker]
  /\ UNCHANGED <<deviceVars, receiverVars, question, offered, moved, folds>>

\* No proxy or adapter hears the device when setup's question is to go.
NobodyToAsk == /\ alone.setup
               /\ alone' = [alone EXCEPT !.setup = FALSE]
               /\ UNCHANGED <<deviceVars, receiverVars, question, offered, table,
                              link, moved, folds>>

\* The question is over; a command clears the alarm unless it failed, and
\* goes on to its own connection.
QuestionEnds(failed) ==
  /\ link' = NoWrite
  /\ alone' = [alone EXCEPT !.asked = @ \/ link.asker = "command"]
  /\ armed' = (armed /\ (failed \/ link.asker = "setup"))

\* The table lacks the characteristic: it is dropped, and a second connection
\* looks at a table read afresh, which is believed.
LookAlone ==
  /\ table = "without"
  /\ IF link.at = "first"
     THEN /\ table' = IF offered THEN "with" ELSE "without"
          /\ link' = [link EXCEPT !.at = "second"]
          /\ UNCHANGED <<offers, armed, alone>>
     ELSE table' = "none" /\ offers' = "no" /\ QuestionEnds(FALSE)
  /\ UNCHANGED <<receiverVars, moved>>

HearAlone ==
  /\ table = "with" /\ offered
  /\ offers' = "yes"
  /\ \/ Adopt(Device!Plus(writeCounter, 1)) /\ moved' = FALSE
     \/ UNCHANGED <<receiverVars, moved>>
  /\ QuestionEnds(FALSE)
  /\ UNCHANGED table

\* A connection or an exchange that raises: the write goes out all the same.
FailAlone == /\ QuestionEnds(TRUE)
             /\ UNCHANGED <<receiverVars, moved, table, offers>>

IsAlone == link # NoWrite /\ link.at \in {"first", "second"}

AskAlone == /\ IsAlone
            /\ LookAlone \/ HearAlone \/ FailAlone
            /\ UNCHANGED <<deviceVars, dropped, offered, folds>>

\* The command's own connection never comes about.
CommandGivesUp == /\ link = NoWrite /\ alone.asked
                  /\ alone' = [alone EXCEPT !.asked = FALSE]
                  /\ UNCHANGED <<deviceVars, receiverVars, question, offered, table,
                                 link, moved, folds>>

----------------------------------------------------------------------------

\* Fault: the write is sealed with the counter held before the question.
SealBeforeAsking ==
  /\ link # NoWrite
  /\ link.at \in {"open", "asked"}
  /\ counter < LastCounter
  /\ DrawNext
  /\ link' = [link EXCEPT !.at = "sealed", !.number = @ + 1]
  /\ UNCHANGED <<deviceVars, question, offered, table, moved, ways>>

\* The counter is drawn inside the link, after the question.
SealWrite == /\ link # NoWrite
             /\ link.at = "asked" \/ (link.at = "open" /\ ~armed)
             /\ counter < LastCounter
             /\ DrawNext
             /\ link' = [link EXCEPT !.at = "sealed", !.number = counter']
             /\ UNCHANGED <<deviceVars, question, offered, table, moved, ways>>

\* The write reaches the device, which acknowledges it before it looks.
Deliver == /\ link # NoWrite /\ link.at = "sealed"
           /\ Device!OpenWrite(link.number)
           /\ link' = NoWrite
           /\ UNCHANGED <<receiverVars, question, offered, table, moved, ways>>

\* The connection is lost; what was sealed on it never arrives.
LinkIsLost == /\ link # NoWrite /\ ~IsAlone
              /\ link' = NoWrite
              /\ UNCHANGED <<deviceVars, receiverVars, question, offered, table,
                             moved, ways>>

\* The device restarts, and is ahead of its receiver from then on.
DeviceRestarts == /\ Device!SetupWrite
                  /\ moved' = TRUE
                  /\ IF IsAlone THEN QuestionEnds(TRUE)
                     ELSE link' = NoWrite /\ UNCHANGED <<armed, alone>>
                  /\ UNCHANGED <<receiverVars, dropped, offers, offered, table, folds>>

ReceiverRestarts == /\ Restart
                    /\ StartAsking
                    /\ link' = NoWrite
                    /\ UNCHANGED <<deviceVars, offered, table, moved>>

\* The device is deleted and added again: its counter starts from the clock.
EntryIsRecreated == /\ Recreate
                    /\ StartAsking
                    /\ link' = NoWrite
                    /\ moved' = TRUE
                    /\ UNCHANGED <<deviceVars, offered, table>>

\* The clock moves; the button is pressed.
ReceiverMoves == /\ \/ clock < LastClock /\ Tick
                    \/ counter + Jump <= LastCounter /\ Resynchronise
                 /\ UNCHANGED <<deviceVars, question, offered, table, link, moved,
                                ways>>

Next == \/ RevisionMoves \/ Connect \/ ReadConnects \/ Ask \/ SealWrite \/ Deliver
        \/ (\E asker \in {"setup", "command"} : QuestionConnects(asker))
        \/ NobodyToAsk \/ AskAlone \/ CommandGivesUp
        \/ LinkIsLost \/ DeviceRestarts \/ ReceiverRestarts
        \/ EntryIsRecreated \/ ReceiverMoves

Spec == Init /\ [][Next]_vars

----------------------------------------------------------------------------
IsSealed == link # NoWrite /\ link.at = "sealed"

\* The question does what it is for: a write sealed on a connection that
\* carried the device's own counter is accepted when it arrives.
AnsweredWritesAreAccepted ==
  IsSealed /\ link.answered => Device!IsAhead(link.number, writeCounter)

\* The two stay in step until one of them forgets: while the device has not
\* restarted, nor the entry been re-created, since the device last told its
\* counter, no write is refused, whatever connections were lost and however
\* often the receiver restarted.
InStepUntilOneForgets ==
  IsSealed /\ ~moved => Device!IsAhead(link.number, writeCounter)

\* A device is written off as one that answers no question only when it has
\* no such characteristic, whatever stale table the host began with.
NoMeansNo == offers = "no" => ~offered
=============================================================================
