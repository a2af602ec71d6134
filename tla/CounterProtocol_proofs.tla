------------------------ MODULE CounterProtocol_proofs ------------------------
(***************************************************************************)
(* For every stride, jump, clock and bound on the counters: the receiver   *)
(* never draws a counter twice and never goes back in the life of a config *)
(* entry; and against a device, whatever restarts and lost links come      *)
(* between, it is behind only when one of the two has forgotten, and a     *)
(* question that was answered mends that for the write it rides on.        *)
(***************************************************************************)
EXTENDS CounterProtocol, TLAPS

\* Either a counter was drawn since the start, or the button or a report
\* moved it, and then the entry holds the mark; or the counter is still where
\* the start put it, which the clock has passed or the entry holds.
Kept == \/ mark = stored
        \/ counter = mark /\ counter <= Higher(stored, clock)

ReceiverInv == ReceiverTypeOK /\ counter <= mark /\ drawn <= counter /\ Kept

USE ReceiverStrideAssumption, ClockAssumption

LEMMA ReceiverStarts == ReceiverInit => ReceiverInv
  BY DEF ReceiverInit, ReceiverInv, ReceiverTypeOK, Kept, Higher

\* What may happen to the receiver, without the bounds of a run; a device may
\* report any counter.
ReceiverStep == \/ DrawNext \/ Resynchronise \/ \E resumed \in Nat : Adopt(resumed)
                \/ Tick \/ Restart \/ Recreate
                \/ UNCHANGED receiverVars

\* Every step keeps the invariant, and only re-creating the entry lowers the
\* counter.
LEMMA ReceiverKeeps ==
  ASSUME ReceiverInv, ReceiverStep
  PROVE  ReceiverInv' /\ (counter' >= counter \/ Recreate)
<1> USE DEF ReceiverInv, ReceiverTypeOK, Kept, Higher
<1>1. CASE DrawNext
  BY <1>1 DEF DrawNext
<1>2. CASE Resynchronise
  BY <1>2 DEF Resynchronise, MoveTo
<1>3. ASSUME NEW resumed \in Nat, Adopt(resumed)
      PROVE  ReceiverInv' /\ (counter' >= counter \/ Recreate)
  BY <1>3 DEF Adopt, MoveTo, receiverVars
<1>4. CASE Tick
  BY <1>4 DEF Tick
<1>5. CASE Restart
  BY <1>5 DEF Restart, StartOn, StartingCounter
<1>6. CASE Recreate
  BY <1>6 DEF Recreate, StartOn, StartingCounter
<1>7. CASE UNCHANGED receiverVars
  BY <1>7 DEF receiverVars
<1> QED
  BY <1>1, <1>2, <1>3, <1>4, <1>5, <1>6, <1>7 DEF ReceiverStep

\* A restart resumes at the counter that was drawn last, or above.
LEMMA RestartGoesUp == ASSUME ReceiverInv, Restart PROVE counter' >= counter
  BY DEF ReceiverInv, ReceiverTypeOK, Kept, Higher, Restart, StartOn, StartingCounter

LEMMA ReceiverSteps == [ReceiverNext]_receiverVars => ReceiverStep
  BY DEF ReceiverNext, ReceiverStep, receiverVars

\* No counter seals two writes over all restarts of the receiver, in the
\* life of a config entry (next_write_counter, _starting_counter).
THEOREM CountersAreDrawnOnce == ReceiverSpec => []NoCounterIsDrawnTwice
<1>1. ReceiverInv /\ [ReceiverNext]_receiverVars => ReceiverInv'
  BY ReceiverSteps, ReceiverKeeps
<1>2. ReceiverInv => NoCounterIsDrawnTwice
  BY DEF ReceiverInv, NoCounterIsDrawnTwice
<1> QED
  BY ReceiverStarts, <1>1, <1>2, PTL DEF ReceiverSpec

\* The counter never goes down, whatever a report says (_adopt_counter),
\* unless the entry is re-created.
THEOREM CounterNeverGoesBack == ReceiverSpec => CounterGoesUp
<1>1. ReceiverInv /\ [ReceiverNext]_receiverVars => ReceiverInv'
  BY ReceiverSteps, ReceiverKeeps
<1>2. ReceiverInv /\ [ReceiverNext]_receiverVars => [counter' >= counter \/ Recreate]_receiverVars
  BY ReceiverSteps, ReceiverKeeps
<1> QED
  BY ReceiverStarts, <1>1, <1>2, PTL DEF ReceiverSpec, CounterGoesUp

----------------------------------------------------------------------------
\* The types, and the half of the ring the device stays in.
Below == 0..(Space - 2)

Links ==
  [at : {"open", "asked", "sealed"}, number : Nat, answered : BOOLEAN]
  \cup [at : {"first", "second"}, number : Nat, answered : BOOLEAN,
        asker : {"setup", "command"}]

DeviceOK == writeCounter \in Below /\ savedMark \in Below /\ writeMark \in Below

SwitchesOK ==
  /\ armed \in BOOLEAN /\ dropped \in BOOLEAN /\ offers \in {"unknown", "yes", "no"}
  /\ offered \in BOOLEAN /\ table \in Tables /\ folds \in BOOLEAN /\ moved \in BOOLEAN
  /\ alone \in [setup : BOOLEAN, asked : BOOLEAN]

LinkOK == link = NoWrite \/ link \in Links

ProtocolTypeOK == DeviceOK /\ SwitchesOK /\ LinkOK

\* A table that was dropped and is there again, and the table of a second
\* look, are the device's own.
TableIsTrue ==
  (dropped \/ (link # NoWrite /\ link.at = "second")) =>
    (table = "without" => ~offered)

\* The receiver holds the device's counter or a higher one, since the device
\* told it; on the connection where it did, a strictly higher one.
HoldsTheCounter ==
  /\ ~moved => writeCounter <= counter
  /\ link # NoWrite =>
       /\ link.at # "sealed" /\ link.answered => link.at = "asked" /\ writeCounter < counter
       /\ link.at = "sealed" =>
            /\ link.number <= counter /\ link.number <= LastCounter
            /\ ~moved \/ link.answered => writeCounter < link.number

ProtocolInv == /\ ReceiverInv /\ ProtocolTypeOK /\ TableIsTrue /\ HoldsTheCounter
               /\ NoMeansNo

USE HalfTheRingAssumption

LEMMA ProtocolStarts == Init => ProtocolInv
<1> SUFFICES ASSUME Init PROVE ProtocolInv
  OBVIOUS
<1>1. ReceiverInv
  BY ReceiverStarts DEF Init
<1>2. DeviceOK /\ LinkOK
  BY DEF Init, Device!WriteInit, DeviceOK, LinkOK, Below
<1>3. SwitchesOK
  BY Zenon DEF Init, SwitchesOK
<1>4. TableIsTrue /\ HoldsTheCounter /\ NoMeansNo
  BY DEF Init, TableIsTrue, HoldsTheCounter, NoMeansNo
<1> QED
  BY <1>1, <1>2, <1>3, <1>4 DEF ProtocolInv, ProtocolTypeOK

\* The counter a device reports, one above its own, is one above on the ring.
LEMMA ReportIsAbove ==
  ASSUME ProtocolTypeOK
  PROVE  Device!Plus(writeCounter, 1) = writeCounter + 1 /\ writeCounter + 1 \in Nat
  BY DEF ProtocolTypeOK, DeviceOK, Below, Device!Plus

\* On the half of the ring the counters stay in, what is above is ahead.
LEMMA AboveIsAhead ==
  ASSUME ProtocolTypeOK, NEW n \in Nat, n <= LastCounter, writeCounter < n
  PROVE  Device!IsAhead(n, writeCounter)
  BY DEF ProtocolTypeOK, DeviceOK, Below, Device!IsAhead, Device!Minus

\* Every step of the protocol is a step of the receiver, or leaves it alone.
LEMMA ReceiverTakesPart == ASSUME ProtocolTypeOK, [Next]_vars PROVE ReceiverStep
<1>1. Device!Plus(writeCounter, 1) \in Nat
  BY ReportIsAbove
<1>2. CASE Ask
  BY <1>1, <1>2 DEF Ask, MissTheCharacteristic, AskInVain, HearTheReport, Answered,
                    AnsweredTooLate, ReceiverStep, receiverVars
<1>3. CASE AskAlone
  BY <1>1, <1>3 DEF AskAlone, LookAlone, HearAlone, FailAlone, ReceiverStep, receiverVars
<1>4. CASE SealWrite \/ ReceiverRestarts \/ EntryIsRecreated \/ ReceiverMoves
  BY <1>4 DEF SealWrite, ReceiverRestarts, EntryIsRecreated, ReceiverMoves, ReceiverStep
<1>5. CASE \/ RevisionMoves \/ Connect \/ ReadConnects \/ Deliver \/ NobodyToAsk
           \/ (\E asker \in {"setup", "command"} : QuestionConnects(asker))
           \/ CommandGivesUp \/ LinkIsLost \/ DeviceRestarts \/ UNCHANGED vars
  BY <1>5 DEF RevisionMoves, Connect, ReadConnects, Deliver, NobodyToAsk, QuestionConnects,
              CommandGivesUp, LinkIsLost, DeviceRestarts, vars, receiverVars, ReceiverStep
<1> QED
  BY <1>2, <1>3, <1>4, <1>5 DEF Next

\* The counter a device accepts is the one it is left with, and its marks stay
\* below the end of the ring.
LEMMA DeliverKeeps ==
  ASSUME ProtocolInv, Deliver
  PROVE  DeviceOK' /\ writeCounter' \in {writeCounter, link.number}
<1> USE DEF ProtocolInv, ProtocolTypeOK, DeviceOK, Below
<1>1. link.number \in Nat /\ link.number <= LastCounter
  BY DEF Deliver, HoldsTheCounter, LinkOK, Links
<1>2. Device!Plus(link.number, WriteStride) = link.number + WriteStride
  BY <1>1 DEF Device!Plus
<1> QED
  BY <1>1, <1>2 DEF Deliver, Device!OpenWrite, Device!NoteWriteCounter, Device!writeVars

LEMMA DeviceStaysBelow == ASSUME ProtocolInv, [Next]_vars PROVE DeviceOK'
<1> USE DEF ProtocolInv, ProtocolTypeOK, DeviceOK
<1>1. CASE Deliver
  BY <1>1, DeliverKeeps
<1>2. CASE DeviceRestarts
  BY <1>2 DEF DeviceRestarts, Device!SetupWrite
<1>3. CASE UNCHANGED deviceVars
  BY <1>3 DEF deviceVars
<1> QED
  BY <1>1, <1>2, <1>3 DEF Next, vars, RevisionMoves, Connect, ReadConnects, Ask,
       MissTheCharacteristic, AskInVain, HearTheReport, SealWrite, NobodyToAsk,
       QuestionConnects, AskAlone, CommandGivesUp, LinkIsLost, ReceiverRestarts,
       EntryIsRecreated, ReceiverMoves

LEMMA SwitchesKeep == ASSUME ProtocolInv, [Next]_vars PROVE SwitchesOK'
<1> USE DEF SwitchesOK
<1>a. SwitchesOK
  BY DEF ProtocolInv, ProtocolTypeOK
<1>1. CASE RevisionMoves
  BY <1>a, <1>1, Zenon DEF RevisionMoves, ways
<1>2. CASE Connect \/ ReadConnects \/ CommandGivesUp \/ NobodyToAsk
  BY <1>a, <1>2 DEF Connect, ReadConnects, CommandGivesUp, NobodyToAsk, Discover, Tables, question, ways
<1>3. ASSUME NEW asker \in {"setup", "command"}, QuestionConnects(asker) PROVE SwitchesOK'
  BY <1>a, <1>3 DEF QuestionConnects, Discover, Tables, question, ways
<1>4. CASE Ask
  BY <1>a, <1>4 DEF Ask, MissTheCharacteristic, AskInVain, HearTheReport, Answered,
                    AnsweredTooLate, Tables, question, ways
<1>5. CASE AskAlone
  BY <1>a, <1>5 DEF AskAlone, LookAlone, HearAlone, FailAlone, QuestionEnds, Tables, ways
<1>6. CASE SealWrite \/ Deliver \/ LinkIsLost \/ ReceiverMoves
  BY <1>a, <1>6 DEF SealWrite, Deliver, LinkIsLost, ReceiverMoves, question, ways
<1>7. CASE DeviceRestarts
  BY <1>a, <1>7 DEF DeviceRestarts, QuestionEnds
<1>8. CASE ReceiverRestarts \/ EntryIsRecreated
  <2>1. armed' \in BOOLEAN /\ dropped' \in BOOLEAN
    BY <1>a, <1>8, Zenon DEF ReceiverRestarts, EntryIsRecreated, StartAsking
  <2>3. [setup |-> ~folds, asked |-> FALSE] \in [setup : BOOLEAN, asked : BOOLEAN]
    OBVIOUS
  <2>4. alone' \in [setup : BOOLEAN, asked : BOOLEAN]
    BY <1>8, <2>3, Zenon DEF ReceiverRestarts, EntryIsRecreated, StartAsking
  <2>2. /\ offers' \in {"unknown", "yes", "no"} /\ table' \in Tables
        /\ offered' \in BOOLEAN /\ folds' \in BOOLEAN /\ moved' \in BOOLEAN
    BY <1>a, <1>8 DEF ReceiverRestarts, EntryIsRecreated, StartAsking
  <2> QED
    BY <2>1, <2>2, <2>4
<1>9. CASE UNCHANGED vars
  BY <1>a, <1>9 DEF vars, question, ways
<1> QED
  BY <1>1, <1>2, <1>3, <1>4, <1>5, <1>6, <1>7, <1>8, <1>9 DEF Next

LEMMA LinkKeeps == ASSUME ProtocolInv, [Next]_vars PROVE LinkOK'
<1> USE DEF LinkOK, Links
<1>a. LinkOK /\ counter \in Nat /\ counter' \in Nat
  BY ReceiverTakesPart, ReceiverKeeps DEF ProtocolInv, ProtocolTypeOK, ReceiverInv, ReceiverTypeOK
<1>1. CASE Connect
  BY <1>a, <1>1 DEF Connect
<1>2. ASSUME NEW asker \in {"setup", "command"}, QuestionConnects(asker) PROVE LinkOK'
  BY <1>a, <1>2 DEF QuestionConnects
<1>3. CASE Ask
  BY <1>a, <1>3 DEF Ask, MissTheCharacteristic, AskInVain, HearTheReport, Answered,
                    AnsweredTooLate, Asked
<1>4. CASE AskAlone
  BY <1>a, <1>4 DEF AskAlone, IsAlone, LookAlone, HearAlone, FailAlone, QuestionEnds
<1>5. CASE SealWrite
  BY <1>a, <1>5 DEF SealWrite
<1>6. CASE Deliver \/ LinkIsLost \/ DeviceRestarts \/ ReceiverRestarts \/ EntryIsRecreated
  BY <1>6 DEF Deliver, LinkIsLost, DeviceRestarts, QuestionEnds, ReceiverRestarts, EntryIsRecreated
<1>7. CASE UNCHANGED link
  BY <1>a, <1>7
<1> QED
  BY <1>1, <1>2, <1>3, <1>4, <1>5, <1>6, <1>7 DEF Next, RevisionMoves, ReadConnects,
       NobodyToAsk, CommandGivesUp, ReceiverMoves, vars

\* The verdict is spoken over a table that was dropped and discovered again.
LEMMA TableStaysTrue == ASSUME ProtocolInv, [Next]_vars PROVE TableIsTrue' /\ NoMeansNo'
<1> USE DEF TableIsTrue, NoMeansNo
<1>a. TableIsTrue /\ NoMeansNo /\ LinkOK
  BY DEF ProtocolInv, ProtocolTypeOK
<1>1. CASE RevisionMoves \/ NobodyToAsk \/ CommandGivesUp \/ ReceiverMoves
  BY <1>a, <1>1 DEF RevisionMoves, NobodyToAsk, CommandGivesUp, ReceiverMoves, question
<1>8. CASE LinkIsLost \/ Deliver
  BY <1>a, <1>8 DEF LinkIsLost, Deliver, question
<1>9. CASE SealWrite
  <2>1. link'.at = "sealed"
    BY <1>a, <1>9 DEF SealWrite, LinkOK, Links
  <2> QED
    BY <1>a, <1>9, <2>1 DEF SealWrite, question
<1>2. CASE Connect \/ ReadConnects
  BY <1>a, <1>2 DEF Connect, ReadConnects, Discover, question
<1>3. ASSUME NEW asker \in {"setup", "command"}, QuestionConnects(asker)
      PROVE  TableIsTrue' /\ NoMeansNo'
  BY <1>a, <1>3 DEF QuestionConnects, Discover, question
<1>4. CASE Ask
  BY <1>a, <1>4 DEF Ask, MissTheCharacteristic, AskInVain, HearTheReport, Answered,
                    AnsweredTooLate, Asked, question, LinkOK, Links
<1>5. CASE AskAlone
  BY <1>a, <1>5 DEF AskAlone, IsAlone, LookAlone, HearAlone, FailAlone, QuestionEnds,
                    LinkOK, Links
<1>6. CASE DeviceRestarts \/ ReceiverRestarts \/ EntryIsRecreated
  BY <1>a, <1>6 DEF DeviceRestarts, QuestionEnds, ReceiverRestarts, EntryIsRecreated,
                    StartAsking
<1>7. CASE UNCHANGED vars
  BY <1>a, <1>7 DEF vars, question
<1> QED
  BY <1>1, <1>2, <1>3, <1>4, <1>5, <1>6, <1>7, <1>8, <1>9 DEF Next

\* The receiver only rises, unless its entry is re-created; the device rises
\* to a counter the receiver has drawn, or restarts and is out of step.
LEMMA StaysInStep == ASSUME ProtocolInv, [Next]_vars PROVE HoldsTheCounter'
<1> USE DEF HoldsTheCounter
<1>a. /\ HoldsTheCounter /\ LinkOK /\ writeCounter \in Nat
      /\ counter \in Nat /\ counter' \in Nat /\ LastCounter \in Nat
      /\ counter <= counter' \/ Recreate
  BY ReceiverTakesPart, ReceiverKeeps
  DEF ProtocolInv, ProtocolTypeOK, DeviceOK, Below, ReceiverInv, ReceiverTypeOK
<1>1. CASE RevisionMoves \/ ReadConnects \/ NobodyToAsk \/ CommandGivesUp \/ UNCHANGED vars
  BY <1>a, <1>1 DEF RevisionMoves, ReadConnects, NobodyToAsk, CommandGivesUp, vars,
                    deviceVars, receiverVars
<1>2. CASE Connect \/ \E asker \in {"setup", "command"} : QuestionConnects(asker)
  BY <1>a, <1>2 DEF Connect, QuestionConnects, deviceVars, receiverVars
<1>3. CASE Ask
  <2>1. writeCounter' = writeCounter
    BY <1>3 DEF Ask, MissTheCharacteristic, AskInVain, HearTheReport, deviceVars
  <2>2. CASE Answered
    <3>1. writeCounter < counter'
      BY <1>a, <2>2, ReportIsAbove DEF Answered, Adopt, MoveTo, receiverVars, ProtocolInv
    <3>2. link' # NoWrite => link'.at = "asked"
      BY <1>a, <1>3, <2>2 DEF Ask, Answered, LinkOK, Links
    <3> QED
      BY <1>a, <2>1, <3>1, <3>2
  <2>3. CASE Asked /\ UNCHANGED <<receiverVars, moved>>
    BY <1>a, <1>3, <2>1, <2>3 DEF Ask, Asked, receiverVars, LinkOK, Links
  <2> QED
    BY <1>3, <2>2, <2>3 DEF Ask, MissTheCharacteristic, AskInVain, HearTheReport, AnsweredTooLate
<1>4. CASE AskAlone
  BY <1>a, <1>4, ReportIsAbove
  DEF AskAlone, IsAlone, LookAlone, HearAlone, FailAlone, QuestionEnds, Adopt, MoveTo,
      deviceVars, receiverVars, LinkOK, Links, ProtocolInv
<1>5. CASE SealWrite
  BY <1>a, <1>5 DEF SealWrite, DrawNext, deviceVars, LinkOK, Links
<1>6. CASE Deliver
  BY <1>a, <1>6, DeliverKeeps DEF Deliver, receiverVars, LinkOK, Links
<1>7. CASE DeviceRestarts
  BY <1>a, <1>7 DEF DeviceRestarts, QuestionEnds
<1>8. CASE LinkIsLost
  BY <1>a, <1>8 DEF LinkIsLost, deviceVars, receiverVars
<1>9. CASE ReceiverRestarts
  <2>1. counter <= counter'
    BY <1>a, <1>9, RestartGoesUp DEF ReceiverRestarts, ProtocolInv
  <2> QED
    BY <1>a, <1>9, <2>1 DEF ReceiverRestarts, deviceVars
<1>10. CASE EntryIsRecreated
  BY <1>a, <1>10 DEF EntryIsRecreated
<1>11. CASE ReceiverMoves
  BY <1>a, <1>11 DEF ReceiverMoves, Tick, Resynchronise, MoveTo, deviceVars, LinkOK, Links
<1> QED
  BY <1>1, <1>2, <1>3, <1>4, <1>5, <1>6, <1>7, <1>8, <1>9, <1>10, <1>11 DEF Next

LEMMA ProtocolKeeps == ASSUME ProtocolInv, [Next]_vars PROVE ProtocolInv'
<1>1. ReceiverInv'
  BY ReceiverTakesPart, ReceiverKeeps DEF ProtocolInv
<1> QED
  BY <1>1, DeviceStaysBelow, SwitchesKeep, LinkKeeps, TableStaysTrue, StaysInStep
  DEF ProtocolInv, ProtocolTypeOK

LEMMA ProtocolAlways == Spec => []ProtocolInv
<1>1. ProtocolInv /\ [Next]_vars => ProtocolInv'
  BY ProtocolKeeps
<1> QED
  BY ProtocolStarts, <1>1, PTL DEF Spec

\* Every variable of the protocol has its type, and no counter of the device
\* comes round.
THEOREM CountersStayOnTheirHalf == Spec => []ProtocolTypeOK
<1>1. ProtocolInv => ProtocolTypeOK
  BY DEF ProtocolInv
<1> QED
  BY ProtocolAlways, <1>1, PTL

\* A write sealed on a connection on which the device told its counter
\* (_ask_for_the_counter_here) is ahead of the device when it arrives.
THEOREM TheQuestionHelps == Spec => []AnsweredWritesAreAccepted
<1>1. ProtocolInv => AnsweredWritesAreAccepted
  BY AboveIsAhead
  DEF ProtocolInv, ProtocolTypeOK, LinkOK, Links, HoldsTheCounter, IsSealed,
      AnsweredWritesAreAccepted
<1> QED
  BY ProtocolAlways, <1>1, PTL

\* While neither side has forgotten, no write is refused, however often the
\* receiver restarts (_starting_counter, _remember_counter) and whatever links
\* are lost.
THEOREM RefusedOnlyAfterForgetting == Spec => []InStepUntilOneForgets
<1>1. ProtocolInv => InStepUntilOneForgets
  BY AboveIsAhead
  DEF ProtocolInv, ProtocolTypeOK, LinkOK, Links, HoldsTheCounter, IsSealed,
      InStepUntilOneForgets
<1> QED
  BY ProtocolAlways, <1>1, PTL

\* A device is written off (_offers_counter_report) only if it has no such
\* characteristic, whatever table the host began with.
THEOREM NoIsNeverAGuess == Spec => []NoMeansNo
<1>1. ProtocolInv => NoMeansNo
  BY DEF ProtocolInv
<1> QED
  BY ProtocolAlways, <1>1, PTL

\* With a device and its questions beside it too, the receiver never draws a
\* counter twice.
THEOREM NoNonceIsUsedTwice == Spec => []NoCounterIsDrawnTwice
<1>1. ProtocolInv => NoCounterIsDrawnTwice
  BY DEF ProtocolInv, ReceiverInv, NoCounterIsDrawnTwice
<1> QED
  BY ProtocolAlways, <1>1, PTL
=============================================================================
