-------------------------- MODULE DeviceWriteCounter --------------------------
(***************************************************************************)
(* The write counter of a device (BTHomeWritable.js): the last counter it  *)
(* accepted, kept coarsely in flash as a mark ahead of it, from which a    *)
(* restarted device resumes.  Espruino runs one handler at a time, so an   *)
(* action is one GATT write or one start.                                  *)
(*                                                                         *)
(* saveMarks writes this mark and that of DeviceSealCounter together;      *)
(* neither is ever changed without being saved, so what the other one      *)
(* rewrites here is what flash holds already.                              *)
(***************************************************************************)
EXTENDS CircularCounter

CONSTANTS
  WriteStride,      \* CTR_STRIDE
  HighestCounter    \* the highest counter any write carries

ASSUME WriteStrideAssumption == WriteStride \in Nat \ {0} /\ WriteStride < Space
ASSUME HighestAssumption == HighestCounter \in Ring

VARIABLES
  writeCounter,   \* st.writeCounter
  writeMark,      \* st.writeMark
  savedMark,      \* {w} of the counter file
  lastAccepted    \* the counter of the write accepted last, over all restarts

writeVars == <<writeCounter, writeMark, savedMark, lastAccepted>>

\* A device in any state of wear: the mark in flash is the highest that a
\* write was ever accepted at, or higher.
WriteInit == /\ savedMark \in 0..HighestCounter
        /\ writeCounter = savedMark /\ writeMark = savedMark
        /\ lastAccepted = savedMark

\* Fault: the mark is raised and not saved.
MarkWithoutSaving(counter) ==
  /\ writeMark' = IF counter >= writeMark THEN Plus(counter, WriteStride) ELSE writeMark
  /\ UNCHANGED savedMark

\* noteWriteCounter; the comparison is a plain one.
NoteWriteCounter(counter) ==
  IF counter >= writeMark
  THEN writeMark' = Plus(counter, WriteStride) /\ savedMark' = writeMark'
  ELSE UNCHANGED <<writeMark, savedMark>>

\* openWrite, for a payload that authenticates under this counter: any
\* counter may arrive, a late one or one seen before included.
OpenWrite(counter) ==
  IF IsAhead(counter, writeCounter)
  THEN /\ writeCounter' = counter
       /\ lastAccepted' = counter
       /\ NoteWriteCounter(counter)
  ELSE UNCHANGED writeVars

\* setup(), at boot or again while running: the marks are loaded and saved.
SetupWrite == /\ writeCounter' = savedMark /\ writeMark' = savedMark
         /\ UNCHANGED <<savedMark, lastAccepted>>

WriteNext == \/ \E counter \in 0..HighestCounter : OpenWrite(counter)
        \/ SetupWrite

WriteSpec == WriteInit /\ [][WriteNext]_writeVars

----------------------------------------------------------------------------
\* The type of every variable.
WriteTypeOK == /\ writeCounter \in Ring /\ writeMark \in Ring
          /\ savedMark \in Ring /\ lastAccepted \in Ring

\* A device is never behind what it has accepted, whatever restarts happen,
\* and a restart gives up at most a stride: that is why a write accepted once
\* is not accepted again, and what section 5.3 asks for on resume.
NeverBehindWhatWasAccepted == Minus(writeCounter, lastAccepted) <= WriteStride
=============================================================================
