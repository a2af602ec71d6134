---------------------------- MODULE DeviceCounters ----------------------------
(***************************************************************************)
(* The two counters of one device (BTHomeWritable.js): what it accepts and *)
(* what it seals.  They meet in one file of flash, which holds both marks, *)
(* and in setup(), which resumes both at once.                             *)
(***************************************************************************)
EXTENDS DeviceWriteCounter, DeviceSealCounter

countersVars == <<writeVars, sealVars>>

CountersInit == WriteInit /\ SealInit

\* A sealed write arrives (openWrite).
WriteArrives == /\ \E counter \in 0..HighestCounter : OpenWrite(counter)
                /\ UNCHANGED sealVars

\* A packet, a value to be read or a counter report is sealed.
PacketIsSealed == /\ RoomLeft /\ Seal
                  /\ UNCHANGED writeVars

\* The device starts.
Setup == /\ RoomLeft
         /\ SetupWrite /\ SetupSeal

CountersNext == WriteArrives \/ PacketIsSealed \/ Setup

CountersSpec == CountersInit /\ [][CountersNext]_countersVars

----------------------------------------------------------------------------
\* The type of every variable.
CountersTypeOK == WriteTypeOK /\ SealTypeOK
=============================================================================
