-------------------------- MODULE DeviceSealCounter --------------------------
(***************************************************************************)
(* The counter a device seals its own packets with (BTHomeWritable.js):    *)
(* advertising, reads and counter reports draw from one counter.  Sealing  *)
(* twice under one counter and one key repeats a nonce, and nothing checks *)
(* what the device sends, so the mark that is kept in flash is all there   *)
(* is between a restart and a repeated nonce.                              *)
(***************************************************************************)
EXTENDS CircularCounter

CONSTANT AdvStride    \* ADV_STRIDE

ASSUME AdvStrideAssumption == AdvStride \in Nat \ {0} /\ AdvStride < Space

VARIABLES
  advCounter,   \* st.advCounter
  advMark,      \* st.advMark
  savedAdv,     \* {a} of the counter file
  sealed,       \* the counters something was sealed under, with this key
  passed        \* a bound on the counters used up or given up since

sealVars == <<advCounter, advMark, savedAdv, sealed, passed>>

\* setup() has run on a device whose file holds `start` (0 if it has none).
SealInit == \E start \in Ring : /\ advCounter = start
                            /\ advMark = Plus(start, AdvStride)
                            /\ savedAdv = Plus(start, AdvStride)
                            /\ sealed = {} /\ passed = 0

\* reachedMark
ReachedMark(counter, mark) == Minus(counter, mark) < AdvStride

\* seal: the counter is drawn, then noteAdvCounter moves the mark.
Seal == /\ sealed' = sealed \cup {advCounter}
        /\ advCounter' = Plus(advCounter, 1)
        /\ passed' = passed + 1
        /\ IF ReachedMark(advCounter', advMark)
           THEN advMark' = Plus(advCounter', AdvStride) /\ savedAdv' = advMark'
           ELSE UNCHANGED <<advMark, savedAdv>>

\* Fault: the stride is claimed when the counter reaches it, not at the start.
SetupWithoutClaiming ==
  /\ advCounter' = savedAdv
  /\ advMark' = Plus(savedAdv, AdvStride)
  /\ passed' = passed + AdvStride
  /\ UNCHANGED <<savedAdv, sealed>>

\* setup(): resume from the mark and claim the next stride at once.
SetupSeal == /\ advCounter' = savedAdv
         /\ advMark' = Plus(savedAdv, AdvStride)
         /\ savedAdv' = advMark'
         /\ passed' = passed + AdvStride
         /\ UNCHANGED sealed

\* The counter space is used once: two strides are kept in reserve for the
\* mark and for the jump of a restart.
RoomLeft == passed + 2 * AdvStride < Space

SealNext == RoomLeft /\ (Seal \/ SetupSeal)

SealSpec == SealInit /\ [][SealNext]_sealVars

----------------------------------------------------------------------------
\* The type of every variable.
SealTypeOK == /\ advCounter \in Ring /\ advMark \in Ring /\ savedAdv \in Ring
          /\ sealed \subseteq Ring
          /\ passed \in Nat

\* Nothing is sealed twice under one counter, over all restarts, until the
\* whole space of counters has been gone through once, wherever it started.
NextNonceIsFresh == passed < Space => advCounter \notin sealed
=============================================================================
