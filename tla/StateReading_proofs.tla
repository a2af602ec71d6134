-------------------------- MODULE StateReading_proofs --------------------------
(***************************************************************************)
(* For any number of entries, layouts, values and failures: a revision     *)
(* that is marked read is one whose every value the receiver has.          *)
(***************************************************************************)
EXTENDS StateReading, TLAPS

----------------------------------------------------------------------------
\* What the state is made of.

ReadingTypeOK ==
  /\ value \in [Entries -> Nat] /\ shown \in [Entries -> Nat] /\ values \in [Entries -> Nat]
  /\ revision \in Nat \ {0} /\ advertised \in Nat /\ read \in Nat /\ stamp \in Nat
  /\ build \in Nat /\ declared \in Nat /\ reading \in BOOLEAN
  /\ loop # NoTask => loop \in Turns
  /\ cmd # NoTask => cmd \in Writes

\* The loop and the command read on a connection of their own, each from the
\* first entry on.
OnTheLink ==
  /\ loop # NoTask /\ loop.at = "connected" => link = "loop"
  /\ loop # NoTask /\ loop.at = "waiting" => loop.next = 1
  /\ cmd # NoTask /\ cmd.at # "waiting" => link = "cmd"
  /\ cmd # NoTask /\ cmd.at # "reading" => cmd.next = 1

\* What is read was heard, and a revision that is on air was heard with the
\* layout it is of.
ReadAfterHeard ==
  /\ read <= advertised /\ advertised <= revision
  /\ loop # NoTask => loop.target <= advertised
  /\ cmd # NoTask => cmd.target <= advertised
  /\ advertised = revision => declared = build

Known(e) == e \in WriteOnly \cup doubt \/ values[e] = shown[e]

\* The device shows what it is but for a window that is open.  Whoever reads
\* the revision on air knows the entries it has passed; who has read it knows
\* them all, but for the one that was written and is about to be read back.
ReadIsKnown ==
  /\ ~changing => shown = value
  /\ read = revision =>
       \A e \in Entries : Known(e) \/ (cmd # NoTask /\ cmd.at = "written" /\ cmd.entry = e)
  /\ loop # NoTask /\ loop.at = "connected" /\ loop.target = revision /\ ~loop.failed =>
       \A e \in Entries : e < loop.next => Known(e)
  /\ cmd # NoTask /\ cmd.at = "reading" /\ cmd.target = revision =>
       /\ cmd.skip \in Entries => Known(cmd.skip)
       /\ ~cmd.failed => \A e \in Entries : e < cmd.next => Known(e)

ReadingInv == ReadingTypeOK /\ OnTheLink /\ ReadAfterHeard /\ ReadIsKnown

\* A turn of the loop that waits, at the first attempt or the second.
NewTurns(target, layout) ==
  {Turn(target, layout), [Turn(target, layout) EXCEPT !.attempt = 2]}

LEMMA TurnIsNew ==
  ASSUME NEW target \in Nat, NEW layout \in Nat,
         NEW turn \in NewTurns(target, layout)
  PROVE  turn \in Turns /\ turn.at = "waiting" /\ turn.next = 1 /\ turn.target = target
<1> DEFINE first == Turn(target, layout)
<1>1. first \in Turns /\ first.at = "waiting" /\ first.next = 1 /\ first.target = target
  BY DEF Turn, Turns
<1> HIDE DEF first
<1>2. /\ [first EXCEPT !.attempt = 2] \in Turns
      /\ [first EXCEPT !.attempt = 2].at = first.at
      /\ [first EXCEPT !.attempt = 2].next = first.next
      /\ [first EXCEPT !.attempt = 2].target = first.target
  BY <1>1 DEF Turns
<1>3. turn \in {first, [first EXCEPT !.attempt = 2]}
  BY DEF first, NewTurns
<1> QED
  BY <1>1, <1>2, <1>3

----------------------------------------------------------------------------
\* The device.

LEMMA DeviceKeepsReading ==
  ASSUME ReadingInv,
         \/ \E e \in Entries : Knob(e)
         \/ PublishChange
         \/ \E layout \in Builds : Restart(layout)
  PROVE  ReadingInv'
<1> USE DEF ReadingInv, known, device
<1>1. ASSUME NEW e \in Entries, Knob(e)
      PROVE  ReadingInv'
  <2>1. /\ stamp' = stamp + 1 /\ value' = [value EXCEPT ![e] = stamp'] /\ changing'
        /\ UNCHANGED <<shown, revision, build, declared, advertised, read, backoff, values,
                       reading, loop, cmd, link, doubt>>
    BY <1>1 DEF Knob, NewStamp
  <2>2. ReadingTypeOK'
    BY <2>1 DEF ReadingTypeOK
  <2>3. OnTheLink' /\ ReadAfterHeard'
    BY <2>1 DEF OnTheLink, ReadAfterHeard
  <2>4. ReadIsKnown'
    BY <2>1 DEF ReadIsKnown, Known
  <2> QED
    BY <2>2, <2>3, <2>4
<1>2. ASSUME revision' = revision + 1, build' \in Nat,
             value' \in [Entries -> Nat], shown' = value', stamp' \in Nat,
             UNCHANGED <<declared, advertised, read, values, reading, loop, cmd, link, doubt>>
      PROVE  ReadingInv'
  <2>1. revision \in Nat /\ advertised \in Nat /\ read \in Nat /\ advertised <= revision
        /\ read <= advertised
    BY DEF ReadingTypeOK, ReadAfterHeard
  <2>2. /\ advertised < revision' /\ read < revision'
        /\ loop # NoTask => loop.target \in Nat /\ loop.target < revision'
        /\ cmd # NoTask => cmd.target \in Nat /\ cmd.target < revision'
    BY <1>2, <2>1 DEF ReadingTypeOK, ReadAfterHeard, Turns, Writes
  <2>3. ReadingTypeOK'
    BY <1>2, <2>1 DEF ReadingTypeOK
  <2>4. OnTheLink'
    BY <1>2 DEF OnTheLink
  <2>5. ReadAfterHeard'
    BY <1>2, <2>1, <2>2 DEF ReadAfterHeard
  <2>6. ReadIsKnown'
    BY <1>2, <2>1, <2>2 DEF ReadIsKnown
  <2> QED
    BY <2>3, <2>4, <2>5, <2>6
<1>3. CASE PublishChange
  BY <1>2, <1>3 DEF PublishChange, ReadingTypeOK
<1>4. ASSUME NEW layout \in Builds, Restart(layout)
      PROVE  ReadingInv'
  <2>1. stamp' \in Nat /\ value' = [e \in Entries |-> stamp'] /\ layout \in Nat
    BY <1>4 DEF Restart, NewStamp, ReadingTypeOK, Builds
  <2>2. value' \in [Entries -> Nat]
    BY <2>1
  <2> QED
    BY <1>2, <1>4, <2>1, <2>2 DEF Restart
<1> QED
  BY <1>1, <1>3, <1>4

----------------------------------------------------------------------------
\* What is heard.

\* The loop is as it was, or another turn waits.
LoopIsSetRight(target) ==
  \/ UNCHANGED loop
  \/ loop' = NoTask
  \/ \E layout \in Nat : loop' \in NewTurns(target, layout)

LEMMA SetRightIsNew ==
  ASSUME NEW target \in Nat, LoopIsSetRight(target), loop # NoTask => loop \in Turns
  PROVE  /\ loop' # NoTask => loop' \in Turns
         /\ \/ UNCHANGED loop
            \/ loop' = NoTask
            \/ loop'.at = "waiting" /\ loop'.next = 1 /\ loop'.target = target
<1>1. ASSUME NEW layout \in Nat,
             loop' \in NewTurns(target, layout)
      PROVE  /\ loop' \in Turns
             /\ loop'.at = "waiting" /\ loop'.next = 1 /\ loop'.target = target
  BY <1>1, TurnIsNew
<1> QED
  BY <1>1 DEF LoopIsSetRight

LEMMA HearingKeepsReading ==
  ASSUME ReadingInv, Advertisement \/ BackoffEnds
  PROVE  ReadingInv'
<1> USE DEF ReadingInv
<1>1. CASE BackoffEnds
  <2>1. UNCHANGED <<value, shown, revision, changing, build, declared, advertised, read, values,
                    reading, loop, cmd, link, doubt, stamp>>
    BY <1>1 DEF BackoffEnds, device
  <2> QED
    BY <2>1 DEF ReadingTypeOK, OnTheLink, ReadAfterHeard, ReadIsKnown, Known
<1>2. CASE Advertisement
  <2>1. /\ declared' = build /\ advertised' = revision
        /\ values' = IF declared \notin {Unknown, build} THEN [e \in Entries |-> Unknown]
                                                         ELSE values
        /\ UNCHANGED <<value, shown, revision, changing, build, read, cmd, link, doubt, stamp>>
    BY <1>2 DEF Advertisement, device
  <2>2. LoopIsSetRight(revision) /\ reading' \in BOOLEAN
    BY <1>2 DEF Advertisement, RequestRead, StartTurn, StopLoop, LoopIsSetRight, NewTurns, ReadingTypeOK
  <2>3. /\ loop' # NoTask => loop' \in Turns
        /\ \/ UNCHANGED loop
           \/ loop' = NoTask
           \/ loop'.at = "waiting" /\ loop'.next = 1 /\ loop'.target = revision
    BY <2>2, SetRightIsNew DEF ReadingTypeOK
  <2>4. revision \in Nat /\ advertised \in Nat /\ read \in Nat /\ advertised <= revision
        /\ read <= advertised
    BY DEF ReadingTypeOK, ReadAfterHeard
  <2>5. ReadingTypeOK'
    BY <2>1, <2>2, <2>3 DEF ReadingTypeOK, Unknown
  <2>6. OnTheLink'
    BY <2>1, <2>3 DEF OnTheLink
  <2>7. ReadAfterHeard'
    BY <2>1, <2>3, <2>4 DEF ReadAfterHeard, ReadingTypeOK, Turns, Writes
  <2>8. ReadIsKnown'
    <3>1. advertised = revision => values' = values
      BY <2>1 DEF ReadAfterHeard
    <3>2. read = revision => advertised = revision
      BY <2>4
    <3>3. loop # NoTask /\ loop.target = revision => advertised = revision
      BY <2>4 DEF ReadAfterHeard, ReadingTypeOK, Turns
    <3>4. cmd # NoTask /\ cmd.target = revision => advertised = revision
      BY <2>4 DEF ReadAfterHeard, ReadingTypeOK, Writes
    <3>5. (loop # NoTask /\ loop.at = "connected")' => UNCHANGED loop
      BY <2>3
    <3>6. /\ (~changing => shown = value)'
          /\ (read = revision =>
               \A e \in Entries : Known(e) \/ (cmd # NoTask /\ cmd.at = "written" /\ cmd.entry = e))'
      BY <2>1, <3>1, <3>2 DEF ReadIsKnown, Known
    <3>7. (loop # NoTask /\ loop.at = "connected" /\ loop.target = revision /\ ~loop.failed =>
             \A e \in Entries : e < loop.next => Known(e))'
      BY <2>1, <3>1, <3>3, <3>5 DEF ReadIsKnown, Known
    <3>8. (cmd # NoTask /\ cmd.at = "reading" /\ cmd.target = revision =>
             /\ cmd.skip \in Entries => Known(cmd.skip)
             /\ ~cmd.failed => \A e \in Entries : e < cmd.next => Known(e))'
      BY <2>1, <3>1, <3>4 DEF ReadIsKnown, Known
    <3> QED
      BY <3>6, <3>7, <3>8 DEF ReadIsKnown, Known
  <2> QED
    BY <2>5, <2>6, <2>7, <2>8
<1> QED
  BY <1>1, <1>2

----------------------------------------------------------------------------
\* The read loop.

LEMMA LoopGivesBackTheLink ==
  ASSUME ReadingInv, NEW target \in Nat, target <= advertised, LoopIsSetRight(target),
         loop' = loop => loop = NoTask,
         read' \in Nat, read' <= advertised,
         read' = revision => read = revision \/ \A e \in Entries : Known(e),
         cmd # NoTask /\ cmd.at # "waiting" => link' = "cmd",
         reading' \in BOOLEAN,
         UNCHANGED <<value, shown, revision, changing, build, declared, advertised, values, cmd,
                     doubt, stamp>>
  PROVE  ReadingInv'
<1> USE DEF ReadingInv
<1>1. /\ loop' # NoTask => loop' \in Turns
      /\ \/ loop' = NoTask
         \/ loop'.at = "waiting" /\ loop'.next = 1 /\ loop'.target = target
  BY SetRightIsNew DEF ReadingTypeOK
<1>2. ReadingTypeOK'
  BY <1>1 DEF ReadingTypeOK
<1>3. OnTheLink'
  BY <1>1 DEF OnTheLink
<1>4. ReadAfterHeard'
  BY <1>1 DEF ReadAfterHeard
<1>5. ReadIsKnown'
  BY <1>1 DEF ReadIsKnown, Known
<1> QED
  BY <1>2, <1>3, <1>4, <1>5

\* The turn that has succeeded leaves its revision marked, or starts another.
LEMMA SuccessIsSetRight ==
  ASSUME ReadingInv, loop # NoTask, LoopSucceeds
  PROVE  /\ read' = loop.target /\ read' \in Nat /\ read' <= advertised
         /\ LoopIsSetRight(advertised) /\ (loop' = loop => loop.at = "waiting")
         /\ advertised \in Nat /\ reading' \in BOOLEAN
<1> USE DEF ReadingInv
<1>1. loop \in Turns /\ advertised \in Nat /\ declared \in Nat /\ reading \in BOOLEAN
  BY DEF ReadingTypeOK
<1>2. read' = loop.target /\ read' \in Nat /\ read' <= advertised
  BY <1>1 DEF LoopSucceeds, Turns, ReadAfterHeard
<1>3. LoopIsSetRight(advertised) /\ reading' \in BOOLEAN
  BY <1>1 DEF LoopSucceeds, StartTurn, StopLoop, LoopIsSetRight, NewTurns
<1>4. loop' = NoTask \/ loop' = Turn(advertised, declared)
  BY DEF LoopSucceeds, StartTurn, StopLoop
<1>5. loop' = loop => loop.at = "waiting"
  BY <1>4 DEF Turn
<1> QED
  BY <1>1, <1>2, <1>3, <1>5

LEMMA LoopEntersKeepsReading ==
  ASSUME ReadingInv, LoopEnters
  PROVE  ReadingInv'
<1> USE DEF ReadingInv
<1>1. /\ loop # NoTask /\ loop.at = "waiting" /\ link = "free" /\ loop \in Turns
      /\ UNCHANGED <<value, shown, revision, changing, build, declared, advertised, values, cmd,
                     doubt, stamp>>
  BY DEF LoopEnters, device, ReadingTypeOK
<1>2. loop.next = 1 /\ (cmd # NoTask => cmd.at = "waiting")
  BY <1>1 DEF OnTheLink
<1>3. CASE RevisionIsRead
  <2>1. LoopSucceeds /\ link' = link
    BY <1>3 DEF LoopEnters
  <2>2. /\ read' = loop.target /\ read' \in Nat /\ read' <= advertised
        /\ LoopIsSetRight(advertised) /\ reading' \in BOOLEAN
        /\ advertised \in Nat /\ read = advertised /\ revision \in Nat /\ advertised <= revision
    BY <1>1, <1>3, <2>1, SuccessIsSetRight DEF RevisionIsRead, ReadingTypeOK, ReadAfterHeard
  <2>3. read' = revision => read = revision
    BY <2>2
  <2>4. /\ loop' # NoTask => loop' \in Turns
        /\ \/ UNCHANGED loop
           \/ loop' = NoTask
           \/ loop'.at = "waiting" /\ loop'.next = 1 /\ loop'.target = advertised
    BY <2>2, SetRightIsNew DEF ReadingTypeOK
  <2>5. ReadingTypeOK'
    BY <1>1, <2>2, <2>4 DEF ReadingTypeOK
  <2>6. OnTheLink'
    BY <1>1, <1>2, <2>4 DEF OnTheLink
  <2>7. ReadAfterHeard'
    BY <1>1, <2>2, <2>4 DEF ReadAfterHeard
  <2>8. ReadIsKnown'
    BY <1>1, <2>2, <2>3, <2>4 DEF ReadIsKnown, Known
  <2> QED
    BY <2>5, <2>6, <2>7, <2>8
<1>4. CASE ~RevisionIsRead
  <2>1. /\ loop' = [loop EXCEPT !.at = "connected"] /\ link' = "loop"
        /\ UNCHANGED <<read, reading>>
    BY <1>4 DEF LoopEnters
  <2>2. loop' \in Turns /\ loop'.next = 1 /\ loop'.target = loop.target /\ loop'.at = "connected"
    BY <1>1, <1>2, <2>1 DEF Turns
  <2>3. ReadingTypeOK'
    BY <1>1, <2>1, <2>2 DEF ReadingTypeOK
  <2>4. OnTheLink'
    BY <1>1, <1>2, <2>1, <2>2 DEF OnTheLink
  <2>5. ReadAfterHeard'
    BY <1>1, <2>1, <2>2 DEF ReadAfterHeard
  <2>6. ReadIsKnown'
    <3>1. \A e \in Entries : ~(e < 1)
      BY DEF Entries
    <3> QED
      BY <1>1, <2>1, <2>2, <3>1 DEF ReadIsKnown, Known
  <2> QED
    BY <2>3, <2>4, <2>5, <2>6
<1> QED
  BY <1>3, <1>4

\* One entry more is read, or is not.
LEMMA LoopReadsKeepsReading ==
  ASSUME ReadingInv, LoopReads \/ LoopReadRefused
  PROVE  ReadingInv'
<1> USE DEF ReadingInv
<1>1. /\ loop # NoTask /\ loop.at = "connected" /\ loop.next <= Last
      /\ loop \in Turns /\ loop.next \in Entries
      /\ UNCHANGED <<value, shown, revision, changing, build, declared, advertised, read, reading,
                     cmd, link, stamp>>
  <2>1. loop # NoTask /\ loop.at = "connected" /\ loop.next <= Last /\ loop \in Turns
    BY DEF LoopReads, LoopReadRefused, ReadingTypeOK
  <2>2. loop.next \in Entries
    BY <2>1, LastAssumption DEF Turns, Entries
  <2> QED
    BY <2>1, <2>2 DEF LoopReads, LoopReadRefused, device, known
<1>2. link = "loop" /\ (cmd # NoTask => cmd.at = "waiting")
  BY <1>1 DEF OnTheLink
<1>n. PICK n \in Entries : n = loop.next
  BY <1>1
<1>3. /\ loop' \in Turns /\ loop'.next = n + 1 /\ loop'.target = loop.target
      /\ loop'.at = "connected" /\ (~loop'.failed => ~loop.failed /\ LoopReads)
  <2>1. n + 1 \in Nat \ {0}
    BY <1>1, <1>n DEF Turns
  <2>2. \/ LoopReads /\ loop' = [loop EXCEPT !.next = n + 1]
        \/ LoopReadRefused /\ loop' = [loop EXCEPT !.next = n + 1, !.failed = TRUE]
    BY <1>n DEF LoopReads, LoopReadRefused
  <2>3. CASE loop' = [loop EXCEPT !.next = n + 1] /\ LoopReads
    BY <1>1, <2>1, <2>3 DEF Turns
  <2>4. CASE loop' = [loop EXCEPT !.next = n + 1, !.failed = TRUE] /\ LoopReadRefused
    BY <1>1, <2>1, <2>4 DEF Turns
  <2> QED
    BY <2>2, <2>3, <2>4
<1>4. /\ \A e \in Entries : Known(e) => Known(e)'
      /\ LoopReads => Known(n)'
      /\ values' \in [Entries -> Nat]
  <2>1. values \in [Entries -> Nat] /\ shown \in [Entries -> Nat]
    BY DEF ReadingTypeOK
  <2>2. CASE UNCHANGED <<values, doubt>> /\ (LoopReads => n \in WriteOnly)
    BY <1>1, <2>1, <2>2 DEF Known
  <2>3. CASE values' = [values EXCEPT ![n] = shown[n]] /\ doubt' = doubt \ {n}
    <3>1. /\ values' \in [Entries -> Nat] /\ values'[n] = shown[n]
          /\ \A e \in Entries \ {n} : values'[e] = values[e]
      BY <2>1, <2>3
    <3> QED
      BY <1>1, <2>3, <3>1 DEF Known
  <2>4. LoopReads => ReadEntry(n)
    BY <1>n DEF LoopReads
  <2> QED
    BY <2>2, <2>3, <2>4 DEF ReadEntry, LoopReadRefused, known
<1>5. ReadingTypeOK'
  BY <1>1, <1>3, <1>4 DEF ReadingTypeOK
<1>6. OnTheLink'
  BY <1>1, <1>2, <1>3 DEF OnTheLink
<1>7. ReadAfterHeard'
  BY <1>1, <1>3 DEF ReadAfterHeard
<1>8. ReadIsKnown'
  <2>1. \A e \in Entries : e < n + 1 => e < n \/ e = n
    BY <1>1 DEF Entries
  <2>2. (loop.target = revision /\ ~loop.failed)' => \A e \in Entries : e < n + 1 => Known(e)'
    BY <1>1, <1>n, <1>3, <1>4, <2>1 DEF ReadIsKnown
  <2>3. (read = revision)' => \A e \in Entries : Known(e)'
    BY <1>1, <1>2, <1>4 DEF ReadIsKnown
  <2> QED
    BY <1>1, <1>n, <1>2, <1>3, <2>2, <2>3 DEF ReadIsKnown, Known
<1> QED
  BY <1>5, <1>6, <1>7, <1>8

LEMMA LoopLeavesKeepsReading ==
  ASSUME ReadingInv, LoopMeetsAnother \/ LoopBreaks \/ LoopEnds
  PROVE  ReadingInv'
<1> USE DEF ReadingInv
<1>1. /\ loop # NoTask /\ loop.at = "connected" /\ loop \in Turns /\ link' = "free"
      /\ UNCHANGED <<value, shown, revision, changing, build, declared, advertised, values, cmd,
                     doubt, stamp>>
  BY DEF LoopMeetsAnother, LoopBreaks, LoopEnds, device, ReadingTypeOK
<1>2. /\ link = "loop" /\ (cmd # NoTask => cmd.at = "waiting")
      /\ loop.target \in Nat /\ loop.target <= advertised /\ advertised \in Nat /\ read \in Nat
      /\ read <= advertised /\ reading \in BOOLEAN /\ loop.layout \in Nat
  BY <1>1 DEF OnTheLink, ReadAfterHeard, ReadingTypeOK, Turns
<1>3. CASE LoopFails
  <2>1. loop' = NoTask /\ read' = read /\ reading' = FALSE
    BY <1>3 DEF LoopFails, StopLoop
  <2> QED
    BY <1>1, <1>2, <2>1, LoopGivesBackTheLink DEF LoopIsSetRight
<1>4. CASE TableIsStale
  <2>1. CASE loop.attempt = 1
    <3>1. /\ loop' = [Turn(loop.target, loop.layout) EXCEPT !.attempt = 2]
          /\ UNCHANGED <<read, reading>>
      BY <1>4, <2>1 DEF TableIsStale
    <3>2. loop' \in NewTurns(loop.target, loop.layout)
      BY <3>1 DEF NewTurns
    <3>3. loop'.at = "waiting"
      BY <1>2, <3>2, TurnIsNew
    <3> QED
      BY <1>1, <1>2, <3>1, <3>2, <3>3, LoopGivesBackTheLink DEF LoopIsSetRight
  <2> QED
    BY <1>3, <1>4, <2>1 DEF TableIsStale
<1>5. CASE LoopEnds /\ LoopSucceeds /\ ~loop.failed
  <2>1. /\ read' = loop.target /\ read' \in Nat /\ read' <= advertised
        /\ LoopIsSetRight(advertised) /\ (loop' = loop => loop.at = "waiting")
        /\ reading' \in BOOLEAN
    BY <1>1, <1>5, SuccessIsSetRight
  <2>2. \A e \in Entries : e < loop.next
    BY <1>1, <1>5, LastAssumption DEF LoopEnds, Entries, Turns
  <2>3. read' = revision => \A e \in Entries : Known(e)
    BY <1>1, <1>5, <2>1, <2>2 DEF ReadIsKnown
  <2> QED
    BY <1>1, <1>2, <2>1, <2>3, LoopGivesBackTheLink
<1> QED
  BY <1>3, <1>4, <1>5 DEF LoopMeetsAnother, LoopBreaks, LoopEnds

----------------------------------------------------------------------------
\* A command.

\* While a command is connected the loop is not; with the link it gives back
\* what it has left known, or in doubt.
LEMMA CommandGivesBackTheLink ==
  ASSUME ReadingInv, cmd # NoTask, cmd.at # "waiting", cmd' = NoTask,
         UNCHANGED <<revision, changing, build, declared, advertised, loop, stamp>>,
         value' \in [Entries -> Nat], shown' \in [Entries -> Nat], values' \in [Entries -> Nat],
         reading' \in BOOLEAN, ~changing => shown' = value',
         read' \in Nat, read' <= advertised, read' = revision => \A e \in Entries : Known(e)'
  PROVE  ReadingInv'
<1> USE DEF ReadingInv
<1>1. loop # NoTask => loop.at # "connected"
  BY DEF OnTheLink
<1>2. ReadingTypeOK'
  BY DEF ReadingTypeOK
<1>3. OnTheLink'
  BY <1>1 DEF OnTheLink
<1>4. ReadAfterHeard'
  BY DEF ReadAfterHeard
<1>5. ReadIsKnown'
  BY <1>1 DEF ReadIsKnown, Known
<1> QED
  BY <1>2, <1>3, <1>4, <1>5

LEMMA CommandBeginsKeepsReading ==
  ASSUME ReadingInv, (\E e \in Entries : Command(e)) \/ CommandEnters
  PROVE  ReadingInv'
<1> USE DEF ReadingInv
<1>1. /\ UNCHANGED <<value, shown, revision, changing, build, declared, advertised, read, values,
                     reading, loop, doubt>>
      /\ cmd' # NoTask => cmd' \in Writes /\ cmd'.at \in {"waiting", "connected"} /\ cmd'.next = 1
                          /\ cmd'.target <= advertised /\ (cmd'.at = "connected" => link' = "cmd")
      /\ loop # NoTask /\ loop.at = "connected" => link' = "loop"
      /\ stamp' \in Nat /\ (cmd # NoTask => cmd.at # "written")
  <2>1. ASSUME NEW e \in Entries, Command(e)
        PROVE  <1>1!:
    <3>1. /\ UNCHANGED <<value, shown, revision, changing, build, declared, advertised, read,
                         values, reading, loop, doubt, link>>
          /\ cmd = NoTask /\ stamp' = stamp + 1
          /\ cmd' = [at |-> "waiting", entry |-> e, wrote |-> stamp', previous |-> values[e],
                     layout |-> declared, target |-> Unknown, next |-> 1, skip |-> Unknown,
                     failed |-> FALSE, wasReading |-> FALSE]
      BY <2>1 DEF Command, NewStamp, device, known
    <3>2. /\ stamp' \in Nat /\ values[e] \in Nat /\ declared \in Nat /\ advertised \in Nat
          /\ Unknown \in Nat /\ Unknown <= advertised
      BY <3>1 DEF ReadingTypeOK, Unknown
    <3>3. cmd' \in Writes /\ cmd'.at = "waiting" /\ cmd'.next = 1 /\ cmd'.target <= advertised
      BY <3>1, <3>2 DEF Writes
    <3> QED
      BY <3>1, <3>2, <3>3 DEF OnTheLink
  <2>2. ASSUME CommandEnters
        PROVE  <1>1!:
    <3>1. /\ UNCHANGED <<value, shown, revision, changing, build, declared, advertised, read,
                         values, reading, loop, doubt, stamp>>
          /\ cmd # NoTask /\ cmd.at = "waiting" /\ link = "free" /\ cmd \in Writes
          /\ cmd' = [cmd EXCEPT !.at = "connected"] /\ link' = "cmd"
      BY <2>2 DEF CommandEnters, device, known, ReadingTypeOK
    <3>2. /\ cmd' \in Writes /\ cmd'.at = "connected" /\ cmd'.next = cmd.next
          /\ cmd'.target = cmd.target
      BY <3>1 DEF Writes
    <3> QED
      BY <3>1, <3>2 DEF OnTheLink, ReadAfterHeard, ReadingTypeOK
  <2> QED
    BY <2>1, <2>2
<1>2. ReadingTypeOK'
  BY <1>1 DEF ReadingTypeOK
<1>3. OnTheLink'
  BY <1>1 DEF OnTheLink
<1>4. ReadAfterHeard'
  BY <1>1 DEF ReadAfterHeard
<1>5. ReadIsKnown'
  BY <1>1 DEF ReadIsKnown, Known
<1> QED
  BY <1>2, <1>3, <1>4, <1>5

\* What a write on its way does to the device: the other entries are as they
\* were.
LEMMA ApplyFacts ==
  ASSUME ReadingInv, NEW e \in Entries, NEW v \in Nat, Apply(e, v)
  PROVE  /\ value' \in [Entries -> Nat] /\ shown' \in [Entries -> Nat]
         /\ \A d \in Entries \ {e} : shown'[d] = shown[d]
         /\ ~changing => shown' = value'
         /\ UNCHANGED <<revision, changing, build>>
  BY DEF Apply, ReadingInv, ReadingTypeOK, ReadIsKnown

LEMMA CommandWritesKeepsReading ==
  ASSUME ReadingInv, CommandWrites
  PROVE  ReadingInv'
<1> USE DEF ReadingInv
<1>1. /\ cmd # NoTask /\ cmd.at = "connected" /\ cmd \in Writes /\ cmd.entry \in Entries
      /\ cmd.wrote \in Nat
      /\ cmd' = [cmd EXCEPT !.at = "written"]
      /\ UNCHANGED <<declared, advertised, read, values, reading, loop, link, doubt>>
  BY DEF CommandWrites, known, ReadingTypeOK, Writes
<1>2. /\ cmd' \in Writes /\ cmd'.at = "written" /\ cmd'.entry = cmd.entry /\ cmd'.next = cmd.next
      /\ cmd'.target = cmd.target
  BY <1>1 DEF Writes
<1>3. /\ value' \in [Entries -> Nat] /\ shown' \in [Entries -> Nat]
      /\ \A d \in Entries \ {cmd.entry} : shown'[d] = shown[d]
      /\ ~changing => shown' = value'
      /\ UNCHANGED <<revision, changing, build>> /\ stamp' \in Nat
  <2>1. stamp' = stamp \/ stamp' = stamp + 1
    BY DEF CommandWrites, NewStamp
  <2>2. stamp' \in Nat
    BY <2>1 DEF ReadingTypeOK
  <2>3. CASE Apply(cmd.entry, cmd.wrote)
    BY <1>1, <2>2, <2>3, ApplyFacts
  <2>4. CASE Apply(cmd.entry, stamp')
    BY <1>1, <2>2, <2>4, ApplyFacts
  <2>5. CASE UNCHANGED device
    BY <2>2, <2>5 DEF device, ReadingTypeOK, ReadIsKnown
  <2> QED
    BY <2>3, <2>4, <2>5 DEF CommandWrites
<1>4. loop # NoTask => loop.at # "connected"
  BY <1>1 DEF OnTheLink
<1>5. ReadingTypeOK'
  BY <1>1, <1>2, <1>3 DEF ReadingTypeOK
<1>6. OnTheLink'
  BY <1>1, <1>2, <1>4 DEF OnTheLink
<1>7. ReadAfterHeard'
  BY <1>1, <1>2, <1>3 DEF ReadAfterHeard
<1>8. ReadIsKnown'
  <2>1. \A d \in Entries \ {cmd.entry} : Known(d) => Known(d)'
    BY <1>1, <1>3 DEF Known
  <2>2. (read = revision)' => \A d \in Entries : d # cmd.entry => Known(d)'
    BY <1>1, <1>3, <2>1 DEF ReadIsKnown
  <2>3. (read = revision)' =>
          \A d \in Entries : Known(d)' \/ (cmd # NoTask /\ cmd.at = "written" /\ cmd.entry = d)'
    <3>1. cmd' # NoTask
      BY <1>2, NoTaskAssumption
    <3> QED
      BY <1>2, <2>2, <3>1
  <2> QED
    BY <1>1, <1>2, <1>3, <1>4, <2>3 DEF ReadIsKnown, Known
<1> QED
  BY <1>5, <1>6, <1>7, <1>8

\* The value that is read back, or taken from the command for want of one,
\* is known, or in doubt.
LEMMA SettledIsKnown ==
  ASSUME ReadingInv, cmd # NoTask, UNCHANGED shown, NEW entry \in Entries, entry = cmd.entry,
         NEW reported \in {shown[cmd.entry], Unknown}, ReadBack(reported), Settle(reported)
  PROVE  /\ values' \in [Entries -> Nat]
         /\ Known(entry)' /\ \A e \in Entries : Known(e) => Known(e)'
<1> USE DEF ReadingInv
<1>1. /\ cmd.wrote \in Nat /\ values \in [Entries -> Nat] /\ shown[entry] \in Nat
      /\ reported \in Nat /\ Unknown \in Nat
  BY DEF ReadingTypeOK, Writes, Unknown
<1>2. CASE entry \in Events
  <2>1. values' = values /\ doubt' = doubt \cup ({entry} \ WriteOnly)
    BY <1>2 DEF Settle
  <2>2. Known(entry)' /\ \A e \in Entries : Known(e) => Known(e)'
    BY <2>1 DEF Known
  <2> QED
    BY <1>1, <2>1, <2>2
<1>3. CASE entry \notin Events /\ SaysNothing(reported)
  <2>1. /\ values' = [values EXCEPT ![entry] = cmd.wrote]
        /\ doubt' = doubt \cup ({entry} \ WriteOnly)
    BY <1>3 DEF Settle
  <2>2. Known(entry)' /\ \A e \in Entries : Known(e) => Known(e)'
    BY <1>1, <2>1 DEF Known
  <2> QED
    BY <1>1, <2>1, <2>2
<1>4. CASE entry \notin Events /\ ~SaysNothing(reported)
  <2>1. reported = shown[entry]
    BY <1>4 DEF SaysNothing
  <2>2. values' = [values EXCEPT ![entry] = reported] /\ doubt' = doubt \ {entry}
    BY <1>4 DEF Settle
  <2>3. Known(entry)' /\ \A e \in Entries : Known(e) => Known(e)'
    BY <1>1, <2>1, <2>2 DEF Known
  <2> QED
    BY <1>1, <2>2, <2>3
<1> QED
  BY <1>2, <1>3, <1>4

LEMMA CommandReadsBackKeepsReading ==
  ASSUME ReadingInv, CommandReadsBack
  PROVE  ReadingInv'
<1> USE DEF ReadingInv
<1>1. /\ cmd # NoTask /\ cmd.at = "written" /\ cmd \in Writes /\ cmd.entry \in Entries
      /\ UNCHANGED <<value, shown, revision, changing, build, declared, advertised, read, loop,
                     stamp>>
  BY DEF CommandReadsBack, device, ReadingTypeOK, Writes
<1>n. PICK entry \in Entries : entry = cmd.entry
  BY <1>1
<1>2. /\ values' \in [Entries -> Nat]
      /\ Known(entry)' /\ \A e \in Entries : Known(e) => Known(e)'
  BY <1>1, <1>n, SettledIsKnown DEF CommandReadsBack
<1>3. read = revision => \A e \in Entries : Known(e)'
  BY <1>1, <1>n, <1>2 DEF ReadIsKnown
<1>4. CASE ReadIsDue
  <2>1. PICK reported \in {shown[cmd.entry], Unknown} :
          /\ cmd' = [cmd EXCEPT !.at = "reading", !.target = advertised, !.layout = declared,
                                !.skip = IF reported = Unknown THEN Unknown ELSE cmd.entry,
                                !.wasReading = reading]
          /\ reading' = TRUE /\ link' = link
    BY <1>4 DEF CommandReadsBack
  <2> DEFINE skip == IF reported = Unknown THEN Unknown ELSE cmd.entry
  <2>2. skip \in Nat /\ (skip = entry \/ skip \notin Entries)
    BY <1>1, <1>n DEF Unknown, Entries
  <2> HIDE DEF skip
  <2>3. advertised \in Nat /\ declared \in Nat /\ reading \in BOOLEAN /\ cmd.next = 1
    BY <1>1 DEF ReadingTypeOK, OnTheLink
  <2>4. cmd' = [cmd EXCEPT !.at = "reading", !.target = advertised, !.layout = declared,
                           !.skip = skip, !.wasReading = reading]
    BY <2>1 DEF skip
  <2>5. /\ cmd' \in Writes /\ cmd'.at = "reading" /\ cmd'.next = 1
        /\ cmd'.target = advertised /\ cmd'.skip = skip
    BY <1>1, <2>2, <2>3, <2>4 DEF Writes
  <2>6. link = "cmd" /\ (loop # NoTask => loop.at # "connected")
    BY <1>1 DEF OnTheLink
  <2>7. ReadingTypeOK'
    BY <1>1, <1>2, <2>1, <2>5 DEF ReadingTypeOK
  <2>8. OnTheLink'
    BY <1>1, <2>1, <2>5, <2>6 DEF OnTheLink
  <2>9. ReadAfterHeard'
    BY <1>1, <2>3, <2>5 DEF ReadAfterHeard
  <2>10. ReadIsKnown'
    <3>1. cmd'.skip \in Entries => Known(cmd.skip)'
      BY <1>2, <2>2, <2>5 DEF Known
    <3>2. \A e \in Entries : ~(e < 1)
      BY DEF Entries
    <3> QED
      BY <1>1, <1>3, <2>5, <2>6, <3>1, <3>2 DEF ReadIsKnown, Known
  <2> QED
    BY <2>7, <2>8, <2>9, <2>10
<1>5. CASE ~ReadIsDue
  <2>1. cmd' = NoTask /\ reading' = reading
    BY <1>5 DEF CommandReadsBack
  <2>2. /\ value \in [Entries -> Nat] /\ shown \in [Entries -> Nat] /\ reading \in BOOLEAN
        /\ read \in Nat /\ read <= advertised /\ (~changing => shown = value)
    BY DEF ReadingTypeOK, ReadAfterHeard, ReadIsKnown
  <2> QED
    BY <1>1, <1>2, <1>3, <2>1, <2>2, CommandGivesBackTheLink
<1> QED
  BY <1>4, <1>5

\* One entry more of the folded read is read, passed over or refused.
LEMMA CommandReadsKeepsReading ==
  ASSUME ReadingInv, CommandReads \/ CommandReadRefused
  PROVE  ReadingInv'
<1> USE DEF ReadingInv
<1>1. /\ cmd # NoTask /\ cmd.at = "reading" /\ cmd \in Writes /\ cmd.next \in Entries
      /\ UNCHANGED <<value, shown, revision, changing, build, declared, advertised, read, reading,
                     loop, link, stamp>>
  <2>1. cmd # NoTask /\ cmd.at = "reading" /\ cmd.next <= Last /\ cmd \in Writes
    BY DEF CommandReads, CommandReadRefused, ReadingTypeOK
  <2>2. cmd.next \in Entries
    BY <2>1, LastAssumption DEF Writes, Entries
  <2> QED
    BY <2>1, <2>2 DEF CommandReads, CommandReadRefused, device, known
<1>2. link = "cmd" /\ (loop # NoTask => loop.at # "connected")
  BY <1>1 DEF OnTheLink
<1>n. PICK n \in Entries : n = cmd.next
  BY <1>1
<1>3. /\ cmd' \in Writes /\ cmd'.next = n + 1 /\ cmd'.target = cmd.target /\ cmd'.skip = cmd.skip
      /\ cmd'.at = "reading" /\ (~cmd'.failed => ~cmd.failed /\ CommandReads)
  <2>1. n + 1 \in Nat \ {0}
    BY <1>1, <1>n DEF Writes
  <2>2. \/ CommandReads /\ cmd' = [cmd EXCEPT !.next = n + 1]
        \/ CommandReadRefused /\ cmd' = [cmd EXCEPT !.next = n + 1, !.failed = TRUE]
    BY <1>n DEF CommandReads, CommandReadRefused
  <2>3. CASE cmd' = [cmd EXCEPT !.next = n + 1] /\ CommandReads
    BY <1>1, <2>1, <2>3 DEF Writes
  <2>4. CASE cmd' = [cmd EXCEPT !.next = n + 1, !.failed = TRUE] /\ CommandReadRefused
    BY <1>1, <2>1, <2>4 DEF Writes
  <2> QED
    BY <2>2, <2>3, <2>4
<1>4. /\ \A e \in Entries : Known(e) => Known(e)'
      /\ values' \in [Entries -> Nat]
      /\ CommandReads => n = cmd.skip \/ Known(n)'
  <2>1. values \in [Entries -> Nat] /\ shown \in [Entries -> Nat]
    BY DEF ReadingTypeOK
  <2>2. CASE UNCHANGED <<values, doubt>> /\ (CommandReads => n = cmd.skip \/ n \in WriteOnly)
    BY <1>1, <2>1, <2>2 DEF Known
  <2>3. CASE values' = [values EXCEPT ![n] = shown[n]] /\ doubt' = doubt \ {n}
    <3>1. /\ values' \in [Entries -> Nat] /\ values'[n] = shown[n]
          /\ \A e \in Entries \ {n} : values'[e] = values[e]
      BY <2>1, <2>3
    <3> QED
      BY <1>1, <2>3, <3>1 DEF Known
  <2>4. CommandReads => ReadEntry(n) \/ (n = cmd.skip /\ UNCHANGED <<values, doubt>>)
    BY <1>n DEF CommandReads
  <2> QED
    BY <2>2, <2>3, <2>4 DEF ReadEntry, CommandReadRefused, known
<1>5. ReadingTypeOK'
  BY <1>1, <1>3, <1>4 DEF ReadingTypeOK
<1>6. OnTheLink'
  BY <1>1, <1>2, <1>3 DEF OnTheLink
<1>7. ReadAfterHeard'
  BY <1>1, <1>3 DEF ReadAfterHeard
<1>8. ReadIsKnown'
  <2>1. \A e \in Entries : e < n + 1 => e < n \/ e = n
    BY <1>1 DEF Entries
  <2>s. cmd.target = revision => \A e \in Entries : e = cmd.skip => Known(e)'
    BY <1>1, <1>4 DEF ReadIsKnown
  <2>2. (cmd.target = revision /\ ~cmd.failed)' => \A e \in Entries : e < n + 1 => Known(e)'
    BY <1>1, <1>n, <1>3, <1>4, <2>1, <2>s DEF ReadIsKnown
  <2>3. (read = revision)' => \A e \in Entries : Known(e)'
    BY <1>1, <1>4 DEF ReadIsKnown
  <2>4. (cmd.target = revision)' => (cmd'.skip \in Entries => Known(cmd.skip)')
    BY <1>1, <1>3, <2>s DEF Known
  <2> QED
    BY <1>1, <1>n, <1>2, <1>3, <2>2, <2>3, <2>4 DEF ReadIsKnown, Known
<1> QED
  BY <1>5, <1>6, <1>7, <1>8

LEMMA CommandLeavesKeepsReading ==
  ASSUME ReadingInv, CommandEnds \/ CommandReadBreaks \/ CommandReadMeetsAnother
  PROVE  ReadingInv'
<1> USE DEF ReadingInv
<1>1. /\ cmd # NoTask /\ cmd.at = "reading" /\ cmd \in Writes /\ cmd' = NoTask
      /\ reading' = cmd.wasReading
      /\ UNCHANGED <<value, shown, revision, changing, build, declared, advertised, values, loop,
                     doubt, stamp>>
  BY DEF CommandEnds, CommandReadBreaks, CommandReadMeetsAnother, FoldedReadBreaks, LeaveTheLink,
         device, ReadingTypeOK
<1>2. /\ value' \in [Entries -> Nat] /\ shown' \in [Entries -> Nat] /\ values' \in [Entries -> Nat]
      /\ reading' \in BOOLEAN /\ read \in Nat /\ read <= advertised /\ (~changing => shown' = value')
      /\ cmd.target \in Nat /\ cmd.target <= advertised
  BY <1>1 DEF ReadingTypeOK, ReadAfterHeard, ReadIsKnown, Writes
<1>3. read = revision => \A e \in Entries : Known(e)'
  BY <1>1 DEF ReadIsKnown, Known
<1>4. CASE read' = read
  BY <1>1, <1>2, <1>3, <1>4, CommandGivesBackTheLink
<1>5. CASE CommandEnds /\ ~cmd.failed /\ read' = cmd.target
  <2>1. \A e \in Entries : e < cmd.next
    BY <1>1, <1>5, LastAssumption DEF CommandEnds, Entries, Writes
  <2>2. read' = revision => \A e \in Entries : Known(e)'
    BY <1>1, <1>5, <2>1 DEF ReadIsKnown, Known
  <2> QED
    BY <1>1, <1>2, <1>5, <2>2, CommandGivesBackTheLink
<1> QED
  BY <1>4, <1>5 DEF CommandEnds, CommandReadBreaks, CommandReadMeetsAnother, FoldedReadBreaks

\* A command that fails, or whose answer is of another object, leaves the
\* entry it wrote in doubt if the write may have landed.
LEMMA CommandFailsKeepsReading ==
  ASSUME ReadingInv, CommandMeetsAnother \/ CommandFails
  PROVE  ReadingInv'
<1> USE DEF ReadingInv
<1>1. /\ cmd # NoTask /\ cmd.at \in {"connected", "written"} /\ cmd \in Writes /\ cmd' = NoTask
      /\ cmd.entry \in Entries /\ cmd.wrote \in Nat
      /\ UNCHANGED <<declared, advertised, read, values, reading, loop, stamp>>
  BY DEF CommandMeetsAnother, CommandFails, known, ReadingTypeOK, Writes
<1>n. PICK entry \in Entries : entry = cmd.entry
  BY <1>1
<1>2. /\ values' \in [Entries -> Nat] /\ reading' \in BOOLEAN /\ read' \in Nat
      /\ read' <= advertised
  BY <1>1 DEF ReadingTypeOK, ReadAfterHeard
<1>3. /\ value' \in [Entries -> Nat] /\ shown' \in [Entries -> Nat]
      /\ ~changing => shown' = value'
      /\ UNCHANGED <<revision, changing, build>>
      /\ \A e \in Entries : Known(e) => Known(e)'
      /\ cmd.at = "written" => Known(entry)'
  <2>1. CASE UNCHANGED device /\ doubt \subseteq doubt'
             /\ (cmd.at = "written" => {entry} \ WriteOnly \subseteq doubt')
    BY <1>1, <2>1 DEF device, ReadingTypeOK, ReadIsKnown, Known
  <2>2. CASE Apply(cmd.entry, cmd.wrote) /\ doubt' = doubt \cup {entry}
    <3>1. /\ value' \in [Entries -> Nat] /\ shown' \in [Entries -> Nat]
          /\ \A d \in Entries \ {entry} : shown'[d] = shown[d]
          /\ ~changing => shown' = value'
          /\ UNCHANGED <<revision, changing, build>>
      BY <1>1, <1>n, <2>2, ApplyFacts
    <3> QED
      BY <1>1, <2>2, <3>1 DEF Known
  <2> QED
    BY <1>n, <2>1, <2>2 DEF CommandMeetsAnother, CommandFails
<1>4. read' = revision => \A e \in Entries : Known(e)'
  BY <1>1, <1>n, <1>3 DEF ReadIsKnown
<1> QED
  BY <1>1, <1>2, <1>3, <1>4, CommandGivesBackTheLink

----------------------------------------------------------------------------
LEMMA InitIsReading == Init => ReadingInv
<1> SUFFICES ASSUME Init
             PROVE  ReadingInv
  OBVIOUS
<1>1. ReadingTypeOK
  <2>1. value \in [Entries -> Nat] /\ shown \in [Entries -> Nat] /\ values \in [Entries -> Nat]
    <3>1. value = [e \in Entries |-> 1] /\ shown = value /\ values = [e \in Entries |-> 0]
      BY DEF Init, Unknown
    <3>2. value \in [Entries -> Nat]
      BY <3>1
    <3>3. values \in [Entries -> Nat]
      BY <3>1
    <3> QED
      BY <3>1, <3>2, <3>3
  <2>2. /\ revision \in Nat \ {0} /\ advertised \in Nat /\ read \in Nat /\ stamp \in Nat
        /\ build \in Nat /\ declared \in Nat /\ reading \in BOOLEAN
        /\ loop = NoTask /\ cmd = NoTask
    <3>1. revision = 1 /\ advertised = 0 /\ read = 0 /\ stamp = 1 /\ build = 1 /\ declared = 0
      BY Zenon DEF Init, Unknown
    <3>2. reading \in BOOLEAN /\ loop = NoTask /\ cmd = NoTask
      BY Zenon DEF Init
    <3>3. revision \in Nat \ {0} /\ advertised \in Nat /\ read \in Nat /\ stamp \in Nat
          /\ build \in Nat /\ declared \in Nat
      BY <3>1
    <3> QED
      BY <3>2, <3>3
  <2> QED
    BY <2>1, <2>2 DEF ReadingTypeOK
<1>2. OnTheLink /\ ReadAfterHeard /\ ReadIsKnown
  BY DEF Init, OnTheLink, ReadAfterHeard, ReadIsKnown, Unknown
<1> QED
  BY <1>1, <1>2 DEF ReadingInv

LEMMA StepKeepsReading == ReadingInv /\ [Next]_vars => ReadingInv'
<1> SUFFICES ASSUME ReadingInv, [Next]_vars
             PROVE  ReadingInv'
  OBVIOUS
<1>1. CASE UNCHANGED vars
  <2>1. UNCHANGED <<value, shown, revision, changing, build, declared, advertised, read, values,
                    reading, loop, cmd, link, doubt, stamp>>
    BY <1>1 DEF vars, device, known
  <2> QED
    BY <2>1 DEF ReadingInv, ReadingTypeOK, OnTheLink, ReadAfterHeard, ReadIsKnown, Known
<1>2. CASE (\E e \in Entries : Knob(e)) \/ (\E layout \in Builds : Restart(layout)) \/ PublishChange
  BY <1>2, DeviceKeepsReading
<1>3. CASE Advertisement \/ BackoffEnds
  BY <1>3, HearingKeepsReading
<1>4. CASE LoopSteps \/ LoopReadRefused \/ LoopBreaks
  BY <1>4, LoopEntersKeepsReading, LoopReadsKeepsReading, LoopLeavesKeepsReading DEF LoopSteps
<1>5. CASE (\E e \in Entries : Command(e)) \/ CommandEnters
  BY <1>5, CommandBeginsKeepsReading
<1>6. CASE CommandWrites \/ CommandReadsBack \/ CommandMeetsAnother \/ CommandFails
  BY <1>6, CommandWritesKeepsReading, CommandReadsBackKeepsReading, CommandFailsKeepsReading
<1>7. CASE \/ CommandReads \/ CommandReadRefused
           \/ CommandReadMeetsAnother \/ CommandReadBreaks \/ CommandEnds
  BY <1>7, CommandReadsKeepsReading, CommandLeavesKeepsReading
<1> QED
  BY <1>1, <1>2, <1>3, <1>4, <1>5, <1>6, <1>7 DEF Next, CommandSteps

\* Whatever fails, and in whatever order the loop, the commands and the device
\* take their steps: when nothing is under way and the revision on air is
\* marked read, every entry that can be read and is not in doubt has the value
\* the device has (_read_loop, _read_due_here, _settle_written_value).
THEOREM ReadRevisionsAreKnown == Spec => []ReadMeansKnown
<1>1. ReadingInv => ReadMeansKnown
  BY DEF ReadingInv, ReadingTypeOK, ReadIsKnown, Known, ReadMeansKnown, Quiet
<1> QED
  BY <1>1, InitIsReading, StepKeepsReading, PTL DEF Spec
================================================================================
