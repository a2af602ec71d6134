----------------------------- MODULE StateReading -----------------------------
(***************************************************************************)
(* How the receiver keeps up with values a device changes by itself        *)
(* (section 3.2): the device moves its settings revision, the receiver     *)
(* reads every entry when the advertised revision is not the one it has    *)
(* read -- by a read loop with connections of its own, or on the           *)
(* connection of a command that happens to be open -- and a command reads  *)
(* back the entry it wrote.                                                *)
(*                                                                         *)
(* Connections to a device take turns (_device), so the flag               *)
(* _read_connected is never set when a command asks whether a read is due; *)
(* it is left out.  Values are stamps, each written or turned up once.     *)
(*                                                                         *)
(* A device may come up again, with values of its own, another revision    *)
(* and perhaps another layout, which the receiver learns from the next     *)
(* packet it hears.                                                        *)
(***************************************************************************)
EXTENDS Integers, FiniteSets

CONSTANTS
  Last,             \* the entries are 1..Last, in the order of the declaration
  MaxStamp,         \* bound on the values that occur
  MaxFaults,        \* bound on what the radio does badly
  WriteOnly,        \* the entries that cannot be read
  Events,           \* the entries whose writes leave no state behind
  Kept,             \* the entries that are the same object in either layout
  NoTask

ASSUME LastAssumption == Last \in Nat \ {0}
ASSUME BoundsAssumption == MaxStamp \in Nat /\ MaxFaults \in Nat
ASSUME EntriesAssumption == WriteOnly \cup Events \cup Kept \subseteq 1..Last

Entries == 1..Last
Unknown == 0
Builds == 1..2

\* What the read loop and a command keep while they are under way.
Turns == [at : {"waiting", "connected"}, target : Nat, layout : Nat, next : Nat \ {0},
          failed : BOOLEAN, attempt : Nat]
Writes == [at : {"waiting", "connected", "written", "reading"}, entry : Entries, wrote : Nat,
           previous : Nat, layout : Nat, target : Nat, next : Nat \ {0}, skip : Nat,
           failed : BOOLEAN, wasReading : BOOLEAN]

ASSUME NoTaskAssumption == NoTask \notin Turns \cup Writes

VARIABLES
  \* the device
  value,       \* what each entry is, or is about to be
  shown,       \* what a read of its characteristic returns
  revision,    \* st.revision, on air
  changing,    \* whether changeTimer is armed
  build,       \* which layout it runs
  \* the receiver
  declared,    \* declaration: the layout last heard, Unknown for None
  advertised,  \* _revision_advertised, Unknown for None
  read,        \* _revision_read, Unknown for None
  backoff,     \* whether _read_failed_at is less than READ_RETRY ago
  reading,     \* _reading
  values,      \* _values, Unknown for none
  loop,        \* the read loop
  cmd,         \* the command under way, _write_now
  link,        \* who holds the device's turn: "free", "loop" or "cmd"
  doubt,       \* the entries whose last command left open what they are: it
               \* failed and may have landed, or its answer said nothing
  \* bounds
  stamp, faults

device == <<value, shown, revision, changing, build>>
known == <<declared, advertised, read, backoff, values>>
vars == <<device, known, reading, loop, cmd, link, doubt, stamp, faults>>

Init == /\ value = [e \in Entries |-> 1] /\ shown = value
        /\ revision = 1 /\ changing = FALSE /\ build = 1
        /\ declared = Unknown /\ advertised = Unknown /\ read = Unknown
        /\ backoff = FALSE /\ reading = FALSE
        /\ values = [e \in Entries |-> Unknown]
        /\ loop = NoTask /\ cmd = NoTask /\ link = "free" /\ doubt = {}
        /\ stamp = 1 /\ faults = 0

NewStamp == stamp < MaxStamp /\ stamp' = stamp + 1
Fault == faults < MaxFaults /\ faults' = faults + 1

----------------------------------------------------------------------------
\* The device.

\* A knob is turned, and changed() is called: a burst opens one window.
Knob(e) == /\ NewStamp
           /\ value' = [value EXCEPT ![e] = stamp']
           /\ changing' = TRUE
           /\ UNCHANGED <<shown, revision, build, known, reading, loop, cmd, link,
                          doubt, faults>>

\* publishChange: the window closes.
PublishChange == /\ changing
                 /\ changing' = FALSE
                 /\ revision' = revision + 1
                 /\ shown' = value
                 /\ UNCHANGED <<value, build, known, reading, loop, cmd, link, doubt,
                                stamp, faults>>

\* setup: the device comes up with values of its own, nobody connected to it,
\* and draws a revision, one of 255 -- here always one that nobody has read.
Restart(layout) ==
  /\ link = "free"
  /\ NewStamp
  /\ value' = [e \in Entries |-> stamp'] /\ shown' = value'
  /\ revision' = revision + 1 /\ changing' = FALSE
  /\ build' = layout
  /\ UNCHANGED <<known, reading, loop, cmd, link, doubt, faults>>

\* handleWrite: entry e becomes v, which may be the device's own idea of what
\* was written, and is republished without moving the revision.
Apply(e, v) ==
  /\ value' = [value EXCEPT ![e] = v]
  /\ shown' = [shown EXCEPT ![e] = v]
  /\ UNCHANGED <<revision, changing, build>>

----------------------------------------------------------------------------
\* The read loop.

StopLoop == loop' = NoTask /\ reading' = FALSE

\* One turn of the loop up to the point where it waits for the link, with the
\* declaration it found.
Turn(target, layout) ==
  [at |-> "waiting", target |-> target, layout |-> layout, next |-> 1,
   failed |-> FALSE, attempt |-> 1]

\* A turn starts, unless nothing can reach the device.
StartTurn(target, layout) ==
  \/ loop' = Turn(target, layout) /\ reading' = TRUE /\ backoff' = FALSE /\ UNCHANGED faults
  \/ Fault /\ StopLoop /\ backoff' = TRUE

RevisionIsRead == advertised # Unknown /\ advertised = read

\* async_request_read: a second ask coalesces with the first.
RequestRead ==
  IF reading THEN UNCHANGED <<backoff, reading, loop, faults>>
             ELSE StartTurn(revision, build)

\* An advertisement is heard.  Another layout is another device: what was
\* known of the old entries is forgotten.
Advertisement ==
  /\ declared' = build
  /\ values' = IF declared \notin {Unknown, build} THEN [e \in Entries |-> Unknown]
                                                   ELSE values
  /\ advertised' = revision
  /\ IF revision # read /\ ~backoff
     THEN RequestRead
     ELSE UNCHANGED <<backoff, reading, loop, faults>>
  /\ UNCHANGED <<device, read, cmd, link, doubt, stamp>>

BackoffEnds == /\ backoff
               /\ backoff' = FALSE
               /\ UNCHANGED <<device, declared, advertised, read, values, reading,
                              loop, cmd, link, doubt, stamp, faults>>

\* Fault: the loop marks the revision that is advertised when it is done.
MarkTheLatest == /\ read' = advertised /\ backoff' = FALSE
                 /\ StopLoop /\ UNCHANGED faults

\* The device was read in full: another turn if the revision moved meanwhile.
LoopSucceeds ==
  /\ read' = loop.target
  /\ IF advertised = loop.target
     THEN StopLoop /\ backoff' = FALSE /\ UNCHANGED faults
     ELSE StartTurn(advertised, declared)

\* Fault: the flag is left set.
LoopFailsUnseen == /\ backoff' = TRUE /\ UNCHANGED read
                   /\ loop' = NoTask /\ UNCHANGED reading

LoopFails == /\ backoff' = TRUE /\ UNCHANGED read
             /\ StopLoop

\* The loop has the link: a command may have read the revision meanwhile.
LoopEnters ==
  /\ loop # NoTask /\ loop.at = "waiting" /\ link = "free"
  /\ IF RevisionIsRead
     THEN LoopSucceeds /\ UNCHANGED link
     ELSE /\ loop' = [loop EXCEPT !.at = "connected"]
          /\ link' = "loop"
          /\ UNCHANGED <<read, backoff, reading, faults>>
  /\ UNCHANGED <<device, declared, advertised, values, cmd, doubt, stamp>>

\* The answer carries another object than the declaration gave: the cached
\* table is taken to be stale.
AnotherObject(e, layout) == layout # build /\ e \notin Kept /\ e \notin WriteOnly

\* One entry of a declaration is read, or cannot be.
ReadEntry(e) ==
  IF e \in WriteOnly
  THEN UNCHANGED <<values, doubt>>
  ELSE values' = [values EXCEPT ![e] = shown[e]] /\ doubt' = doubt \ {e}

LoopReads ==
  /\ loop # NoTask /\ loop.at = "connected" /\ loop.next <= Last
  /\ ~AnotherObject(loop.next, loop.layout)
  /\ ReadEntry(loop.next)
  /\ loop' = [loop EXCEPT !.next = @ + 1]
  /\ UNCHANGED <<device, declared, advertised, read, backoff, reading, cmd, link,
                 stamp, faults>>

\* One entry's read does not open: the others are read all the same.
LoopReadRefused ==
  /\ loop # NoTask /\ loop.at = "connected" /\ loop.next <= Last
  /\ loop.next \notin WriteOnly
  /\ Fault
  /\ loop' = [loop EXCEPT !.next = @ + 1, !.failed = TRUE]
  /\ UNCHANGED <<device, known, reading, cmd, link, doubt, stamp>>

LoopEnds ==
  /\ loop # NoTask /\ loop.at = "connected" /\ loop.next > Last
  /\ IF loop.failed THEN LoopFails /\ UNCHANGED faults ELSE LoopSucceeds
  /\ link' = "free"
  /\ UNCHANGED <<device, declared, advertised, values, cmd, doubt, stamp>>

\* The cached table is stale: once, the device is read again on a connection
\* of its own; twice, it is given up.
TableIsStale ==
  IF loop.attempt = 1
  THEN /\ loop' = [Turn(loop.target, loop.layout) EXCEPT !.attempt = 2]
       /\ UNCHANGED <<read, backoff, reading>>
  ELSE LoopFails

\* An entry is not where the declaration has it.
LoopMeetsAnother ==
  /\ loop # NoTask /\ loop.at = "connected" /\ loop.next <= Last
  /\ AnotherObject(loop.next, loop.layout)
  /\ TableIsStale
  /\ link' = "free"
  /\ UNCHANGED <<device, declared, advertised, values, cmd, doubt, stamp, faults>>

\* The connection fails, or the table is stale though the layout is the same.
LoopBreaks ==
  /\ loop # NoTask /\ loop.at = "connected"
  /\ Fault
  /\ LoopFails \/ TableIsStale
  /\ link' = "free"
  /\ UNCHANGED <<device, declared, advertised, values, cmd, doubt, stamp>>

----------------------------------------------------------------------------
\* A command, from the call of _write_now.

\* With what it looks up before it waits for the link.
Command(e) ==
  /\ cmd = NoTask /\ declared # Unknown
  /\ NewStamp
  /\ cmd' = [at |-> "waiting", entry |-> e, wrote |-> stamp', previous |-> values[e],
             layout |-> declared, target |-> Unknown, next |-> 1, skip |-> Unknown, failed |-> FALSE,
             wasReading |-> FALSE]
  /\ UNCHANGED <<device, known, reading, loop, link, doubt, faults>>

CommandEnters ==
  /\ cmd # NoTask /\ cmd.at = "waiting" /\ link = "free"
  /\ cmd' = [cmd EXCEPT !.at = "connected"]
  /\ link' = "cmd"
  /\ UNCHANGED <<device, known, reading, loop, doubt, stamp, faults>>

\* The write is acknowledged: the device takes it, makes something of its own
\* of it, or refuses it in silence, acknowledging before it validates.
TakenAsItIs == cmd.layout = build \/ cmd.entry \in Kept

CommandWrites ==
  /\ cmd # NoTask /\ cmd.at = "connected"
  /\ \/ TakenAsItIs /\ Apply(cmd.entry, cmd.wrote) /\ UNCHANGED <<stamp, faults>>
     \/ TakenAsItIs /\ NewStamp /\ Apply(cmd.entry, stamp') /\ UNCHANGED faults
     \/ ~TakenAsItIs /\ UNCHANGED <<device, stamp, faults>>
     \/ Fault /\ UNCHANGED <<device, stamp>>
  /\ cmd' = [cmd EXCEPT !.at = "written"]
  /\ UNCHANGED <<known, reading, loop, link, doubt>>

\* _settle_written_value: an answer that is what the entry was before says
\* nothing; any other answer is the device's own.
SaysNothing(reported) == reported \in {Unknown, cmd.previous}

Settle(reported) ==
  /\ values' = IF cmd.entry \in Events THEN values
               ELSE [values EXCEPT ![cmd.entry] = IF SaysNothing(reported) THEN cmd.wrote
                                                                           ELSE reported]
  /\ doubt' = IF SaysNothing(reported) \/ cmd.entry \in Events THEN doubt \cup ({cmd.entry} \ WriteOnly)
                                                               ELSE doubt \ {cmd.entry}

\* _read_back: what the entry says of itself, unless it cannot be read, or
\* the answer does not open.
ReadBack(reported) ==
  \/ cmd.entry \in WriteOnly /\ reported = Unknown /\ UNCHANGED faults
  \/ cmd.entry \notin WriteOnly /\ reported = shown[cmd.entry] /\ UNCHANGED faults
  \/ cmd.entry \notin WriteOnly /\ reported = Unknown /\ Fault

ReadIsDue == advertised # Unknown /\ advertised # read

\* The command's own read back, the answer to the caller, and the start of
\* the read that is due, if one is: nothing suspends in between.
CommandReadsBack ==
  /\ cmd # NoTask /\ cmd.at = "written"
  /\ ~AnotherObject(cmd.entry, cmd.layout)
  /\ \E reported \in {shown[cmd.entry], Unknown} :
       /\ ReadBack(reported)
       /\ Settle(reported)
       /\ IF ReadIsDue
          THEN /\ cmd' = [cmd EXCEPT !.at = "reading", !.target = advertised,
                            !.layout = declared,
                            !.skip = IF reported = Unknown THEN Unknown ELSE cmd.entry,
                            !.wasReading = reading]
               /\ reading' = TRUE
               /\ UNCHANGED link
          ELSE cmd' = NoTask /\ link' = "free" /\ UNCHANGED reading
  /\ UNCHANGED <<device, declared, advertised, read, backoff, loop, stamp>>

\* _read_due_here: one entry is read, or passed over.
CommandReads ==
  /\ cmd # NoTask /\ cmd.at = "reading" /\ cmd.next <= Last
  /\ IF cmd.next = cmd.skip
     THEN UNCHANGED <<values, doubt>>
     ELSE ~AnotherObject(cmd.next, cmd.layout) /\ ReadEntry(cmd.next)
  /\ cmd' = [cmd EXCEPT !.next = @ + 1]
  /\ UNCHANGED <<device, declared, advertised, read, backoff, reading, loop, link,
                 stamp, faults>>

CommandReadRefused ==
  /\ cmd # NoTask /\ cmd.at = "reading" /\ cmd.next <= Last
  /\ cmd.next # cmd.skip /\ cmd.next \notin WriteOnly
  /\ Fault
  /\ cmd' = [cmd EXCEPT !.next = @ + 1, !.failed = TRUE]
  /\ UNCHANGED <<device, known, reading, loop, link, doubt, stamp>>

\* The folded read gives the flag back as it found it.
LeaveTheLink == cmd' = NoTask /\ link' = "free" /\ reading' = cmd.wasReading

CommandEnds ==
  /\ cmd # NoTask /\ cmd.at = "reading" /\ cmd.next > Last
  /\ IF cmd.failed
     THEN backoff' = TRUE /\ UNCHANGED read
     ELSE backoff' = FALSE /\ read' = cmd.target
  /\ LeaveTheLink
  /\ UNCHANGED <<device, declared, advertised, values, loop, doubt, stamp, faults>>

\* The folded read breaks off, and swallows it: the command has succeeded.
FoldedReadBreaks ==
  /\ cmd # NoTask /\ cmd.at = "reading"
  /\ backoff' = TRUE
  /\ LeaveTheLink
  /\ UNCHANGED <<device, declared, advertised, read, values, loop, doubt, stamp>>

CommandReadBreaks == FoldedReadBreaks /\ Fault

CommandReadMeetsAnother ==
  /\ FoldedReadBreaks /\ UNCHANGED faults
  /\ cmd.next <= Last /\ cmd.next # cmd.skip /\ AnotherObject(cmd.next, cmd.layout)

\* The read back carries another object: the command is reported failed.
CommandMeetsAnother ==
  /\ cmd # NoTask /\ cmd.at = "written"
  /\ AnotherObject(cmd.entry, cmd.layout)
  /\ cmd' = NoTask /\ link' = "free"
  /\ doubt' = doubt \cup {cmd.entry}
  /\ UNCHANGED <<device, known, reading, loop, stamp, faults>>

\* The command fails: before the write, with the write on its way, or after
\* the acknowledgement and before the read back is in.
CommandFails ==
  /\ cmd # NoTask /\ cmd.at \in {"connected", "written"}
  /\ Fault
  /\ \/ UNCHANGED device /\ doubt' = IF cmd.at = "written" THEN doubt \cup ({cmd.entry} \ WriteOnly)
                                                          ELSE doubt
     \/ cmd.at = "connected" /\ TakenAsItIs /\ Apply(cmd.entry, cmd.wrote)
                             /\ doubt' = doubt \cup {cmd.entry}
  /\ cmd' = NoTask /\ link' = "free"
  /\ UNCHANGED <<known, reading, loop, stamp>>

----------------------------------------------------------------------------
LoopSteps == LoopEnters \/ LoopReads \/ LoopMeetsAnother \/ LoopEnds
CommandSteps == CommandEnters \/ CommandWrites \/ CommandReadsBack \/ CommandMeetsAnother
                \/ CommandReads \/ CommandReadMeetsAnother \/ CommandEnds

Next == \/ \E e \in Entries : Knob(e) \/ Command(e)
        \/ \E layout \in Builds : Restart(layout)
        \/ PublishChange \/ Advertisement \/ BackoffEnds
        \/ LoopSteps \/ LoopReadRefused \/ LoopBreaks
        \/ CommandSteps \/ CommandReadRefused \/ CommandReadBreaks \/ CommandFails

Spec == Init /\ [][Next]_vars

\* Timers fire, the device goes on advertising, the link is handed to
\* whoever waits for it, and GATT operations end.
Fairness == /\ WF_vars(PublishChange) /\ WF_vars(Advertisement) /\ WF_vars(BackoffEnds)
            /\ WF_vars(LoopReads \/ LoopMeetsAnother \/ LoopEnds) /\ SF_vars(LoopEnters)
            /\ WF_vars(CommandSteps)

FairSpec == Spec /\ Fairness

----------------------------------------------------------------------------
Quiet == /\ cmd = NoTask /\ loop = NoTask
         /\ ~changing
         /\ advertised = revision /\ read = revision

\* When nothing is under way and the revision on air is the one marked read,
\* the receiver knows every entry: marking a revision read promises that
\* nothing will come back to it (_read_loop, _read_due_here).  Entries in
\* doubt are apart: there the code says its evidence runs out.
ReadMeansKnown ==
  Quiet => \A e \in Entries \ (WriteOnly \cup doubt) : values[e] = value[e]

\* Once the device is left alone, the receiver has read the revision on air,
\* whatever its failures (the retry after READ_RETRY, the turns of _read_loop).
RevisionIsReadInTheEnd == <>[](advertised = revision /\ read = revision)

=============================================================================
