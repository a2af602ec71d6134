--------------------------- MODULE Lifecycle_proofs ---------------------------
(***************************************************************************)
(* For any keys, layouts, rows, caps and bounds: the request of a device   *)
(* follows its entry, no update of the entry undoes another, and the       *)
(* registry neither holds one identity twice nor leaves a row behind that  *)
(* automations name; and the counters a device receives only rise.         *)
(***************************************************************************)
EXTENDS Lifecycle, TLAPS

Phases == {"none", "found", "migrating", "failed", "forwarding", "loaded",
           "unloading", "reloading", "stuck", "not loaded"}

\* A coordinator exists, and its request is registered, from the first step
\* of setup to the end of unloading.
Running == {"migrating", "failed", "forwarding", "loaded", "unloading",
            "reloading", "stuck"}

LifecycleTypeOK ==
  /\ device \in Devices /\ past \subseteq AnyKey /\ flows \subseteq Flows
  /\ entry \in Entries \cup {None} /\ phase \in Phases
  /\ now \in Coordinators \cup {None} /\ old \in Coordinators \cup {None}
  /\ rows \subseteq Rows /\ knew \in AnyLayout
  /\ last \in Nat /\ listens \in BOOLEAN /\ shared \in BOOLEAN

\* What goes with the phase, and what a coordinator left with commands is.
PhaseTellsTheRest ==
  /\ phase = "none" <=> entry = None
  /\ phase = "none" => rows = {}
  /\ phase \in Running <=> now # None
  /\ phase \in Running => listens = TRUE /\ request = entry.cap
  /\ phase \notin Running => listens = FALSE /\ request = 0
  /\ now # None => now.orphan = FALSE
  /\ old # None => old.left > 0
  /\ old # None /\ entry = None => old.orphan = TRUE

\* A row of the old form was there before D-069.
OldRowsAreOld ==
  \A r \in rows : r.id.form = "old" => r.id.object = 0 /\ r.used = TRUE

\* Of a control the migration knew, an old row is only left where the new
\* identity is taken.
KnownWereMigrated ==
  knew # None => \A y \in knew :
    Row(y.domain, OldId(y), TRUE) \in rows => Known(NewId(y), y.domain, rows)

\* The counter is at or below the mark, and the mark is the entry's.
MarkIsAhead ==
  /\ old # None => shared = TRUE
  /\ shared = FALSE /\ entry # None => last <= entry.mark
  /\ shared = FALSE /\ now # None =>
       last <= now.counter /\ now.counter <= now.mark /\ now.mark = entry.mark

----------------------------------------------------------------------------
\* What the operators return.

\* A coordinator that drew a counter has one more and one command less.
LEMMA DrawnCoordinator ==
  ASSUME NEW c \in Coordinators, c.left > 0
  PROVE  /\ Drawn(c) \in Coordinators
         /\ Drawn(c).left = c.left - 1
         /\ Drawn(c).counter = c.counter + 1
         /\ Drawn(c).orphan = c.orphan /\ Drawn(c).layout = c.layout
         /\ Drawn(c).mark = IF c.counter + 1 >= c.mark THEN c.counter + 1 + Stride
                                                      ELSE c.mark
<1> DEFINE mark == IF c.counter + 1 >= c.mark THEN c.counter + 1 + Stride ELSE c.mark
<1>1. mark \in Nat
  BY LifecycleAssumption DEF Coordinators
<1>2. c.left - 1 \in Nat /\ c.counter + 1 \in Nat
  BY DEF Coordinators
<1>3. Drawn(c) = [c EXCEPT !.left = c.left - 1, !.counter = c.counter + 1, !.mark = mark]
  BY DEF Drawn, Coordinators
<1> HIDE DEF mark
<1>4. /\ Drawn(c) \in Coordinators /\ Drawn(c).left = c.left - 1
      /\ Drawn(c).counter = c.counter + 1 /\ Drawn(c).mark = mark
      /\ Drawn(c).orphan = c.orphan /\ Drawn(c).layout = c.layout
  BY <1>1, <1>2, <1>3 DEF Coordinators
<1> QED
  BY <1>4 DEF mark

\* A restored coordinator holds what the entry held.
LEMMA RestoredCoordinator ==
  ASSUME NEW e \in Entries
  PROVE  /\ Coordinator(e) \in Coordinators
         /\ Coordinator(e).counter = e.mark /\ Coordinator(e).mark = e.mark
         /\ Coordinator(e).left = 0 /\ Coordinator(e).orphan = FALSE
  BY DEF Coordinator, Entries, Coordinators

\* Identities and rows are made of what a control is made of.
LEMMA RowsOfControls ==
  ASSUME NEW x \in Controls, NEW used \in BOOLEAN
  PROVE  /\ Row(x.domain, OldId(x), used) \in Rows
         /\ Row(x.domain, NewId(x), used) \in Rows
<1>1. OldId(x) \in Ids /\ NewId(x) \in Ids
  BY DEF OldId, NewId, Ids, Controls
<1>2. x.domain \in Domains
  BY DEF Controls
<1> QED
  BY <1>1, <1>2 DEF Row, Rows

\* A row the migration renames was of the old form, and nothing answered to
\* the identity it takes; any other row stays as it was.
LEMMA MigratedRow ==
  ASSUME NEW layout \in Layouts, NEW r \in Rows
  PROVE  \/ Migrated(r, layout) = r
         \/ \E x \in layout :
              LET id == [form |-> "new", number |-> r.id.number,
                         object |-> x.object, code |-> r.id.code]
              IN /\ x \in Controls /\ x.number = r.id.number /\ r.id.form = "old"
                 /\ ~Known(id, r.domain, rows)
                 /\ Migrated(r, layout) = Row(r.domain, id, r.used)
<1> DEFINE declared == {x \in layout : x.number = r.id.number}
           one == CHOOSE x \in declared : TRUE
           id == [form |-> "new", number |-> r.id.number,
                  object |-> one.object, code |-> r.id.code]
<1>1. CASE declared = {}
  BY <1>1 DEF Migrated
<1>2. CASE declared # {}
  <2>1. one \in declared
    BY <1>2
  <2>2. one \in layout /\ one.number = r.id.number /\ one \in Controls
    BY <2>1, LayoutAssumption
  <2>3. [NewId(one) EXCEPT !.code = r.id.code] = id
    <3> HIDE DEF one
    <3> QED
      BY <2>2 DEF NewId, Controls
  <2>4. Migrated(r, layout) =
          IF r.id.form = "old" /\ RightShape(r) /\ Free(r, id)
          THEN [r EXCEPT !.id = id] ELSE r
    BY <1>2, <2>3 DEF Migrated
  <2>5. [r EXCEPT !.id = id] = Row(r.domain, id, r.used)
    BY DEF Row, Rows
  <2> QED
    BY <2>2, <2>4, <2>5 DEF Free
<1> QED
  BY <1>1, <1>2

\* An old row of a control of the layout stays only if the new identity is
\* taken: the declaration has it under one object, and its shape is right.
LEMMA LeftIsTaken ==
  ASSUME NEW layout \in Layouts, NEW y \in layout,
         Migrated(Row(y.domain, OldId(y), TRUE), layout) = Row(y.domain, OldId(y), TRUE)
  PROVE  Known(NewId(y), y.domain, rows)
<1> DEFINE r == Row(y.domain, OldId(y), TRUE)
           declared == {x \in layout : x.number = r.id.number}
           one == CHOOSE x \in declared : TRUE
<1>1. y \in Controls /\ (y.domain = "button" <=> y.code # 0)
  BY LayoutAssumption
<1>2. /\ r.domain = y.domain /\ r.id = OldId(y) /\ r.id.form = "old"
      /\ r.id.number = y.number /\ r.id.code = y.code
  BY DEF Row, OldId
<1>3. RightShape(r)
  BY <1>1, <1>2 DEF RightShape
<1>4. y \in declared
  BY <1>2
<1>5. one \in declared
  BY <1>4
<1>6. one \in Controls /\ one.number = y.number /\ one.object = y.object
  BY <1>2, <1>5, LayoutAssumption
<1>7. [NewId(one) EXCEPT !.code = r.id.code] = NewId(y)
  <2> HIDE DEF one, r
  <2> QED
    BY <1>1, <1>2, <1>6 DEF NewId, Controls
<1>8. Migrated(r, layout) = IF Free(r, NewId(y)) THEN [r EXCEPT !.id = NewId(y)] ELSE r
  BY <1>2, <1>3, <1>4, <1>7 DEF Migrated
<1>9. [r EXCEPT !.id = NewId(y)] # r
  BY <1>2 DEF NewId, Row
<1> QED
  BY <1>2, <1>8, <1>9 DEF Free

\* The identity a migrated row has is one a row may have.
LEMMA MigratedIsARow ==
  ASSUME NEW layout \in Layouts, NEW r \in Rows
  PROVE  Migrated(r, layout) \in Rows
<1>1. CASE Migrated(r, layout) = r
  BY <1>1
<1>2. ASSUME NEW x \in Controls
      PROVE  Row(r.domain, [form |-> "new", number |-> r.id.number,
                            object |-> x.object, code |-> r.id.code], r.used) \in Rows
  BY DEF Controls, Row, Rows, Ids
<1> QED
  BY <1>2, MigratedRow

\* The rows the platforms add are rows.
LEMMA AddedAreRows ==
  ASSUME NEW layout \in AnyLayout
  PROVE  RowsFor(layout) \subseteq Rows
<1>1. \A x \in (IF layout = None THEN {} ELSE layout) : x \in Controls
  BY LayoutAssumption DEF AnyLayout
<1>2. \A x \in Controls : Row(x.domain, NewId(x), FALSE) \in Rows
  BY RowsOfControls
<1> QED
  BY <1>1, <1>2 DEF RowsFor

----------------------------------------------------------------------------
\* What every step keeps: the types, and what goes with the phase.

Shape == LifecycleTypeOK /\ PhaseTellsTheRest

LEMMA InitShape == Init => Shape
<1> SUFFICES ASSUME Init PROVE Shape
  OBVIOUS
<1>1. OldRows \subseteq Rows
  <2>1. \A x \in Controls : Row(x.domain, OldId(x), TRUE) \in Rows
    BY RowsOfControls
  <2> QED
    BY <2>1, OldRowsAssumption, LayoutAssumption
<1>2. device \in Devices /\ device.key \in AnyKey
  BY DEF Init, Devices, AnyKey, AnyLayout
<1>3. CASE entry = None /\ phase = "none" /\ rows = {}
  BY <1>2, <1>3 DEF Init, Nowhere, Shape, LifecycleTypeOK, PhaseTellsTheRest, Phases, Running, AnyLayout
<1>4. CASE /\ entry = [key |-> device.key, cap |-> Default, mark |-> 0, layout |-> None]
           /\ phase = "found" /\ rows = OldRows
  <2>1. entry = [key |-> device.key, cap |-> Default, mark |-> 0, layout |-> None]
    BY <1>4
  <2>2. entry \in Entries
    BY <1>2, <2>1, LifecycleAssumption DEF Entries, AnyLayout
  <2> QED
    BY <1>1, <1>2, <1>4, <2>2, NoneAssumption DEF Init, Nowhere, Shape, LifecycleTypeOK, PhaseTellsTheRest, Phases, Running, AnyLayout
<1> QED
  BY <1>3, <1>4 DEF Init

\* A saved layout or mark makes an entry again, and leaves the rest of it.
LEMMA UpdateKeepsTheEntry ==
  ASSUME entry \in Entries, NEW c, NEW layout \in AnyLayout, NEW mark \in Nat,
         Update(c, layout, mark)
  PROVE  /\ entry' \in Entries
         /\ entry'.key = entry.key /\ entry'.cap = entry.cap
         /\ entry'.layout = layout /\ entry'.mark = mark
         /\ request' = IF listens THEN entry'.cap ELSE request
<1>1. entry' = [entry EXCEPT !.layout = layout, !.mark = mark]
  BY DEF Update, Saved
<1>2. /\ entry' \in Entries /\ entry'.key = entry.key /\ entry'.cap = entry.cap
      /\ entry'.layout = layout /\ entry'.mark = mark
  BY <1>1 DEF Entries
<1> QED
  BY <1>2 DEF Update

\* What setup makes of an entry, and of the advertisement it absorbs.
LEMMA SetUpStarts ==
  ASSUME Shape, SetUp
  PROVE  /\ entry \in Entries /\ entry' \in Entries /\ now' \in Coordinators
         /\ entry'.key = entry.key /\ entry'.cap = entry.cap
         /\ entry'.mark = entry.mark /\ entry'.layout = now'.layout
         /\ now'.counter = entry.mark /\ now'.mark = entry.mark
         /\ now'.orphan = FALSE
<1>1. entry \in Entries /\ device.layout \in AnyLayout /\ entry.layout \in AnyLayout
  BY DEF Shape, LifecycleTypeOK, PhaseTellsTheRest, SetUp, Devices, Entries
<1>2. PICK layout \in AnyLayout :
        /\ now' = [Coordinator(entry) EXCEPT !.layout = layout]
        /\ entry' = [entry EXCEPT !.layout = layout]
  BY <1>1 DEF SetUp
<1>3. /\ entry' \in Entries /\ entry'.key = entry.key /\ entry'.cap = entry.cap
      /\ entry'.mark = entry.mark /\ entry'.layout = layout
  BY <1>1, <1>2 DEF Entries
<1>4. /\ now' \in Coordinators /\ now'.layout = layout
      /\ now'.counter = Coordinator(entry).counter
      /\ now'.mark = Coordinator(entry).mark
      /\ now'.orphan = Coordinator(entry).orphan
  BY <1>1, <1>2, RestoredCoordinator DEF Coordinators
<1> QED
  BY <1>1, <1>3, <1>4, RestoredCoordinator

\* What a sealed command does to the entry and to the coordinator it is of.
LEMMA DrawSaves ==
  ASSUME Shape, NEW c \in Coordinators, Draw(c), c.orphan = FALSE => entry # None
  PROVE  /\ c.left > 0
         /\ \/ /\ UNCHANGED <<entry, request>>
               /\ c.orphan = FALSE => Drawn(c).mark = c.mark
            \/ /\ entry \in Entries /\ entry' \in Entries
               /\ entry'.key = entry.key /\ entry'.layout = entry.layout
               /\ entry'.cap = entry.cap /\ entry'.mark = Drawn(c).mark
               /\ request' = IF listens THEN entry'.cap ELSE request
         /\ last' \in Nat /\ (c.orphan = FALSE => last' = c.counter + 1)
<1>1. c.left > 0 /\ Drawn(c) \in Coordinators /\ last \in Nat
  BY DrawnCoordinator DEF Draw, Shape, LifecycleTypeOK
<1>2. last' \in Nat /\ (c.orphan = FALSE => last' = c.counter + 1)
  BY <1>1, DrawnCoordinator DEF Draw, Coordinators
<1>3. CASE /\ UNCHANGED <<entry, request>>
           /\ Drawn(c).mark = c.mark \/ c.orphan
  BY <1>1, <1>2, <1>3
<1>4. CASE Update(c, entry.layout, Drawn(c).mark) /\ ~c.orphan
  <2>1. entry \in Entries
    BY <1>4 DEF Shape, LifecycleTypeOK, Coordinators
  <2>2. entry.layout \in AnyLayout /\ Drawn(c).mark \in Nat
    BY <2>1, <1>1 DEF Entries, Coordinators
  <2> QED
    BY <1>1, <1>2, <1>4, <2>1, <2>2, UpdateKeepsTheEntry
<1> QED
  BY <1>3, <1>4 DEF Draw

\* One command less is left.
LEMMA OneLessIsLeft ==
  ASSUME NEW c \in Coordinators, c.left > 0
  PROVE  LET d == [c EXCEPT !.left = @ - 1] IN
         /\ d \in Coordinators /\ d.left = c.left - 1 /\ d.orphan = c.orphan
         /\ d.counter = c.counter /\ d.mark = c.mark /\ d.layout = c.layout
<1>1. c.left - 1 \in Nat
  BY DEF Coordinators
<1> QED
  BY <1>1 DEF Coordinators

LEMMA SetupKeepsShape ==
  ASSUME Shape, SetUp \/ Migrates \/ PlatformsAreSetUp \/ Heard
  PROVE  Shape'
<1>1. CASE SetUp
  BY <1>1, SetUpStarts, NoneAssumption DEF SetUp, history, Shape, LifecycleTypeOK, PhaseTellsTheRest, Phases, Running
<1>2. CASE Migrates
  <2>1. now \in Coordinators
    BY <1>2 DEF Migrates, Shape, LifecycleTypeOK, PhaseTellsTheRest, Phases, Running
  <2>2. now.layout \in AnyLayout
    BY <2>1 DEF Coordinators
  <2>3. MigratedRows(now.layout) \subseteq Rows
    BY <2>2, MigratedIsARow DEF MigratedRows, AnyLayout, Shape, LifecycleTypeOK
  <2> QED
    BY <1>2, <2>1, <2>2, <2>3 DEF Migrates, Shape, LifecycleTypeOK, PhaseTellsTheRest, Phases, Running
<1>3. CASE PlatformsAreSetUp
  <2>1. now \in Coordinators
    BY <1>3 DEF PlatformsAreSetUp, Shape, LifecycleTypeOK, PhaseTellsTheRest, Phases, Running
  <2>2. now.layout \in AnyLayout
    BY <2>1 DEF Coordinators
  <2> QED
    BY <1>3, <2>1, <2>2, AddedAreRows DEF PlatformsAreSetUp, AddControls, Shape, LifecycleTypeOK, PhaseTellsTheRest, Phases, Running
<1>4. CASE Heard
  <2>1. now \in Coordinators /\ entry \in Entries /\ phase \in Running
    BY <1>4 DEF Heard, Hearing, Shape, LifecycleTypeOK, PhaseTellsTheRest, Phases, Running
  <2>2. device.layout \in AnyLayout /\ entry.mark \in Nat
    BY <2>1 DEF Shape, LifecycleTypeOK, Devices, Entries
  <2>3. now' \in Coordinators /\ now'.orphan = now.orphan
    BY <1>4, <2>1, <2>2 DEF Heard, Coordinators
  <2>4. entry' \in Entries /\ entry'.cap = entry.cap /\ request' = IF listens THEN entry'.cap ELSE request
    BY <1>4, <2>1, <2>2, UpdateKeepsTheEntry DEF Heard
  <2>5. rows' \subseteq Rows
    BY <1>4, <2>2, AddedAreRows DEF Heard, AddControls, Shape, LifecycleTypeOK
  <2>6. UNCHANGED <<device, past, flows, phase, listens, old, knew, last, shared>>
    BY <1>4 DEF Heard
  <2> QED
    BY <2>1, <2>3, <2>4, <2>5, <2>6, NoneAssumption DEF Shape, LifecycleTypeOK, PhaseTellsTheRest, Phases, Running
<1> QED
  BY <1>1, <1>2, <1>3, <1>4

LEMMA CommandsKeepShape ==
  ASSUME Shape, CommandGiven \/ CommandIsSealed \/ LeftCommandIsSealed \/ CommandIsOver
  PROVE  Shape'
<1>1. CASE CommandGiven
  <2>1. now \in Coordinators
    BY <1>1 DEF CommandGiven, Shape, LifecycleTypeOK, PhaseTellsTheRest, Phases, Running
  <2>2. now' \in Coordinators /\ now'.orphan = now.orphan
    BY <1>1, <2>1 DEF CommandGiven, Coordinators
  <2> QED
    BY <1>1, <2>1, <2>2, NoneAssumption DEF CommandGiven, history, Shape, LifecycleTypeOK, PhaseTellsTheRest, Phases, Running
<1>2. CASE CommandIsSealed
  <2>1. now \in Coordinators /\ phase \in Running /\ now.left > 0
        /\ entry \in Entries /\ now.orphan = FALSE
    BY <1>2 DEF CommandIsSealed, Draw, Shape, LifecycleTypeOK, PhaseTellsTheRest, Phases, Running
  <2>2. now' \in Coordinators /\ now'.orphan = FALSE
    BY <1>2, <2>1, DrawnCoordinator DEF CommandIsSealed
  <2>3. /\ entry' \in Entries /\ last' \in Nat
        /\ request' = entry'.cap
    BY <1>2, <2>1, DrawSaves, NoneAssumption DEF CommandIsSealed, Shape, LifecycleTypeOK, PhaseTellsTheRest, Phases, Running
  <2>4. UNCHANGED <<device, past, flows, phase, listens, old, rows, knew, shared>>
    BY <1>2 DEF CommandIsSealed, Draw
  <2> QED
    BY <2>1, <2>2, <2>3, <2>4, NoneAssumption DEF Shape, LifecycleTypeOK, PhaseTellsTheRest, Phases, Running
<1>3. CASE LeftCommandIsSealed
  <2>1. old \in Coordinators /\ old.left > 0 /\ (old.orphan = FALSE => entry # None)
    BY <1>3 DEF LeftCommandIsSealed, Draw, Shape, LifecycleTypeOK, PhaseTellsTheRest, Phases, Running
  <2>2. \/ old' = None
        \/ old' \in Coordinators /\ old'.orphan = old.orphan /\ old'.left > 0
    BY <1>3, <2>1, DrawnCoordinator DEF LeftCommandIsSealed, Coordinators
  <2>3. \/ UNCHANGED <<entry, request>>
        \/ entry \in Entries /\ entry' \in Entries
           /\ request' = IF listens THEN entry'.cap ELSE request
    BY <1>3, <2>1, DrawSaves DEF LeftCommandIsSealed
  <2>4. last' \in Nat
    BY <1>3, <2>1, DrawSaves DEF LeftCommandIsSealed
  <2>5. UNCHANGED <<device, past, flows, phase, listens, now, rows, knew, shared>>
    BY <1>3 DEF LeftCommandIsSealed, Draw
  <2> QED
    BY <2>1, <2>2, <2>3, <2>4, <2>5, NoneAssumption DEF Shape, LifecycleTypeOK, PhaseTellsTheRest, Phases, Running
<1>4. CASE CommandIsOver
  <2>1. UNCHANGED <<device, past, flows, entry, phase, request, listens, rows, history>>
    BY <1>4 DEF CommandIsOver
  <2>2. CASE /\ now # None /\ now.left > 0
             /\ now' = [now EXCEPT !.left = @ - 1] /\ UNCHANGED old
    <3>1. now \in Coordinators
      BY <2>2 DEF Shape, LifecycleTypeOK
    <3>2. now' \in Coordinators /\ now'.orphan = now.orphan
      BY <2>2, <3>1, OneLessIsLeft
    <3> QED
      BY <2>1, <2>2, <3>1, <3>2, NoneAssumption DEF history, Shape, LifecycleTypeOK, PhaseTellsTheRest, Phases, Running
  <2>3. CASE /\ old # None
             /\ old' = IF old.left = 1 THEN None ELSE [old EXCEPT !.left = @ - 1]
             /\ UNCHANGED now
    <3>1. old \in Coordinators /\ old.left > 0
      BY <2>3 DEF Shape, LifecycleTypeOK, PhaseTellsTheRest
    <3>2. \/ old' = None
          \/ old' \in Coordinators /\ old'.orphan = old.orphan /\ old'.left > 0
      BY <2>3, <3>1, OneLessIsLeft DEF Coordinators
    <3> QED
      BY <2>1, <2>3, <3>1, <3>2, NoneAssumption DEF history, Shape, LifecycleTypeOK, PhaseTellsTheRest, Phases, Running
  <2> QED
    BY <1>4, <2>2, <2>3 DEF CommandIsOver
<1> QED
  BY <1>1, <1>2, <1>3, <1>4

LEMMA UnloadingKeepsShape ==
  ASSUME Shape, UnloadBegins \/ Unloads \/ UnloadFails \/ SetUpAgain \/ Restart
  PROVE  Shape'
<1>1. CASE UnloadBegins
  BY <1>1 DEF UnloadBegins, Withdrawn, history, Shape, LifecycleTypeOK, PhaseTellsTheRest, Phases, Running
<1>2. CASE Unloads
  <2> DEFINE left == IF now.left > 0 THEN now ELSE old
  <2>1. now \in Coordinators /\ entry \in Entries /\ now.orphan = FALSE
    BY <1>2 DEF Unloads, Shape, LifecycleTypeOK, PhaseTellsTheRest, Phases, Running
  <2>2. /\ left \in Coordinators \cup {None}
        /\ left # None => left.left > 0
    BY <2>1 DEF Shape, LifecycleTypeOK, PhaseTellsTheRest
  <2>3. old' = IF left = None \/ phase' # "none" THEN left
               ELSE [left EXCEPT !.orphan = TRUE]
    BY <1>2 DEF Unloads
  <2>4. \/ old' = None
        \/ old' \in Coordinators /\ old'.left > 0 /\ (phase' = "none" => old'.orphan = TRUE)
    <3> HIDE DEF left
    <3> QED
      BY <2>2, <2>3 DEF Coordinators
  <2>5. /\ UNCHANGED <<device, past, flows, knew, last>>
        /\ phase' \in {"found", "not loaded", "none"}
        /\ now' = None /\ listens' = FALSE /\ request' = 0
        /\ entry' = IF phase' = "none" THEN None ELSE entry
        /\ rows' = IF phase' = "none" THEN {} ELSE rows
        /\ shared' \in BOOLEAN
    BY <1>2 DEF Unloads, Withdrawn
  <2> QED
    BY <2>1, <2>4, <2>5, NoneAssumption DEF Shape, LifecycleTypeOK, PhaseTellsTheRest, Phases, Running
<1>3. CASE UnloadFails
  BY <1>3 DEF UnloadFails, history, Shape, LifecycleTypeOK, PhaseTellsTheRest, Phases, Running
<1>4. CASE SetUpAgain
  BY <1>4 DEF SetUpAgain, history, Shape, LifecycleTypeOK, PhaseTellsTheRest, Phases, Running
<1>5. CASE Restart
  BY <1>5 DEF Restart, history, Shape, LifecycleTypeOK, PhaseTellsTheRest, Phases, Running
<1> QED
  BY <1>1, <1>2, <1>3, <1>4, <1>5

\* A flow is begun or goes on, and holds what the device sent.
LEMMA FlowsAreFlows ==
  ASSUME NEW seen \in Devices, NEW via \in {"bluetooth", "user"}
  PROVE  /\ FlowFor(via, seen) \subseteq Flows
         /\ [Asking(via, seen) EXCEPT !.step = "pick"] \in Flows
         /\ \A key \in Keys : Proposing(via, seen, key) \in Flows
  BY DEF FlowFor, Asking, Proposing, Flows, AnyKey

\* The device and the flows of the user, before an entry is made.
LEMMA FlowsKeepShape ==
  ASSUME Shape,
         \/ DeviceChanges \/ Discovered \/ UserLooks
         \/ \E f \in flows : UserPicks(f) \/ \E key \in Keys : KeyGiven(f, key)
  PROVE  Shape'
<1>1. CASE DeviceChanges
  BY <1>1 DEF DeviceChanges, installed, history, Devices, AnyKey, AnyLayout, Shape, LifecycleTypeOK, PhaseTellsTheRest, Phases, Running
<1>2. ASSUME flows' \subseteq Flows, UNCHANGED <<device, past, installed, history>>
      PROVE  Shape'
  BY <1>2 DEF installed, history, Shape, LifecycleTypeOK, PhaseTellsTheRest, Phases, Running
<1>3. flows \subseteq Flows /\ device \in Devices
  BY DEF Shape, LifecycleTypeOK
<1>4. CASE Discovered
  BY <1>2, <1>3, <1>4, FlowsAreFlows DEF Discovered
<1>5. CASE UserLooks
  BY <1>2, <1>3, <1>5, FlowsAreFlows DEF UserLooks
<1>6. ASSUME NEW f \in flows, UserPicks(f)
      PROVE  Shape'
  <2>1. f.seen \in Devices
    BY <1>3 DEF Flows
  <2> QED
    BY <1>2, <1>3, <1>6, <2>1, FlowsAreFlows DEF UserPicks
<1>7. ASSUME NEW f \in flows, NEW key \in Keys, KeyGiven(f, key)
      PROVE  Shape'
  <2>1. f.seen \in Devices /\ f.via \in {"bluetooth", "user"}
    BY <1>3 DEF Flows
  <2>2. Proposing(f.via, f.seen, key) \in Flows
    BY <2>1, FlowsAreFlows
  <2>3. flows' \subseteq Flows
    BY <1>3, <1>7, <2>2 DEF KeyGiven
  <2>4. UNCHANGED <<device, past, installed, history>>
    BY <1>7 DEF KeyGiven
  <2> QED
    BY <1>2, <2>3, <2>4
<1> QED
  BY <1>1, <1>4, <1>5, <1>6, <1>7

\* The entry is made, and its key or its cap replaced.
LEMMA EntryKeepsShape ==
  ASSUME Shape,
         \/ \E f \in flows : Confirmed(f)
         \/ \E key \in Keys \cup {NoKey} : KeyReplaced(key)
         \/ \E cap \in Caps : CapChosen(cap)
  PROVE  Shape'
<1>1. ASSUME NEW f \in flows, Confirmed(f)
      PROVE  Shape'
  <2>1. f.key \in AnyKey
    BY DEF Shape, LifecycleTypeOK, Flows
  <2>2. entry' \in Entries
    BY <1>1, <2>1, LifecycleAssumption DEF Confirmed, Entries, AnyLayout
  <2>3. /\ entry = None /\ phase' = "found" /\ flows' = {} /\ last' = 0 /\ knew' = None
        /\ shared' \in BOOLEAN
        /\ UNCHANGED <<device, past, request, listens, now, old, rows>>
    BY <1>1 DEF Confirmed
  <2> QED
    BY <2>2, <2>3, NoneAssumption DEF AnyLayout, Shape, LifecycleTypeOK, PhaseTellsTheRest, Phases, Running
<1>2. ASSUME NEW key \in AnyKey, KeyReplaced(key)
      PROVE  Shape'
  <2>1. entry \in Entries
    BY <1>2 DEF KeyReplaced, Shape, LifecycleTypeOK, PhaseTellsTheRest, Phases, Running
  <2>2. entry' \in Entries /\ entry'.cap = entry.cap
    BY <1>2, <2>1 DEF KeyReplaced, Entries
  <2> QED
    BY <1>2, <2>1, <2>2, NoneAssumption DEF KeyReplaced, Withdrawn, Shape, LifecycleTypeOK, PhaseTellsTheRest, Phases, Running
<1>3. ASSUME NEW cap \in Caps, CapChosen(cap)
      PROVE  Shape'
  <2>1. entry \in Entries
    BY <1>3 DEF CapChosen, Shape, LifecycleTypeOK
  <2>2. entry' \in Entries /\ entry'.cap = cap
    BY <1>3, <2>1 DEF CapChosen, Entries
  <2> QED
    BY <1>3, <2>1, <2>2, NoneAssumption DEF CapChosen, history, Shape, LifecycleTypeOK, PhaseTellsTheRest, Phases, Running
<1> QED
  BY <1>1, <1>2, <1>3 DEF AnyKey

LEMMA NextKeepsShape == Shape /\ [Next]_vars => Shape'
<1> SUFFICES ASSUME Shape, [Next]_vars PROVE Shape'
  OBVIOUS
<1>1. CASE UNCHANGED vars
  BY <1>1 DEF vars, installed, history, Shape, LifecycleTypeOK, PhaseTellsTheRest, Phases, Running
<1> QED
  BY <1>1, SetupKeepsShape, CommandsKeepShape, UnloadingKeepsShape, FlowsKeepShape,
     EntryKeepsShape DEF Next

THEOREM ShapeIsKept == Spec => []Shape
<1> QED
  BY InitShape, NextKeepsShape, PTL DEF Spec

\* The request a device makes of the host's cap is its entry's own from setup
\* to unload: no order of the options form, the saved counters and the
\* advertisements leaves an older cap, or a request of nobody, behind.
THEOREM TheRequestIsTheEntrys == Spec => []RequestFollowsTheEntry
<1>1. Shape => RequestFollowsTheEntry
  BY DEF Shape, PhaseTellsTheRest, Running, RequestFollowsTheEntry
<1> QED
  BY <1>1, ShapeIsKept, PTL

----------------------------------------------------------------------------
\* The entry and its coordinator.

Agreement == NothingStoredIsLost /\ MarkIsAhead

\* A step that leaves what the two are about leaves them agreed.
LEMMA AgreementElsewhere ==
  ASSUME Agreement, UNCHANGED <<entry, now, old, chosen, last, shared>>
  PROVE  Agreement'
  BY DEF Agreement, NothingStoredIsLost, MarkIsAhead

LEMMA InitAgreement == Init => Agreement
  BY DEF Init, Nowhere, Agreement, NothingStoredIsLost, MarkIsAhead

LEMMA SetupKeepsAgreement ==
  ASSUME Shape, Agreement, SetUp \/ Migrates \/ PlatformsAreSetUp \/ Heard
  PROVE  Agreement'
<1>1. CASE SetUp
  <2>1. UNCHANGED <<old, chosen, last, shared>> /\ entry # None
    BY <1>1, SetUpStarts, NoneAssumption DEF SetUp, history
  <2>2. entry.mark \in Nat /\ last \in Nat
    BY <1>1, SetUpStarts DEF Entries, Shape, LifecycleTypeOK
  <2>3. NothingStoredIsLost'
    BY <1>1, <2>1, SetUpStarts DEF Agreement, NothingStoredIsLost
  <2>4. MarkIsAhead'
    <3>1. shared = FALSE => last <= entry.mark
      BY <2>1 DEF Agreement, MarkIsAhead
    <3>2. old # None => shared = TRUE
      BY DEF Agreement, MarkIsAhead
    <3>3. /\ entry'.mark = entry.mark
          /\ now'.counter = entry.mark /\ now'.mark = entry.mark
      BY <1>1, SetUpStarts
    <3> QED
      BY <2>1, <2>2, <3>1, <3>2, <3>3 DEF MarkIsAhead
  <2> QED
    BY <2>3, <2>4 DEF Agreement
<1>2. CASE Migrates \/ PlatformsAreSetUp
  BY <1>2, AgreementElsewhere DEF Migrates, PlatformsAreSetUp
<1>3. CASE Heard
  <2>1. now \in Coordinators /\ entry \in Entries
    BY <1>3 DEF Heard, Hearing, Shape, LifecycleTypeOK, PhaseTellsTheRest, Phases, Running
  <2>2. device.layout \in AnyLayout /\ entry.mark \in Nat
    BY <2>1 DEF Shape, LifecycleTypeOK, Devices, Entries
  <2>3. /\ now'.layout = device.layout /\ now'.counter = now.counter
        /\ now'.mark = now.mark
    BY <1>3, <2>1, <2>2 DEF Heard, Coordinators
  <2>4. /\ entry'.key = entry.key /\ entry'.layout = device.layout
        /\ entry'.mark = entry.mark
    BY <1>3, <2>1, <2>2, UpdateKeepsTheEntry DEF Heard
  <2>5. UNCHANGED <<old, chosen, last, shared>>
    BY <1>3 DEF Heard
  <2> QED
    BY <2>1, <2>3, <2>4, <2>5, NoneAssumption
       DEF Agreement, NothingStoredIsLost, MarkIsAhead
<1> QED
  BY <1>1, <1>2, <1>3

\* The coordinator of a set up entry draws above all it has drawn.
LEMMA CounterRises ==
  ASSUME Shape, Agreement, CommandIsSealed
  PROVE  /\ Agreement'
         /\ shared = FALSE => last' > last
<1>1. now \in Coordinators /\ entry \in Entries /\ now.left > 0 /\ now.orphan = FALSE
  BY DEF CommandIsSealed, Draw, Shape, LifecycleTypeOK, PhaseTellsTheRest, Phases, Running
<1>2. /\ now'.layout = now.layout /\ now'.counter = now.counter + 1
      /\ now'.mark = IF now.counter + 1 >= now.mark THEN now.counter + 1 + Stride
                                                    ELSE now.mark
  BY <1>1, DrawnCoordinator DEF CommandIsSealed
<1>3. /\ last' = now.counter + 1
      /\ entry'.key = entry.key /\ entry'.layout = entry.layout
      /\ \/ entry'.mark = entry.mark /\ now'.mark = now.mark
         \/ entry'.mark = now'.mark
  BY <1>1, DrawSaves, NoneAssumption DEF CommandIsSealed
<1>4. UNCHANGED <<old, chosen, shared>>
  BY DEF CommandIsSealed, Draw
<1>5. now.counter \in Nat /\ now.mark \in Nat /\ last \in Nat /\ Stride \in Nat
  BY <1>1, LifecycleAssumption DEF Coordinators, Shape, LifecycleTypeOK
<1>6. NothingStoredIsLost'
  BY <1>1, <1>2, <1>3, <1>4, NoneAssumption DEF Agreement, NothingStoredIsLost
<1>7. MarkIsAhead' /\ (shared = FALSE => last' > last)
  BY <1>1, <1>2, <1>3, <1>4, <1>5, NoneAssumption DEF Agreement, MarkIsAhead
<1> QED
  BY <1>6, <1>7 DEF Agreement

LEMMA CommandsKeepAgreement ==
  ASSUME Shape, Agreement, CommandGiven \/ LeftCommandIsSealed \/ CommandIsOver
  PROVE  Agreement'
<1> USE DEF Agreement, NothingStoredIsLost, MarkIsAhead
<1>1. ASSUME now \in Coordinators,
             \E n \in Int : now' = [now EXCEPT !.left = n],
             UNCHANGED <<entry, old, chosen, last, shared>>
      PROVE  Agreement'
  <2>1. now'.layout = now.layout /\ now'.counter = now.counter /\ now'.mark = now.mark
    BY <1>1 DEF Coordinators
  <2> QED
    BY <1>1, <2>1, NoneAssumption
<1>2. CASE CommandGiven
  <2>1. now \in Coordinators
    BY <1>2 DEF CommandGiven, Shape, LifecycleTypeOK, PhaseTellsTheRest, Phases, Running
  <2>2. now.left + 1 \in Int
    BY <2>1 DEF Coordinators
  <2> QED
    BY <1>1, <1>2, <2>1, <2>2 DEF CommandGiven, history
<1>3. CASE LeftCommandIsSealed
  <2>1. old \in Coordinators /\ (old.orphan = FALSE => entry # None)
    BY <1>3 DEF LeftCommandIsSealed, Draw, Shape, LifecycleTypeOK, PhaseTellsTheRest, Phases, Running
  <2>2. \/ UNCHANGED entry
        \/ entry \in Entries /\ entry'.key = entry.key /\ entry'.layout = entry.layout
    BY <1>3, <2>1, DrawSaves DEF LeftCommandIsSealed
  <2>3. UNCHANGED <<now, chosen, shared>>
    BY <1>3 DEF LeftCommandIsSealed, Draw
  <2> QED
    BY <2>1, <2>2, <2>3, NoneAssumption DEF Shape, LifecycleTypeOK
<1>4. CASE CommandIsOver
  <2>1. UNCHANGED <<entry, chosen, last, shared>>
    BY <1>4 DEF CommandIsOver, history
  <2>2. CASE /\ now # None /\ now.left > 0
             /\ now' = [now EXCEPT !.left = @ - 1] /\ UNCHANGED old
    <3>1. now \in Coordinators
      BY <2>2 DEF Shape, LifecycleTypeOK
    <3>2. now.left - 1 \in Int
      BY <3>1 DEF Coordinators
    <3> QED
      BY <1>1, <2>1, <2>2, <3>1, <3>2
  <2>3. CASE old # None /\ UNCHANGED now
    BY <2>1, <2>3 DEF Shape, LifecycleTypeOK
  <2> QED
    BY <1>4, <2>2, <2>3 DEF CommandIsOver
<1> QED
  BY <1>2, <1>3, <1>4

LEMMA UnloadingKeepsAgreement ==
  ASSUME Shape, Agreement, UnloadBegins \/ Unloads \/ UnloadFails \/ SetUpAgain \/ Restart
  PROVE  Agreement'
<1>1. CASE UnloadBegins \/ UnloadFails \/ SetUpAgain
  BY <1>1, AgreementElsewhere DEF UnloadBegins, UnloadFails, SetUpAgain, history
<1>2. CASE Unloads
  <2>1. now \in Coordinators
    BY <1>2 DEF Unloads, Shape, LifecycleTypeOK, PhaseTellsTheRest, Phases, Running
  <2>2. CASE now.left > 0
    BY <1>2, <2>1, <2>2 DEF Unloads, Agreement, NothingStoredIsLost, MarkIsAhead
  <2>3. CASE ~(now.left > 0)
    <3>1. old = None => old' = None
      BY <1>2, <2>3 DEF Unloads
    <3>2. shared' = shared
      BY <1>2, <2>3 DEF Unloads, Shape, LifecycleTypeOK
    <3>3. /\ entry' = None \/ UNCHANGED entry
          /\ now' = None /\ UNCHANGED <<chosen, last>>
      BY <1>2 DEF Unloads
    <3> QED
      BY <3>1, <3>2, <3>3 DEF Agreement, NothingStoredIsLost, MarkIsAhead
  <2> QED
    BY <2>2, <2>3
<1>3. CASE Restart
  BY <1>3 DEF Restart, history, Agreement, NothingStoredIsLost, MarkIsAhead
<1> QED
  BY <1>1, <1>2, <1>3

LEMMA EntryKeepsAgreement ==
  ASSUME Shape, Agreement,
         \/ \E f \in flows : Confirmed(f)
         \/ \E key \in Keys \cup {NoKey} : KeyReplaced(key)
         \/ \E cap \in Caps : CapChosen(cap)
  PROVE  Agreement'
<1> USE DEF Agreement, NothingStoredIsLost, MarkIsAhead
<1>1. ASSUME NEW f \in flows, Confirmed(f)
      PROVE  Agreement'
  <2>1. now = None
    BY <1>1 DEF Confirmed, Shape, LifecycleTypeOK, PhaseTellsTheRest, Phases, Running
  <2>2. entry'.key = f.key /\ entry'.mark = 0
    BY <1>1 DEF Confirmed
  <2>3. chosen' = f.key /\ last' = 0 /\ UNCHANGED <<now, old>>
    BY <1>1 DEF Confirmed
  <2>4. old # None => shared' = TRUE
    BY <1>1, Zenon DEF Confirmed
  <2> QED
    BY <2>1, <2>2, <2>3, <2>4
<1>2. ASSUME NEW key \in AnyKey, KeyReplaced(key)
      PROVE  Agreement'
  <2>1. entry \in Entries
    BY <1>2 DEF KeyReplaced, Shape, LifecycleTypeOK, PhaseTellsTheRest, Phases, Running
  <2>2. entry'.key = key /\ entry'.mark = entry.mark /\ entry'.layout = entry.layout
    BY <1>2, <2>1 DEF KeyReplaced, Entries
  <2>3. chosen' = key /\ UNCHANGED <<now, old, last, shared>>
    BY <1>2 DEF KeyReplaced
  <2> QED
    BY <2>1, <2>2, <2>3, NoneAssumption
<1>3. ASSUME NEW cap \in Caps, CapChosen(cap)
      PROVE  Agreement'
  <2>1. entry \in Entries
    BY <1>3 DEF CapChosen, Shape, LifecycleTypeOK
  <2>2. entry'.key = entry.key /\ entry'.mark = entry.mark /\ entry'.layout = entry.layout
    BY <1>3, <2>1 DEF CapChosen, Entries
  <2>3. UNCHANGED <<now, old, chosen, last, shared>>
    BY <1>3 DEF CapChosen, history
  <2> QED
    BY <2>1, <2>2, <2>3, NoneAssumption
<1> QED
  BY <1>1, <1>2, <1>3 DEF AnyKey

LEMMA NextKeepsAgreement == Shape /\ Agreement /\ [Next]_vars => Agreement'
<1> SUFFICES ASSUME Shape, Agreement, [Next]_vars PROVE Agreement'
  OBVIOUS
<1>1. CASE UNCHANGED vars
  BY <1>1, AgreementElsewhere DEF vars, installed, history
<1>2. CASE \/ DeviceChanges \/ Discovered \/ UserLooks
           \/ \E f \in flows : UserPicks(f) \/ \E key \in Keys : KeyGiven(f, key)
  BY <1>2, AgreementElsewhere
     DEF DeviceChanges, Discovered, UserLooks, UserPicks, KeyGiven, installed, history
<1> QED
  BY <1>1, <1>2, SetupKeepsAgreement, CounterRises, CommandsKeepAgreement,
     UnloadingKeepsAgreement, EntryKeepsAgreement DEF Next

LEMMA AgreementIsKept == Spec => []Agreement
<1> QED
  BY InitAgreement, ShapeIsKept, NextKeepsAgreement, PTL DEF Spec

\* No update of the entry undoes another: of the flows that store a key, the
\* advertisements that store a layout and the counters that store a mark, in
\* whatever order, the entry holds the last of each.
THEOREM NoUpdateIsUndone == Spec => []NothingStoredIsLost
<1>1. Agreement => NothingStoredIsLost
  BY DEF Agreement
<1> QED
  BY <1>1, AgreementIsKept, PTL

\* In the life of an entry the counters its device receives only rise, over
\* reloads and restarts, until a coordinator is unloaded with commands left.
THEOREM CountersRiseForADevice == Spec => OneCounterPerDevice
<1>1. Shape /\ Agreement /\ [Next]_vars => [CommandIsSealed /\ ~shared => last' > last]_vars
  BY CounterRises DEF Shape, LifecycleTypeOK
<1> QED
  BY <1>1, ShapeIsKept, AgreementIsKept, PTL DEF Spec, OneCounterPerDevice

----------------------------------------------------------------------------
\* The registry.

Registry == /\ OldRowsAreOld /\ NoIdentityIsTakenTwice
            /\ KnownWereMigrated /\ AutomationsKeepTheirControls

LEMMA RegistryElsewhere ==
  ASSUME Registry, UNCHANGED <<rows, knew, unseen>>
  PROVE  Registry'
  BY DEF Registry, OldRowsAreOld, NoIdentityIsTakenTwice, KnownWereMigrated,
         AutomationsKeepTheirControls, Known

LEMMA NoRowsKeepRegistry ==
  ASSUME rows = {}
  PROVE  Registry
  BY DEF Registry, OldRowsAreOld, NoIdentityIsTakenTwice, KnownWereMigrated,
         AutomationsKeepTheirControls

\* The controls of a layout, and of the layout a migration went by, are controls.
LEMMA LayoutsHaveControls ==
  ASSUME NEW layout \in AnyLayout, layout # None, NEW x \in layout
  PROVE  x \in Controls
  BY LayoutAssumption DEF AnyLayout

\* A control is known by its domain and what its identity says.
LEMMA IdentityOfControl ==
  ASSUME NEW x \in Controls, NEW y \in Controls,
         x.domain = y.domain, NewId(x) = NewId(y)
  PROVE  x = y
<1>1. x.number = y.number /\ x.object = y.object /\ x.code = y.code
  BY DEF NewId
<1> QED
  BY <1>1 DEF Controls

\* A row's parts, and that an old identity is never a new one.
LEMMA PartsOfRows ==
  ASSUME NEW x \in Controls
  PROVE  /\ Row(x.domain, NewId(x), FALSE).domain = x.domain
         /\ Row(x.domain, NewId(x), FALSE).id = NewId(x)
         /\ Row(x.domain, NewId(x), FALSE).used = FALSE
         /\ Row(x.domain, OldId(x), TRUE).domain = x.domain
         /\ Row(x.domain, OldId(x), TRUE).id = OldId(x)
         /\ NewId(x).form = "new" /\ OldId(x).form = "old"
  BY DEF Row, NewId, OldId

LEMMA InitRegistry == Init => Registry
<1> SUFFICES ASSUME Init PROVE Registry
  OBVIOUS
<1>1. CASE rows = {}
  BY <1>1, NoRowsKeepRegistry
<1>2. CASE rows = OldRows
  <2>1. ASSUME NEW r \in OldRows
        PROVE  r.id.form = "old" /\ r.id.object = 0 /\ r.used = TRUE
    BY <2>1, OldRowsAssumption DEF Row, OldId
  <2>2. OldRowsAreOld /\ NoIdentityIsTakenTwice
    BY <1>2, <2>1, OldRowsAssumption DEF OldRowsAreOld, NoIdentityIsTakenTwice
  <2>3. KnownWereMigrated
    BY DEF KnownWereMigrated, Init, Nowhere
  <2>4. \A x \in Controls : Row(x.domain, NewId(x), FALSE) \notin rows
    BY <1>2, <2>1, PartsOfRows
  <2>5. AutomationsKeepTheirControls
    BY <2>4, LayoutAssumption DEF AutomationsKeepTheirControls
  <2> QED
    BY <2>2, <2>3, <2>5 DEF Registry
<1> QED
  BY <1>1, <1>2 DEF Init

\* The platforms add a row only for an identity no row has, and what they
\* leave an old row beside is unseen.
LEMMA AddingKeepsRegistry ==
  ASSUME Shape, Registry, NEW layout \in AnyLayout, AddControls(layout), knew' = knew
  PROVE  Registry'
<1> DEFINE new == RowsFor(layout)
<1>1. ASSUME NEW r \in new
      PROVE  /\ layout # None
             /\ \E x \in layout :
                  /\ r = Row(x.domain, NewId(x), FALSE) /\ x \in Controls
                  /\ ~Known(NewId(x), x.domain, rows)
  BY <1>1, LayoutsHaveControls DEF RowsFor
<1>2. rows' = rows \cup new
  BY DEF AddControls
<1> HIDE DEF new
<1>3. ASSUME NEW r \in new
      PROVE  r.id.form = "new" /\ r.used = FALSE /\ ~Known(r.id, r.domain, rows)
  BY <1>1, PartsOfRows
<1>4. OldRowsAreOld'
  BY <1>2, <1>3 DEF OldRowsAreOld, Registry
<1>5. NoIdentityIsTakenTwice'
  <2>1. ASSUME NEW r \in new, NEW s \in rows
        PROVE  r.domain # s.domain \/ r.id # s.id
    BY <1>3, <2>1 DEF Known
  <2>2. ASSUME NEW r \in new, NEW s \in new, r # s
        PROVE  r.domain # s.domain \/ r.id # s.id
    <3>1. PICK x \in Controls : r = Row(x.domain, NewId(x), FALSE)
      BY <1>1
    <3>2. PICK y \in Controls : s = Row(y.domain, NewId(y), FALSE)
      BY <1>1
    <3>3. /\ r.domain = x.domain /\ r.id = NewId(x)
          /\ s.domain = y.domain /\ s.id = NewId(y)
      BY <3>1, <3>2, PartsOfRows
    <3> QED
      BY <2>2, <3>1, <3>2, <3>3
  <2> QED
    BY <1>2, <2>1, <2>2 DEF NoIdentityIsTakenTwice, Registry
<1>6. ASSUME NEW x \in Controls, Row(x.domain, OldId(x), TRUE) \in rows'
      PROVE  Row(x.domain, OldId(x), TRUE) \in rows
  BY <1>2, <1>3, <1>6, PartsOfRows
<1>7. KnownWereMigrated'
  <2>1. knew # None => \A y \in knew : y \in Controls
    BY LayoutsHaveControls DEF Shape, LifecycleTypeOK
  <2>2. \A id, domain : Known(id, domain, rows) => Known(id, domain, rows')
    BY <1>2 DEF Known
  <2> QED
    BY <1>6, <2>1, <2>2 DEF KnownWereMigrated, Registry
<1>8. AutomationsKeepTheirControls'
  <2> SUFFICES ASSUME NEW l \in Layouts, NEW x \in l,
                      Row(x.domain, OldId(x), TRUE) \in rows', x \notin unseen',
                      Row(x.domain, NewId(x), FALSE) \in rows'
               PROVE  FALSE
    BY DEF AutomationsKeepTheirControls
  <2>1. x \in Controls
    BY LayoutAssumption
  <2>2. Row(x.domain, OldId(x), TRUE) \in rows
    BY <1>6, <2>1
  <2>3. x \notin unseen
    BY DEF AddControls
  <2>4. Row(x.domain, NewId(x), FALSE) \in new
    BY <1>2, <2>2, <2>3 DEF AutomationsKeepTheirControls, Registry
  <2>5. PICK y \in layout :
          /\ Row(x.domain, NewId(x), FALSE) = Row(y.domain, NewId(y), FALSE)
          /\ y \in Controls /\ ~Known(NewId(y), y.domain, rows) /\ layout # None
    BY <1>1, <2>4
  <2>6. x.domain = y.domain /\ NewId(x) = NewId(y)
    BY <2>1, <2>5, PartsOfRows
  <2>7. x = y
    BY <2>1, <2>5, <2>6, IdentityOfControl
  <2>8. knew # None /\ x \in knew
    BY <2>5, <2>7 DEF AddControls
  <2> QED
    BY <2>2, <2>5, <2>7, <2>8 DEF KnownWereMigrated, Registry
<1> QED
  BY <1>4, <1>5, <1>7, <1>8 DEF Registry

\* The migration renames an old row only to an identity that is free; what it
\* leaves old, of the controls of its layout, had its identity taken.
LEMMA MigrationKeepsRegistry ==
  ASSUME Shape, Registry, NEW layout \in AnyLayout, rows' = MigratedRows(layout),
         knew' = layout, UNCHANGED unseen
  PROVE  Registry'
<1>1. CASE layout = None
  <2>1. rows' = rows
    BY <1>1 DEF MigratedRows
  <2> QED
    BY <1>1, <2>1 DEF Registry, OldRowsAreOld, NoIdentityIsTakenTwice, KnownWereMigrated,
       AutomationsKeepTheirControls
<1>2. CASE layout # None
  <2> DEFINE m(r) == Migrated(r, layout)
  <2>1. layout \in Layouts /\ rows' = {m(r) : r \in rows} /\ rows \subseteq Rows
    BY <1>2 DEF AnyLayout, MigratedRows, Shape, LifecycleTypeOK
  <2>2. ASSUME NEW r \in rows
        PROVE  \/ m(r) = r
               \/ /\ r.id.form = "old" /\ r.used = TRUE /\ m(r).used = TRUE
                  /\ m(r).domain = r.domain /\ m(r).id.form = "new"
                  /\ m(r).id.number = r.id.number /\ m(r).id.code = r.id.code
                  /\ ~Known(m(r).id, r.domain, rows)
    <3>1. r \in Rows
      BY <2>1
    <3>2. r.id.form = "old" => r.used = TRUE
      BY DEF Registry, OldRowsAreOld
    <3>3. CASE m(r) = r
      BY <3>3
    <3>4. CASE m(r) # r
      <4>1. PICK x \in layout :
              LET id == [form |-> "new", number |-> r.id.number,
                         object |-> x.object, code |-> r.id.code]
              IN /\ r.id.form = "old" /\ ~Known(id, r.domain, rows)
                 /\ m(r) = Row(r.domain, id, r.used)
        BY <2>1, <3>1, <3>4, MigratedRow
      <4>2. m(r).id = [form |-> "new", number |-> r.id.number,
                       object |-> x.object, code |-> r.id.code]
        BY <4>1 DEF Row
      <4>3. m(r).domain = r.domain /\ m(r).used = r.used
        BY <4>1 DEF Row
      <4> HIDE DEF m
      <4> QED
        BY <3>2, <4>1, <4>2, <4>3
    <3> QED
      BY <3>3, <3>4
  <2> HIDE DEF m
  <2>3. \A r \in rows : m(r).id.form = "old" => m(r) = r
    BY <2>2
  <2>4. OldRowsAreOld'
    BY <2>1, <2>3 DEF OldRowsAreOld, Registry
  <2>5. NoIdentityIsTakenTwice'
    <3>1. ASSUME NEW r \in rows, NEW s \in rows,
                 m(r).domain = m(s).domain, m(r).id = m(s).id
          PROVE  m(r) = m(s)
      <4>1. CASE m(r) = r /\ m(s) = s
        BY <3>1, <4>1 DEF NoIdentityIsTakenTwice, Registry
      <4>2. CASE m(r) = r /\ m(s) # s
        BY <2>2, <3>1, <4>2 DEF Known
      <4>3. CASE m(r) # r /\ m(s) = s
        BY <2>2, <3>1, <4>3 DEF Known
      <4>4. CASE m(r) # r /\ m(s) # s
        <5>1. /\ r.domain = s.domain /\ r.id.form = "old" /\ s.id.form = "old"
              /\ r.id.number = s.id.number /\ r.id.code = s.id.code
          BY <2>2, <3>1, <4>4
        <5>2. r.id.object = 0 /\ s.id.object = 0
          BY <5>1 DEF Registry, OldRowsAreOld
        <5>3. r.id \in Ids /\ s.id \in Ids
          BY <2>1 DEF Rows
        <5>4. r.id = s.id
          BY <5>1, <5>2, <5>3 DEF Ids
        <5> QED
          BY <5>1, <5>4 DEF NoIdentityIsTakenTwice, Registry
      <4> QED
        BY <4>1, <4>2, <4>3, <4>4
    <3> QED
      BY <2>1, <3>1 DEF NoIdentityIsTakenTwice
  <2>6. ASSUME NEW x \in Controls, Row(x.domain, OldId(x), TRUE) \in rows'
        PROVE  LET r == Row(x.domain, OldId(x), TRUE) IN r \in rows /\ m(r) = r
    <3>1. PICK s \in rows : m(s) = Row(x.domain, OldId(x), TRUE)
      BY <2>1, <2>6
    <3>2. m(s).id.form = "old"
      BY <3>1, PartsOfRows
    <3>3. m(s) = s
      BY <2>3, <3>2
    <3> QED
      BY <3>1, <3>3
  <2>7. KnownWereMigrated'
    <3> SUFFICES ASSUME NEW y \in layout, Row(y.domain, OldId(y), TRUE) \in rows'
                 PROVE  Known(NewId(y), y.domain, rows')
      BY DEF KnownWereMigrated
    <3> DEFINE r == Row(y.domain, OldId(y), TRUE)
    <3>1. y \in Controls
      BY <2>1, LayoutAssumption
    <3>2. r \in rows /\ m(r) = r
      BY <2>6, <3>1
    <3>3. Known(NewId(y), y.domain, rows)
      BY <2>1, <3>1, <3>2, LeftIsTaken DEF m
    <3>4. PICK s \in rows : s.domain = y.domain /\ s.id = NewId(y)
      BY <3>3 DEF Known
    <3>5. m(s) = s
      BY <2>2, <3>1, <3>4, PartsOfRows
    <3> QED
      BY <2>1, <3>4, <3>5 DEF Known
  <2>8. AutomationsKeepTheirControls'
    <3> SUFFICES ASSUME NEW l \in Layouts, NEW x \in l,
                        Row(x.domain, OldId(x), TRUE) \in rows', x \notin unseen',
                        Row(x.domain, NewId(x), FALSE) \in rows'
                 PROVE  FALSE
      BY DEF AutomationsKeepTheirControls
    <3>1. x \in Controls
      BY LayoutAssumption
    <3>2. Row(x.domain, OldId(x), TRUE) \in rows
      BY <2>6, <3>1
    <3>3. PICK s \in rows : m(s) = Row(x.domain, NewId(x), FALSE)
      BY <2>1
    <3>4. m(s).used = FALSE
      BY <3>1, <3>3, PartsOfRows
    <3>5. m(s) = s
      BY <2>2, <3>4
    <3> QED
      BY <3>2, <3>3, <3>5 DEF AutomationsKeepTheirControls, Registry
  <2> QED
    BY <2>4, <2>5, <2>7, <2>8 DEF Registry
<1> QED
  BY <1>1, <1>2

LEMMA NextKeepsRegistry == Shape /\ Registry /\ [Next]_vars => Registry'
<1> SUFFICES ASSUME Shape, Registry, [Next]_vars PROVE Registry'
  OBVIOUS
<1>1. ASSUME now \in Coordinators
      PROVE  now.layout \in AnyLayout
  BY <1>1 DEF Coordinators
<1>2. CASE Migrates
  <2>1. now \in Coordinators
    BY <1>2 DEF Migrates, Shape, LifecycleTypeOK, PhaseTellsTheRest, Running
  <2> QED
    BY <1>1, <1>2, <2>1, MigrationKeepsRegistry DEF Migrates
<1>3. CASE PlatformsAreSetUp
  <2>1. now \in Coordinators
    BY <1>3 DEF PlatformsAreSetUp, Shape, LifecycleTypeOK, PhaseTellsTheRest, Running
  <2> QED
    BY <1>1, <1>3, <2>1, AddingKeepsRegistry DEF PlatformsAreSetUp
<1>4. CASE Heard
  <2>1. device.layout \in AnyLayout
    BY DEF Shape, LifecycleTypeOK, Devices
  <2>2. knew' = knew /\ (AddControls(device.layout) \/ UNCHANGED <<rows, unseen>>)
    BY <1>4 DEF Heard
  <2> QED
    BY <2>1, <2>2, AddingKeepsRegistry, RegistryElsewhere
<1>5. CASE Unloads
  <2>1. rows' = {} \/ UNCHANGED <<rows, knew, unseen>>
    BY <1>5 DEF Unloads
  <2>2. rows' = {} => Registry'
    BY DEF Registry, OldRowsAreOld, NoIdentityIsTakenTwice, KnownWereMigrated,
           AutomationsKeepTheirControls
  <2> QED
    BY <2>1, <2>2, RegistryElsewhere
<1>6. ASSUME NEW f \in flows, Confirmed(f)
      PROVE  Registry'
  <2>1. rows' = {}
    BY <1>6 DEF Confirmed, Shape, PhaseTellsTheRest
  <2> QED
    BY <2>1 DEF Registry, OldRowsAreOld, NoIdentityIsTakenTwice, KnownWereMigrated,
       AutomationsKeepTheirControls
<1>7. CASE \/ SetUp \/ DeviceChanges \/ CommandGiven \/ CommandIsSealed
           \/ LeftCommandIsSealed \/ CommandIsOver
  <2>1. UNCHANGED <<rows, knew, unseen>>
    BY <1>7 DEF SetUp, DeviceChanges, CommandGiven, CommandIsSealed,
       LeftCommandIsSealed, CommandIsOver, Draw, installed, history
  <2> QED
    BY <2>1, RegistryElsewhere
<1>8. CASE \/ UnloadBegins \/ UnloadFails \/ SetUpAgain \/ Restart
           \/ Discovered \/ UserLooks \/ UNCHANGED vars
  <2>1. UNCHANGED <<rows, knew, unseen>>
    BY <1>8 DEF UnloadBegins, UnloadFails, SetUpAgain, Restart, Discovered, UserLooks,
       vars, installed, history
  <2> QED
    BY <2>1, RegistryElsewhere
<1>9. CASE \/ \E f \in flows : UserPicks(f) \/ \E key \in Keys : KeyGiven(f, key)
           \/ \E key \in Keys \cup {NoKey} : KeyReplaced(key)
           \/ \E cap \in Caps : CapChosen(cap)
  <2>1. UNCHANGED <<rows, knew, unseen>>
    BY <1>9 DEF UserPicks, KeyGiven, KeyReplaced, CapChosen, installed, history
  <2> QED
    BY <2>1, RegistryElsewhere
<1> QED
  BY <1>2, <1>3, <1>4, <1>5, <1>6, <1>7, <1>8, <1>9 DEF Next

LEMMA RegistryIsKept == Spec => []Registry
<1> QED
  BY InitRegistry, ShapeIsKept, NextKeepsRegistry, PTL DEF Spec

\* Whatever rows an installation comes with and whatever layouts its device
\* declares, two entities of a domain never have one identity: neither the
\* change of unique ids nor the platforms make a row for one that is taken.
THEOREM IdentitiesAreUnique == Spec => []NoIdentityIsTakenTwice
<1>1. Registry => NoIdentityIsTakenTwice
  BY DEF Registry
<1> QED
  BY <1>1, RegistryIsKept, PTL

\* An entity automations name keeps its row through the change of unique ids:
\* of a control whose layout was known in time, no new row appears beside it.
THEOREM AutomationsAreNotOrphaned == Spec => []AutomationsKeepTheirControls
<1>1. Registry => AutomationsKeepTheirControls
  BY DEF Registry
<1> QED
  BY <1>1, RegistryIsKept, PTL
=============================================================================
