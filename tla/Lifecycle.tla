------------------------------ MODULE Lifecycle ------------------------------
(***************************************************************************)
(* The life of a config entry (__init__.py, config_flow.py): a device is   *)
(* discovered and confirmed, set up, reloaded with another key, unloaded,  *)
(* removed; Home Assistant restarts.  An action is what runs between two   *)
(* suspensions; an update of the entry runs its listener at once.          *)
(*                                                                         *)
(* A coordinator's tasks are Home Assistant's and not the entry's, so the  *)
(* commands left to it go on after an unload.  The clock is behind the     *)
(* stored mark, as it is once the counter has been resynchronised; see     *)
(* ReceiverCounter for the clock.                                          *)
(***************************************************************************)
EXTENDS Integers, FiniteSets

CONSTANTS
  Keys, NoKey, None,
  Layouts,      \* the layouts the device may declare, sets of controls
  OldRows,      \* the rows an entry from before D-069 has in the registry
  Caps,         \* the values of the options form
  Default,      \* DEFAULT_MAX_CONNECTIONS
  Stride,       \* COUNTER_STRIDE
  MaxCommands,  \* bound on the commands given
  MaxChanges    \* bound on what the user, the device and the host do

ASSUME LifecycleAssumption ==
  /\ NoKey \notin Keys /\ Default \in Caps /\ Caps \subseteq Nat \ {0}
  /\ Stride \in Nat \ {0} /\ MaxCommands \in Nat /\ MaxChanges \in Nat

VARIABLES
  device,   \* what it sends: its key and its layout
  past,     \* the keys it has had
  flows,    \* the config flows that wait for the user
  entry,    \* the config entry, None without one
  phase,    \* what Home Assistant is doing with it
  request,  \* its request in the registry of the cap, 0 for none
  listens,  \* whether _cap_may_have_moved listens to its updates
  now,      \* its coordinator
  old,      \* an earlier one that has commands left
  rows,     \* the registry of its entities
  chosen,   \* the key that was proved last, or cleared
  knew,     \* the layout the last migration went by
  unseen,   \* the controls whose rows were made in a setup that had not known
            \* them when it migrated
  last,     \* the counter the device received last, 0 for this entry's first
  shared,   \* whether a coordinator of this entry was left with commands
  commands, changes

installed == <<entry, phase, request, listens, now, old, rows>>
history == <<chosen, knew, unseen, last, shared>>
vars == <<device, past, flows, installed, history, commands, changes>>

Change == changes < MaxChanges /\ changes' = changes + 1

\* A coordinator is reached by advertisements once setup has registered it.
Hearing == {"forwarding", "loaded", "unloading", "reloading", "stuck"}

----------------------------------------------------------------------------
\* What the state is made of.

AnyKey == Keys \cup {NoKey}
AnyLayout == Layouts \cup {None}

Devices == [key : AnyKey, layout : AnyLayout]
Entries == [key : AnyKey, cap : Caps, mark : Nat, layout : AnyLayout]
Coordinators ==
  [key : AnyKey, counter : Nat, mark : Nat, left : Nat, layout : AnyLayout,
   found : Entries, orphan : BOOLEAN]
Flows == [via : {"bluetooth", "user"}, seen : Devices, key : AnyKey,
          step : {"key", "confirm", "pick"}]

ASSUME NoneAssumption == None \notin Entries \cup Coordinators \cup Layouts

----------------------------------------------------------------------------
\* The registry.  A control is what a declared entry becomes: its domain, its
\* number, its object and, for a button, the value it sends.  A row is known
\* by its domain and its unique id, of the old form or of the new.

NewId(x) == [form |-> "new", number |-> x.number, object |-> x.object, code |-> x.code]
OldId(x) == [form |-> "old", number |-> x.number, object |-> 0, code |-> x.code]

Row(domain, id, used) == [domain |-> domain, id |-> id, used |-> used]

\* A device declares one object under a number, and of a control only a
\* button's carries a value; an old row was somebody's, and no two were alike.
Domains == {"button", "number", "switch", "text"}
Controls == [domain : Domains, number : Nat, object : Nat, code : Nat]
Ids == [form : {"new", "old"}, number : Nat, object : Nat, code : Nat]
Rows == [domain : Domains, id : Ids, used : BOOLEAN]

ASSUME LayoutAssumption ==
  \A l \in Layouts : \A x \in l :
    /\ x \in Controls /\ (x.domain = "button" <=> x.code # 0)
    /\ \A y \in l : x.number = y.number => x.object = y.object

ASSUME OldRowsAssumption ==
  \A r \in OldRows :
    /\ \E l \in Layouts : \E x \in l : r = Row(x.domain, OldId(x), TRUE)
    /\ \A s \in OldRows : r # s => r.domain # s.domain \/ r.id # s.id

Known(id, domain, registered) == \E r \in registered : r.domain = domain /\ r.id = id

\* Fault: a row is renamed though the new identity is taken.
Unclaimed(r, id) == TRUE

\* Nothing answers to the new identity yet.
Free(r, id) == ~Known(id, r.domain, rows)

\* Fault: the buttons are left behind.
OnlyStates(r) == r.domain # "button" /\ r.id.code = 0

\* Only the button platform ever carried a value.
RightShape(r) == r.domain = "button" <=> r.id.code # 0

\* _migrate, for one row: the object comes from the declaration.
Migrated(r, layout) ==
  LET declared == {x \in layout : x.number = r.id.number}
      id == IF declared = {} THEN r.id
            ELSE [NewId(CHOOSE x \in declared : TRUE) EXCEPT !.code = r.id.code]
  IN IF r.id.form = "old" /\ declared # {} /\ RightShape(r) /\ Free(r, id)
     THEN [r EXCEPT !.id = id] ELSE r

\* _migrate_unique_ids: nothing, while no declaration is known.
MigratedRows(layout) ==
  IF layout = None THEN rows ELSE {Migrated(r, layout) : r \in rows}

\* add_entities_as_declared, for the controls that have no row yet.
RowsFor(layout) ==
  IF layout = None THEN {}
  ELSE {Row(x.domain, NewId(x), FALSE) : x \in
          {y \in layout : ~Known(NewId(y), y.domain, rows)}}

AddControls(layout) ==
  /\ rows' = rows \cup RowsFor(layout)
  /\ unseen' = unseen \cup {x \in (IF layout = None THEN {} ELSE layout) :
                              /\ ~Known(NewId(x), x.domain, rows)
                              /\ knew = None \/ x \notin knew}

----------------------------------------------------------------------------
\* Between the device and the host.

Opens(key) == device.key \in {NoKey, key}

\* Fault: what the entry held at setup is written back with the change.
SavedFromSetup(c, e, key, layout, mark) ==
  [c.found EXCEPT !.layout = layout, !.mark = mark]

\* {**entry.data, ...}: one thing changes, and the rest is what it is now.
Saved(c, e, key, layout, mark) == [e EXCEPT !.layout = layout, !.mark = mark]

\* An update of the entry by coordinator c runs the listener.
Update(c, layout, mark) ==
  /\ entry' = Saved(c, entry, entry.key, layout, mark)
  /\ request' = IF listens THEN entry.cap ELSE request

\* Fault: the counter starts anew.
CoordinatorFromZero(e) ==
  [key |-> e.key, counter |-> 0, mark |-> 0, left |-> 0,
   layout |-> e.layout, found |-> e, orphan |-> FALSE]

\* The coordinator of an entry, restored from what the entry holds.
Coordinator(e) ==
  [key |-> e.key, counter |-> e.mark, mark |-> e.mark, left |-> 0,
   layout |-> e.layout, found |-> e, orphan |-> FALSE]

\* async_setup_entry up to the migration: the request and the listener are
\* registered, and the last advertisement is absorbed if there is one.
SetUp ==
  /\ phase = "found"
  /\ listens' = TRUE /\ request' = entry.cap
  /\ \E seen \in BOOLEAN :
       LET heard == seen /\ Opens(entry.key) /\ device.layout # None
           layout == IF heard THEN device.layout ELSE entry.layout
       IN /\ now' = [Coordinator(entry) EXCEPT !.layout = layout]
          /\ entry' = [entry EXCEPT !.layout = layout]
  /\ phase' = "migrating"
  /\ UNCHANGED <<device, past, flows, old, rows, history, commands, changes>>

\* The migration, and the callbacks that follow it.  Two rows of one identity
\* fail the setup.
Migrates ==
  /\ phase = "migrating"
  /\ rows' = MigratedRows(now.layout)
  /\ knew' = now.layout
  /\ phase' = IF \E r, s \in rows' : r # s /\ r.domain = s.domain /\ r.id = s.id
              THEN "failed" ELSE "forwarding"
  /\ UNCHANGED <<device, past, flows, entry, request, listens, now, old, chosen,
                 unseen, last, shared, commands, changes>>

\* async_forward_entry_setups
PlatformsAreSetUp ==
  /\ phase = "forwarding"
  /\ AddControls(now.layout)
  /\ phase' = "loaded"
  /\ UNCHANGED <<device, past, flows, entry, request, listens, now, old, chosen,
                 knew, last, shared, commands, changes>>

\* An advertisement declares a layout: the entry keeps it, and the platforms
\* add what is new.
Heard ==
  /\ phase \in Hearing /\ Opens(now.key)
  /\ device.layout \notin {None, now.layout}
  /\ now' = [now EXCEPT !.layout = device.layout]
  /\ Update(now, device.layout, entry.mark)
  /\ IF phase \in {"loaded", "stuck"} THEN AddControls(device.layout)
                                      ELSE UNCHANGED <<rows, unseen>>
  /\ UNCHANGED <<device, past, flows, phase, listens, old, chosen, knew, last,
                 shared, commands, changes>>

\* The device is flashed anew.
DeviceChanges ==
  /\ Change
  /\ device' \in [key : Keys \cup {NoKey}, layout : Layouts \cup {None}]
  /\ device' # device
  /\ past' = past \cup {device'.key}
  /\ UNCHANGED <<flows, installed, history, commands>>

----------------------------------------------------------------------------
\* Commands.  Each coordinator keeps a queue and a counter of its own.

CommandGiven == /\ phase \in {"loaded", "stuck"} /\ commands < MaxCommands
                /\ commands' = commands + 1
                /\ now' = [now EXCEPT !.left = @ + 1]
                /\ UNCHANGED <<device, past, flows, entry, phase, request, listens,
                               old, rows, history, changes>>

\* next_write_counter of coordinator c, as it is afterwards.
Drawn(c) ==
  [c EXCEPT !.left = @ - 1, !.counter = @ + 1,
            !.mark = IF c.counter + 1 >= @ THEN c.counter + 1 + Stride ELSE @]

\* A command is sealed and sent, or fails because the entry its mark is for
\* has been removed.
Draw(c) ==
  LET saves == Drawn(c).mark # c.mark IN
  /\ c # None /\ c.left > 0 /\ c.key # NoKey
  /\ IF saves /\ ~c.orphan THEN Update(c, entry.layout, Drawn(c).mark)
                           ELSE UNCHANGED <<entry, request>>
  /\ last' = IF saves /\ c.orphan THEN last ELSE Drawn(c).counter
  /\ UNCHANGED <<device, past, flows, phase, listens, rows, chosen, knew, unseen,
                 shared, commands, changes>>

CommandIsSealed == Draw(now) /\ now' = Drawn(now) /\ UNCHANGED old

LeftCommandIsSealed ==
  /\ Draw(old)
  /\ old' = IF old.left = 1 THEN None ELSE Drawn(old)
  /\ UNCHANGED now

\* A command that draws no counter: it goes out in clear, or is refused, or
\* finds no connection.
CommandIsOver ==
  /\ \/ /\ now # None /\ now.left > 0
        /\ now' = [now EXCEPT !.left = @ - 1] /\ UNCHANGED old
     \/ /\ old # None
        /\ old' = IF old.left = 1 THEN None ELSE [old EXCEPT !.left = @ - 1]
        /\ UNCHANGED now
  /\ UNCHANGED <<device, past, flows, entry, phase, request, listens, rows, history,
                 commands, changes>>

----------------------------------------------------------------------------
\* Unloading.

\* Fault: the request is withdrawn before the platforms are unloaded.
WithdrawnFirst(at) == IF at = "begin" THEN 0 ELSE request

\* The request when the unloading begins, and when it has succeeded.
Withdrawn(at) == IF at = "begin" THEN request ELSE 0

\* async_unload_platforms: commands and advertisements go on meanwhile.
UnloadBegins ==
  /\ Change /\ phase = "loaded"
  /\ phase' = "unloading" /\ request' = Withdrawn("begin")
  /\ UNCHANGED <<device, past, flows, entry, listens, now, old, rows, history,
                 commands>>

\* The platforms are unloaded: to be set up again, to stay, or to be removed.
\* At most one earlier coordinator is followed.
Unloads ==
  /\ \/ phase = "unloading" /\ phase' \in {"found", "not loaded", "none"}
     \/ phase = "reloading" /\ phase' = "found"
  /\ old = None \/ now.left = 0
  /\ request' = Withdrawn("end") /\ listens' = FALSE
  /\ entry' = IF phase' = "none" THEN None ELSE entry
  /\ rows' = IF phase' = "none" THEN {} ELSE rows
  /\ LET left == IF now.left > 0 THEN now ELSE old
     IN old' = IF left = None \/ phase' # "none" THEN left
               ELSE [left EXCEPT !.orphan = TRUE]
  /\ now' = None
  /\ shared' = (shared \/ now.left > 0)
  /\ UNCHANGED <<device, past, flows, chosen, knew, unseen, last, commands, changes>>

\* A platform does not unload: the entry stays as it is.
UnloadFails ==
  /\ phase \in {"unloading", "reloading"}
  /\ phase' = "stuck"
  /\ UNCHANGED <<device, past, flows, entry, request, listens, now, old, rows, history,
                 commands, changes>>

SetUpAgain == /\ Change /\ phase = "not loaded"
              /\ phase' = "found"
              /\ UNCHANGED <<device, past, flows, entry, request, listens, now, old,
                             rows, history, commands>>

\* Home Assistant restarts: entries and rows are what is left.
Restart ==
  /\ Change /\ entry # None
  /\ phase' = "found" /\ request' = 0 /\ listens' = FALSE
  /\ now' = None /\ old' = None /\ flows' = {}
  /\ UNCHANGED <<device, past, entry, rows, history, commands>>

----------------------------------------------------------------------------
\* The flows of the user.

\* What a device that is heard can be asked for.
Offers(seen, key) ==
  /\ seen.layout \notin {None, {}}
  /\ seen.key \in {NoKey, key}

Asking(via, seen) == [via |-> via, seen |-> seen, key |-> NoKey, step |-> "key"]
Proposing(via, seen, key) == [via |-> via, seen |-> seen, key |-> key, step |-> "confirm"]

\* What becomes of a device that was seen: a question, an offer, or nothing.
FlowFor(via, seen) ==
  IF seen.key # NoKey THEN {Asking(via, seen)}
  ELSE IF Offers(seen, NoKey) THEN {Proposing(via, seen, NoKey)}
  ELSE {}

\* async_step_bluetooth: one discovery flow for a device at a time.
Discovered ==
  /\ entry = None /\ flows = {}
  /\ flows' = FlowFor("bluetooth", device)
  /\ flows' # flows
  /\ UNCHANGED <<device, past, installed, history, commands, changes>>

\* async_step_user: the list of what is on the air is made ...
UserLooks ==
  /\ Change /\ entry = None /\ \A f \in flows : f.via # "user"
  /\ FlowFor("user", device) # {}
  /\ flows' = flows \cup {[Asking("user", device) EXCEPT !.step = "pick"]}
  /\ UNCHANGED <<device, past, installed, history, commands>>

\* ... and the device is picked from it, whatever it has become.
UserPicks(f) ==
  /\ f.step = "pick"
  /\ flows' = (flows \ {f}) \cup (IF entry = None THEN FlowFor("user", f.seen) ELSE {})
  /\ UNCHANGED <<device, past, installed, history, commands, changes>>

\* declaration_from, as the proof of a key: what is in clear opens without.
Proved(seen, key) == seen.layout # None /\ seen.key \in {NoKey, key}

\* async_step_get_encryption_key
KeyGiven(f, key) ==
  /\ f.step = "key" /\ Proved(f.seen, key)
  /\ flows' = (flows \ {f}) \cup
              (IF f.seen.layout = {} THEN {} ELSE {Proposing(f.via, f.seen, key)})
  /\ UNCHANGED <<device, past, installed, history, commands, changes>>

\* async_step_confirm: the entry is made, and the other flows of the device
\* are aborted by Home Assistant.
Confirmed(f) ==
  /\ f.step = "confirm" /\ entry = None
  /\ entry' = [key |-> f.key, cap |-> Default, mark |-> 0, layout |-> None]
  /\ chosen' = f.key /\ last' = 0 /\ unseen' = {} /\ knew' = None
  /\ shared' = (old # None)
  /\ phase' = "found" /\ flows' = {}
  /\ UNCHANGED <<device, past, request, listens, now, old, rows, commands, changes>>

\* async_step_reconfigure and async_step_reauth: a key that is proved, or
\* none for a device in clear, is stored and the entry reloaded.
KeyReplaced(key) ==
  /\ Change /\ phase = "loaded"
  /\ IF key = NoKey THEN device.key = NoKey ELSE Proved(device, key)
  /\ entry' = [entry EXCEPT !.key = key]
  /\ chosen' = key
  /\ phase' = "reloading" /\ request' = Withdrawn("begin")
  /\ UNCHANGED <<device, past, flows, listens, now, old, rows, knew, unseen, last,
                 shared, commands>>

\* async_step_init of the options flow.
CapChosen(cap) ==
  /\ Change /\ entry # None /\ cap # entry.cap
  /\ entry' = [entry EXCEPT !.cap = cap]
  /\ request' = IF listens THEN cap ELSE request
  /\ UNCHANGED <<device, past, flows, phase, listens, now, old, rows, history,
                 commands>>

----------------------------------------------------------------------------
Nowhere == /\ flows = {} /\ request = 0 /\ listens = FALSE /\ now = None /\ old = None
           /\ knew = None /\ unseen = {} /\ last = 0 /\ shared = FALSE
           /\ commands = 0 /\ changes = 0

\* No entry yet, or one from before D-069 at the start of Home Assistant.
Init ==
  /\ Nowhere
  /\ device \in [key : Keys \cup {NoKey}, layout : Layouts]
  /\ past = {device.key}
  /\ \/ entry = None /\ phase = "none" /\ rows = {} /\ chosen = NoKey
     \/ /\ entry = [key |-> device.key, cap |-> Default, mark |-> 0, layout |-> None]
        /\ phase = "found" /\ rows = OldRows /\ chosen = device.key

Next ==
  \/ SetUp \/ Migrates \/ PlatformsAreSetUp \/ Heard \/ DeviceChanges
  \/ CommandGiven \/ CommandIsSealed \/ LeftCommandIsSealed \/ CommandIsOver
  \/ UnloadBegins \/ Unloads \/ UnloadFails \/ SetUpAgain \/ Restart
  \/ Discovered \/ UserLooks
  \/ \E f \in flows : UserPicks(f) \/ Confirmed(f) \/ \E key \in Keys : KeyGiven(f, key)
  \/ \E key \in Keys \cup {NoKey} : KeyReplaced(key)
  \/ \E cap \in Caps : CapChosen(cap)

Spec == Init /\ [][Next]_vars

----------------------------------------------------------------------------
\* The request a device makes of the host's cap is its entry's own once setup
\* has begun, and is gone when the entry is unloaded, whatever the options
\* form, the saved counters and the advertisements did meanwhile.
RequestFollowsTheEntry ==
  /\ phase \in {"migrating", "forwarding", "loaded", "stuck"} => request = entry.cap
  /\ phase \in {"none", "found", "not loaded"} => request = 0

\* No update of the entry undoes another: the key is the one that was proved
\* last, and the stored layout is the newest the coordinator has.
NothingStoredIsLost ==
  entry # None => /\ entry.key = chosen
                  /\ now # None => entry.layout = now.layout

\* No two entities of one domain have the same identity, which would fail the
\* setup of the whole entry.
NoIdentityIsTakenTwice ==
  \A r, s \in rows : r # s => r.domain # s.domain \/ r.id # s.id

\* An entity that automations name is not left behind by the change of unique
\* ids while a new one takes its place, when the layout was known in time.
AutomationsKeepTheirControls ==
  \A l \in Layouts : \A x \in l :
    Row(x.domain, OldId(x), TRUE) \in rows /\ x \notin unseen =>
      Row(x.domain, NewId(x), FALSE) \notin rows

\* The key of an entry is one the device has had.
KeysWereProved == entry # None /\ entry.key # NoKey => entry.key \in past

\* One write counter per device: what it receives in the life of an entry
\* only rises, until a coordinator is unloaded with commands left.
OneCounterPerDevice == [][CommandIsSealed /\ ~shared => last' > last]_vars
=============================================================================
