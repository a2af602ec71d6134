# BTHome writable, verified

A formal model of bthome-writable: a device that advertises BTHome sensors and
offers writable entries over GATT (`espruino/BTHomeWritable.js`), and the Home
Assistant integration that writes and reads them
(`custom_components/bthome_writable`). TLA+ modules are checked by TLC on small
instances; what matters most is proved with TLAPS for every value of the
constants. Paths below are relative to the repository.

## 1. The system

A Home Assistant host has one `ConnectionSlots`, shared by all devices, and one
coordinator per device. A coordinator hears advertisements by a callback, queues
the writes of its entities, and opens connections: for a write, or for a read of
what the device changed by itself. What a coordinator must not forget is kept in
its config entry, which the flows change as well. Everything on the host runs on
one asyncio loop: tasks interleave at each `await` and nowhere else. A device runs
one JavaScript handler at a time, and keeps two counters in flash. The scripts of
`tools/` work on a bench several agents share.

| Component | State | Operations | What makes it correct |
|---|---|---|---|
| Connection slots, `slots.py` | cap, slots in flight, two queues of waiters, hold-off and its timer, the cap each entry asks for | `acquire`, `release`, `taken`, `hold_off`, `_resume`, `resize`, `register_request`, `withdraw_request`, cancellation | slots neither lost nor left idle; the cap respected; commands first, each queue in order; everybody served |
| Link, `coordinator.py` | the lock of each device, then a slot | `_link`, `_connect` | one connection to a device at a time, one order of acquisition, no command waiting for good |
| Write queue, `coordinator.py` | `_pending`, `_pending_lock`, the flush task, a future per caller | `async_write`, `_flush_soon`, cancellation of either | sent in order, coalesced per entry, every caller answered, the answer true |
| Entities, `entity.py` and the platforms | value in flight, number of writes in flight | `async_apply`, `_settled`, a control per offered entry, the bytes it writes and shows | the newest command's value is shown and given up in the end; a command reaches the object it was meant for |
| Receiver's write counter, `coordinator.py`, `__init__.py` | counter, mark, the entry's stored mark, the clock | `next_write_counter`, `resynchronise`, `_adopt_counter`, `_starting_counter` | never drawn twice, over restarts |
| Counter question, `coordinator.py` and the device | armed, dropped table, whether the device answers | `_ask_for_the_counter_here`, `async_sync_write_counter`, the device's characteristic | a receiver that fell behind catches up before it writes |
| Device's write counter, `BTHomeWritable.js` | counter, mark, flash | `openWrite`, `noteWriteCounter`, `setup` | a write is not accepted twice, over restarts |
| Device's sealing counter, `BTHomeWritable.js` | counter, mark, flash | `seal`, `noteAdvCounter`, `setup` | no nonce used twice |
| State reading, `coordinator.py` and the device | revision on air, advertised, read; `_reading`; the values; the layout | `_notice_revision`, `_read_loop`, `_read_due_here`, `_read_back`, `changed` | a revision marked read means its values are known; the receiver catches up |
| Advertisements, `coordinator.py`, `protocol.py` | key verified, counter, failures, declaration | `async_handle_advertisement`, `_plaintext`, `_counter_increased`, `_authentication_failed` | old packets are no news, a restart forgets nothing, a device is understood in the end |
| Codec, sealing and packet plan, `protocol.py`, `BTHomeWritable.js` | none | `parse_declaration`, `encode_object`, `decode_object`, `_open`, `planPacket`, `parseWrite` | what one side writes the other reads as it was meant |
| Setup and reload, `__init__.py` | the coordinator of an entry, its listener, the entry's data, the registry | `async_setup_entry`, `_migrate_unique_ids`, unload, reload | one coordinator and one counter per device; no update undoes another; identities stay |
| Flows, `config_flow.py` | open flows, options | discovery, user, key, confirm, reconfigure, reauthentication, options | an entry's key is the device's |
| Device scheduler and radio, `BTHomeWritable.js` | read, fast and change timers, the packet on air, its rate, the readable values | `setup`, `wake`, `tick`, `publish`, `goFast`, `handleWrite`, `changed`, `update`, `setAdvertisingInterval` | reads go on; back to idle; what is on air and what can be read is current |
| Bench scripts, `tools/` | the lock file, a board's Storage and console, caps and switches of Home Assistant | `bench_lock`, `slot_storm`, `espruino_deploy`, `espruino_ble`, `espruino_upload` | one agent at a time; a verdict that is true; the host as it was |

What is hard here: cancellation between a wake-up and the task that was woken;
a flush task that ends while a writer queues, or outlives its coordinator; values
compared with what was read before a wait; a layout that changes under commands
and reads; a device and a receiver that restart with counters stored coarsely;
counters on a ring; packets heard late, twice or never; a read started by an
advertisement, or carried by a command, or both; consoles that lose what they are
sent. `PROJECT.json` lists each hazard at its line, with the properties that cover
it or the reason none does.

## 2. Modules

### ConnectionSlots, DeviceLinks (`slots.py`, `_link`)

The variables of `ConnectionSlots` are the attributes of the class: `limit`,
`inFlight`, `urgent` and `ordinary` (queues of callers), `heldOff` and `timers` (the
hold-off, and the resume timers armed and not yet fired), `asked` (what each config
entry asked for). `pc` says where a caller stands: away, asleep through a hold-off,
waiting, woken (its future resolved, its task not run), holding, or, cancelled, on
its way out. One action is one run of a task between two `await`s. `Drain` is what
`_admit`'s loop comes to: it pops every position before which the live waiters have
not used up the free slots. Home Assistant may cancel a caller wherever it waits,
and also after the slot was given to it: `Cancel`, `LeaveQueue` and `HandOn` are the
`except CancelledError` of `acquire`.

`DeviceLinks` puts in front of it the line for each device's lock (`turn`, first
come first served as asyncio's is) and extends the specification by conjunction:
each of its steps is one of the slots' or leaves them alone, which
`LinksImplementTheSlots` proves. A task is a command, a read, or the clearing of a
GATT table.

### WriteQueue, CommandQueue, Entities (`async_write`, `_flush_soon`, `entity.py`)

`pending`, the flush task's place, `lockQ` (who holds and awaits `_pending_lock`)
and the callers' places and results. `Enqueue` is the body under the lock: the
superseded item goes, its callers join the new one, and a flush task is started when
none is under way. The connection made inside is the outcome of `_write_now`:
acknowledged, or failed. `sent` is the history of what reached the device.
What a list keeps when a queued item is superseded is `Subsequences`' `Kept`, written
position by position because a recursive filter could not be reasoned about.
`CommandQueue` is the abstract promise, without lock and task: commands are taken in
order, a newer value replaces a queued one for its entry, and whoever waits is told;
`KeepsItsPromise` is the refinement.

`Entities` runs the queue under the controls: `async_apply` shows a value at once,
counts it, awaits the command and settles; the service call may be cancelled, which
leaves its count behind; the declaration may change at any time (`LayoutHeard`), and
a command is encoded for whatever object its entry's number has when its turn comes.

### CircularCounter, DeviceWriteCounter, DeviceSealCounter, DeviceCounters

`CircularCounter` has the `>>> 0` arithmetic of the device on a ring of `Space`
counters. The two counter modules have the live counter, its mark, what flash
holds, and a history (`lastAccepted`, `sealed`). `DeviceCounters` runs both in one
device, with a `setup()` that resumes them together. `saveMarks` writes both
marks; neither is ever changed without being saved, so each module can have its
half of the file.

### ReceiverCounter, CounterProtocol

`ReceiverCounter` has the counter, the mark, the mark stored in the config entry
and the clock; `drawn` is the highest counter sealed with in the life of an entry.
`CounterProtocol` extends it, takes an instance of `DeviceWriteCounter`, and adds the
connection of a write: opened, the question asked when armed, the write sealed with
a counter drawn after it, delivered or lost; the host's cached GATT table, which may
be stale and is dropped once; restarts of either side at every step, and the entry
deleted and added again. `folds` is `FOLD_THE_COUNTER_QUESTION_INTO_A_WRITE`: both
settings are run, and without it the question has a connection of its own, at setup
and before a command, which looks twice.

### StateReading (`coordinator.py`, and `changed` on the device)

Values are stamps, each occurring once. The device has `value`, what a read
returns (`shown`), its `revision` and its layout (`build`), which a restart may
change; the receiver has the declaration heard, the revision advertised and the one
read, the backoff after a failed read, the `_reading` flag and its `values`. A read
loop and a command take turns on the link; the loop reads a second time on a fresh
connection when it meets an entry that is another object. The command reads back
what it wrote, answers its caller, and makes the read that is due on its own
connection, skipping the entry it has settled. `doubt` (a history) holds the
entries whose last command left open what they are: it failed and may have landed,
or its answer could not be told from silence.

### DeviceRadio (`BTHomeWritable.js`, below its divider)

One action is one callback or one call of the sketch, run to its end or to the
exception that stops it. `Refresh`, `Tick` and `Publish` take the outcome as their
parameter (`threw`): a caller's later lines run only when it is false, so that an
exception leaves exactly what the code leaves. `air` is what the radio repeats (a
full packet, the fallback, nothing) and at what rate; `lastSd` the bytes kept for
a change of rate. `timers` has the handles of the state that belong to a live timer.
What a handler does to them it says call by call, as the code does: `ClearTimeout`
(754, 860, 871, 1023), `SetTimeout`, `LetGo` for the state `setup()` replaces. A handle
that is written over, or goes with the old state, while its timer is live is a stray
(`strays`), whichever of the three kinds it is; so every `clearTimeout` left out shows.
`central` is the connection: none, one the device noticed (`goFast` ran), or one whose
event came while nobody listened or was missed, until it writes.
An `onError`, `set()` or `get()` is taken to return and to call nothing of the module: an
`onError` that calls `update()` from a wake that failed has its timer written over (780).
A sensor returns any value: one that is not due is one that has not moved.
`char` says whether a readable characteristic holds the current value, an older
one, or what a central wrote. `faults` (a history) holds what has thrown since
`setup()` last got through; a property names the faults it excepts.

### WireFormat, SealedFrames, DevicePacket, ControlValues, Fixtures

Pure functions, on bytes. `WireFormat` is `protocol.py`: the walk over a packet, the
declaration, the object of a write and of a read, scaled numbers. `SealedFrames` is
its sealing, over a cipher that keeps what AES-CCM promises: nonces, directions and
framing are what can be wrong. `DevicePacket` is the device's planner and its strict
parser. `ControlValues` is what each kind of control writes and shows, what the
device's codec hands to a sketch, the note on the MTU, and the reject matrix of the
bench. `Fixtures` is the contract both test suites use, as data: the packets of
`gen_advertising_fixtures.py` and the vectors of `gen_test_vectors.py`, each with the
verdict it expects. As `fixtures.test.js` does, it has the codec (`encodeDeclaration`,
`buildServiceData`) rebuild every legal packet and refuse the forbidden and the long
ones; a receiver parses what the generator wrote, and the device's parser takes the
writes. "declaration-not-last" is named as the exception: its data (`offered_entries`)
hold, its description does not. What the vectors can show under a symbolic cipher is the
choice of key, direction, address and counter, and the order of the two checks.

### Advertisements (`async_handle_advertisement`, and the key forms)

Extends all of the above. `air` holds the last packets of the device, any of which
may be heard again or not at all, as several proxies deliver them; strays and cut
packets come from elsewhere. `ha` is the coordinator (`verified`, `failures`,
`counter`, `declaration`, `revision`, `sleepy`), `entry` what it hands to the config
entry, `flow` the one reauthentication form, with the packet that raised it. A
packet's objects are bytes, sealed by `SealedFrames`, and read by `WireFormat`.
What a function on bytes returns no step changes, so `BothSidesParseAlike`,
`BytesMeanTheSame` and `FixturesAreUnderstood` are examined in the initial states,
with a receiver that has heard nothing; the other properties range over every step.

### Lifecycle (`__init__.py`, `config_flow.py`)

A config entry from discovery to removal: the steps of its setup with the migration
of three generations of unique ids, the update listener, unloading and its failure,
reloads, restarts, every update of the entry's data by coordinator and flows. `now`
is the coordinator, `old` the one that was unloaded with commands left, whose task
goes on: tasks belong to Home Assistant and not to the entry.

### BenchLock, SlotStorm, Deploy, ConsoleLoad, Bench (`tools/`)

`BenchLock` is the lock file, read and acted on in separate steps. `SlotStorm`,
`Deploy` and `ConsoleLoad` are the scripts that change what they find: caps,
scanners and switches with their undoing (a cap goes back to what Home Assistant's list of
entries tells of it, `Listed`, which is the literal 2 for a list without options), modules written and proved by CRC over a lossy console,
a sketch paced by its prompts or by XON and XOFF. `Bench` lets agents run them while
they believe to hold the lock, and be killed anywhere.

### Proofs

`DeviceLinks_proofs` (the slots as well), `CounterProtocol_proofs` (the receiver's
counter as well), `Device_proofs` (the device's thread, which is `DeviceRadio`, and both of
its counters), `StateReading_proofs`, `Entities_proofs` (the queue as well),
`Lifecycle_proofs`, `Advertisements_proofs` and `Bench_proofs`; see section 5.

Each module also has operators marked *Fault*: a plausible mistake in the
operator that follows. They are in no next-state relation. With one of them in
place of the operator it belongs to, TLC finds the property named in
`PROJECT.json` violated, which is how each property is shown to say something.

## 3. Runs

| Run | Module, configuration | What it shows |
|---|---|---|
| slots | MCDeviceLinks | accounting, order, cap and liveness of slots and device locks together |
| queue | MCEntities | with the flush task and service calls cancelled anywhere and the layout changing: order, the refinement of CommandQueue, everybody answered, what a control shows |
| queue_stopped | MCEntities, MCEntitiesStopped.cfg | *violated*: a command is failed as stopped though nothing stopped |
| queue_replaced | MCEntities, MCEntitiesReplaced.cfg | *violated*: a command that waited is encoded for the object that took its entry's place |
| device_counters | DeviceCounters, MCDeviceCounters.cfg | no write accepted twice, no nonce repeated, over restarts |
| counter_protocol | CounterProtocol, MCCounterProtocol.cfg | the question mends what a device's restart broke, and nothing else breaks it; no counter drawn twice, over restarts |
| state_reading | StateReading, MCStateReading.cfg | a revision marked read means known values; reading never stops for good |
| device_radio | MCDeviceRadio | whatever throws: reads go on, no timer is lost, the rate comes back, air and readable values are current |
| advertisements | MCAdvertisements | old packets are no news, a restart forgets nothing, the device is understood in the end; and the bytes of both sides mean the same |
| lifecycle | MCLifecycle | the request for a cap, the stored data, the identities and the counter over the life of an entry |
| lifecycle_key | MCLifecycle, MCLifecycleKey.cfg | *violated*: the reconfigure form takes a key that nobody proved |
| bench | MCBench | one agent at a time; what the scripts' verdicts and undoing are worth when answers and statements are lost |

The violated runs are disagreements of the code with its own text, each quoted
under "findings" in `PROJECT.json`.

### Bounds

* slots: a command and a read for one device, a command for a second, housekeeping
  for a third, with two slots at most; two entries, caps 1 and 2, two resume timers.
  Two per queue is what it takes to overtake; two entries to disagree on the cap;
  two caps for it to be lowered under traffic and raised again; a second timer for
  a hold-off extended during the first; three devices, so that a device's line is
  held up by the host's. No symmetry, since liveness is checked on the same instance.
* queue: two values for a light (which coalesce) and a press of a button (which does
  not), one change of layout, after which the light's number is a text's and the
  button's number nobody's, or back. Each command is given once; the flush task may
  be started and ended several times.
* device_counters: a ring of 16, window 8, strides 2 and 3; every starting mark.
  The sealing counter passes the wrap; writes stay below half the ring, as every
  write of this receiver does until 2038 (the clock seeds it, 2^31 seconds).
* counter_protocol: counters to 8, strides of 2, a jump of 3, a clock that
  advances 2: three or four restarts of each side fit, with the clock ahead of, at
  and behind the counter.
* state_reading: three entries, one write-only whose values are presses, one that
  keeps its object when the layout changes and one that does not; four stamps, one
  fault of the radio (with two the same holds, on 2.8 million states). A second
  revision may move during the read of the first.
* device_radio: two sensors (one moves while the other throws), one readable
  entry, two values (alike, hence the symmetry; only safety is checked), a revision of one bit, two intervals of which one is the fast
  one (where `setAdvertisingInterval` once went wrong). With one readable entry a
  `publishChange` stopped by its getter publishes nothing; the proofs are for any
  number.
* advertisements: two keys, a device in clear and one that carries its address; three
  streams, two of which differ in the revision and two in the layout; a ring of six
  counters of which two count as low (the code's 2^32 and 100), two packets on air,
  one change. The same holds with three packets on air (447,000 states, without the
  liveness, which takes too long there), and `LatePacketsAreNoNews` is for any number.
  The bytes: every payload to four bytes of an alphabet with the IDs that
  could be mistaken for one another, every half step of one-byte numbers, both signs,
  texts on either side of 255 bytes, packets up to the real budget of 24 bytes.
* lifecycle: two keys, three layouts, one of which has nothing to control, two caps,
  two commands, three changes; an entry made now, or one from before D-069.
* bench: two agents (alike, hence the symmetry; only safety is checked), two config
  entries, one with the cap the storm falls back to and one with another, a scanner that is
  on and one that was off before, a sketch with a module
  that needs another, files of two statements, two attempts; blocks of one and two
  lines for an input of two. `WorthGoingOn` stops where the properties say nothing
  any more, and runs further storms only where one has left an entry another cap.

CHECK_DEADLOCK is off where the bounds, not the system, end a behaviour: the queue
comes to rest when every command is answered, and Lifecycle when its changes and
commands are spent. In DeviceCounters the bound `RoomLeft` ends the life of a key,
and writes go on arriving. Elsewhere a state with no step would be an error.

### Fairness

* slots: tasks that are ready run, the clock passes a hold-off, armed timers fire,
  and a link that is open ends (`establish_connection` and bleak's calls have
  timeouts). Nobody is obliged to ask for anything, to cancel or to reconfigure.
* queue: tasks run and a connection ends, for the same reasons.
* state reading: the device goes on advertising, timers fire, GATT operations end.
  `LoopEnters` is strongly fair: the device's `asyncio.Lock` serves in order of
  arrival, so a loop that waits has its turn however many commands come.
* advertisements: a device advertises for ever, a receiver now and then hears a full
  packet before the next, and once, of those it hears, one with a counter as high as
  any before (a ring of six stands for 2^32 packets); whoever is asked for the key
  again and again gives it once, and closes a form that the right key does not open.
  Nothing obliges the receiver to be restarted or the form to be right at first.
* the others: none, their properties are safety. `FastRateEnds` stands for the
  return to idle: an armed timer fires.

## 4. What the code does that a reader may not expect

Besides the findings, modelling showed the following, for which there is no
run of its own. A property that meets one of them names it as its exception.

**Counters**

* From 2038 the receiver's clock seed is past half of the counter's space: a fresh
  device takes its writes for old ones, and its report is not adopted because it
  is numerically lower (`coordinator.py` 1341). `spec/decisions.md` suspects so.
* `noteWriteCounter` compares its mark without the ring (`BTHomeWritable.js` 543): a
  write that steps over the wrap is not persisted, and after a restart is accepted
  again. It takes 2^32 writes; `LowerHalf` excludes it.
* An entry deleted and added again starts from the clock. The counter can be ahead
  of it (the button adds 100000), and then counters sealed with the same key are
  drawn again, though `const.py` 308 rules it out. `NoCounterIsDrawnTwice` is about
  one entry's life.
* With the question on a connection of its own, one that failed is asked again on
  the write's connection (`coordinator.py` 943 looks at `_resync_counter` only),
  although the flag says "off, both reverts to a separate connection".
* A reload leaves the flush task of the old coordinator running: two counters for
  one device, which may draw the same number, send one lower than the other's, and
  store a lower mark last (`OneCounterPerDevice` excepts it: `shared`).

**Advertisements and keys**

* The right key is refused as "decryption_failed" when the packet that raised the
  form was one of a rotating device without its declaration, or a stray; the open
  form keeps a better one from being raised until it is dismissed.
* A failure sets `bindkey_verified` to False, which reopens the replay gate; and a
  packet in clear is taken although the entry has a key.
* After a new battery or a wrap, a receiver that hears none of the first hundred
  counters refuses the device until its counter has caught up, or a restart.
* Any key is accepted for a device heard in clear: the violated run `lifecycle_key`.
* Entries from before D-069 whose device is not heard at setup keep their old ids:
  `AutomationsKeepTheirControls` excepts them (`unseen`).
* A setup that fails after the coordinator has registered its cap never withdraws it.

**Commands and entities**

* A service call that is cancelled leaves its count behind (`entity.py` 176): the
  control shows its value for good. A cancelled flush task leaves the command it had
  in hand unanswered (the comment at `coordinator.py` 739 says otherwise).
* A link lost between the acknowledgement of a write and the answer to the read
  back reports the command failed, though the device took it: `on_acknowledged`
  runs after `_read_back` (`coordinator.py` 960-968).
* A write acknowledged after the layout has changed is stored under the new
  layout's entry, until that is read.
* The value a command compares the device's answer with is taken before it waits for
  its link (`coordinator.py` 887): an answer of a device that applies a value late
  may be kept as its own, and is never read again (`doubt`).
* A command behind a read of its own device that waits for a slot does not pass its
  urgency on (`spec/decisions.md` 8817), and may be passed by commands of other
  devices; a task asleep through a hold-off may sleep on for as long as others keep
  finding the host full. `CommandsAreLinked` names both.
* `const.py` 152 has any write fit above an MTU of 64; a long text does not, and
  `_check_mtu` says so in the log.
* A text is UTF-8 for Home Assistant and one letter per byte for the device: `set()`
  is given another string, which reads back right. Home Assistant limits letters to
  255 and `text.py` bytes.
* A device that declares only raw bytes counts as offering something, so the flow
  makes an entry without a control rather than end with `nothing_writable`.

**Reading**

* A read loop that waits for the link while a command reads a *newer* revision
  marks its own older one as read, finds the advertised one different and reads
  the device once more (`coordinator.py` 411). One needless connection.
* `_reading` is saved and restored by the folded read. It would be left set, and
  stop every later read, if a loop could end while a command reads: it cannot,
  because a waiting loop only ends once it has the link.
* A restart that draws the same random revision (one in 255) is not noticed.

**Device**

* A sealed write that does not open is refused in `onWrite` before `handleWrite`
  (`BTHomeWritable.js` 1046): nothing publishes the value again, and a readable
  characteristic holds the refused bytes until the next write or `changed()`,
  although the comment at 904 has it current "whatever happened".
* A getter that throws in `publishChange` leaves the revision moved
  (`BTHomeWritable.js` 1106) and some values unpublished. The next packet that goes
  out for another reason announces the revision, and a receiver reads the old value
  and marks the revision read.
* A sensor that throws in `refresh` makes the wake forget that an earlier one moved
  (`BTHomeWritable.js` 341); one that throws in the `tick` of a write leaves
  `advInterval` fast with nothing published (932).
* A `setup()` stopped between the old timers and its `try` (1027) leaves a device on
  air that reads nothing.
* `setAdvertisingInterval` and `setup()` while a central is connected take the
  device out of its fast rate until the next write.
* The radio having refused a packet, the fallback stays on air until a reading moves:
  a device whose readings are static stays without its declaration.

**Bench**

* Two agents that find the same lock expired may both take it over; a process killed
  between emptying the file and writing it leaves one that nobody can read and that
  never expires; `renew` and `release` act on what was read before.
* `slot_storm.py` reads the states first in its `finally`, outside of any
  `suppress`: when that fails nothing is undone. A cap whose answer was lost is not
  among those it takes back. And a cap is not taken back to what it was: Home
  Assistant's list of entries, which the storm reads, carries no options, so that the
  fallback of line 317 applies and an entry of any other cap is left at 2, though lines 12
  and 30 promise otherwise. `TheHostIsPutBack` says what does come back: scanners,
  switches, and each cap as it was or as the list told it.
* `espruino_deploy.py`: the erasure of `.bootcde` and `.varimg` may be lost unseen.
* `espruino_ble.py`: once its patience has run out, prompts that come late count for
  the next block; the verdict is sound because the console is first in, first out.
  `espruino_upload.py` asks nothing at the end, and does not look for `FIFO_FULL`:
  by radio its verdict proves nothing. It injects the sketch's own requires and not
  what those require, unlike `espruino_deploy.py`.
* The description of the fixture "declaration-not-last" (`gen_advertising_fixtures.py`
  388-392) predates the length byte: nothing after the counted entries is read as one, as
  the fixture's own `offered_entries` says. `FixturesAreRead` excepts it by name.

## 5. Proofs

| Theorem | Statement |
|---|---|
| LinksImplementTheSlots | the locks of the devices in front of the slots use them as their specification allows |
| NoLinkLosesASlot, NoLinkIdlesASlot, LinksRespectTheCap, NoLinkOvertakes | so what follows of the slots holds with them as well |
| TurnsComeBeforeSlots | whoever waits for a slot, or has one, holds its device's lock |
| SlotsTypeOK | every variable keeps its type, each caller in its own queue |
| NoSlotIsLost | `_in_flight` is the number of callers that owe a release |
| NoSlotIsLeftIdle | a queue beside a free slot has a timer armed |
| TheCapIsRespected | nobody is let in above the lowest cap an entry asked for, nor during a hold-off |
| NobodyIsOvertaken | nobody gets a slot before a waiting command, or before somebody ahead of it in its queue |
| CommandsArriveInOrder | the device receives commands in the order they were queued |
| TheQueueKeepsItsPromise | every step of the queue, its lock and its task is a step of `CommandQueue` or none |
| NewestCommandIsShown | a control with commands under way shows the value of the newest |
| DeviceStaysAhead | in the lower half, a device is never behind what it accepted |
| DeviceNeverRepeatsANonce | no counter seals two packets within one turn of the ring |
| DeviceTypeOK | counters and marks stay on the ring |
| CountersAreDrawnOnce | the receiver never draws a counter twice |
| CounterNeverGoesBack | its counter never goes down |
| CountersStayOnTheirHalf | receiver and device keep below half of the ring, with a write under way at any place |
| TheQuestionHelps | a write sealed after the device's answer is one it takes |
| RefusedOnlyAfterForgetting | only a restart of the device or a re-created entry puts the receiver behind |
| NoIsNeverAGuess | a device is written off only when it has no counter to report |
| NoNonceIsUsedTwice | with reports adopted at any moment, still no counter is drawn twice |
| ReadRevisionsAreKnown | a revision marked read means the receiver knows the values, but for those in doubt |
| HearingIsSound | the receiver's state is well formed, and its counter not behind the newest packet it took |
| TheEntryRemembers | a restart finds the declaration and the sleepiness the receiver has |
| LatePacketsAreNoNews | a packet sent before one already taken tells nothing |
| WhatIsStoredIsRestored | a declaration found in any bytes consists of bytes, and a restart finds it as it was |
| ParsersAgreeOnBytes | `decode_object` takes any bytes exactly when `parseWrite` does, and gives the value that was encoded |
| ReadsAndWritesAreParsedAlike | so they agree on every payload of the reject matrix and of the alphabet |
| APacketIsUnderstood | any packet of `planPacket` is read as its entries, in order, with its revision; cut, as none |
| NumbersArrive | any value a control accepts, in one to four bytes, arrives as the nearest step on both sides |
| TextsArrive | any text of letters up to U+07FF a length byte can count arrives, and comes back, as it was typed |
| WhatIsSentIsWhatWasMeant | so declarations, numbers, switches, events and texts mean the same to both |
| TheFilesAreTrueOfBoth | the packets and vectors of both test suites hold of codec, parsers and (symbolic) sealing, the description of one invalid packet excepted |
| ShapeIsKept | entry, coordinator, request and listener are what the phase says |
| TheRequestIsTheEntrys | the request for a cap is the entry's own, and goes with it |
| NoUpdateIsUndone | what the flows and the coordinator store in the entry is never undone by the other |
| CountersRiseForADevice | what the device receives in the life of an entry only rises |
| IdentitiesAreUnique | no two rows of the registry have one identity |
| AutomationsAreNotOrphaned | no new control takes the place of a row automations know |
| RadioTypeOK | the device's variables keep their types |
| TheDeviceGoesOnReading | a device that setup() got through with has a read timer armed |
| NoTimerIsLost | no timer is set while another of its kind is live, and `setup()` leaves none running |
| TheDeviceReturnsToIdle | never fast, alone and without the timer that ends it; nor is that timer armed while a central the device has noticed is connected |
| TheRateIsOnAir | the rate on air is the one believed in, unless a sensor threw |
| TheAirIsCurrent | a full packet tells the last readings, unless a get() threw |
| WhatIsReadIsCurrent | what can be read is current or about to be, with its exceptions |
| TheBenchIsOnes | until a lease runs out or is taken by force, one agent at most was told that the bench is its own |
| TheHostIsRestored | with nothing lost and no script running, scanners and switches are as they were, and each cap is its own or what the list told of it |
| DeployedMeansWhole | a deployment that ended well left whole every module its sketch needs |
| LoadsAreVerified | no load is called a success with a line lost, and by cable none is ever lost |

They hold for every value of the constants that satisfies the assumptions of the
modules. Most of those say what a constant is: a natural number, a finite set, a
value that is none of the others (`NoTaskAssumption`, `NoneAssumption`). The others
have a reason in the code:

* `HalfTheRingAssumption` (CounterProtocol): the receiver's counters lie below half
  of the ring, and no stride passes it. The clock seeds them: until 2038.
* `ControlsAssumption` (Entities): a control's commands are for one entry, and all of
  them coalesce or none does, which is an attribute of the class (`entity.py` 54,
  `button.py` 70).
* `LayoutAssumption` (Lifecycle): a control is a button exactly when it carries a value
  to send, and a number is one object's within a layout, as `parse_declaration` and
  the platforms make them.
* `OldRowsAssumption` (Lifecycle): a row of the old form was made for a control of
  some layout, and no two were alike, which the registry sees to.
* `HostAssumption` (SlotStorm): the scanners enabled and the switches on to begin with are
  among those a storm is told of; it asks Home Assistant for both. Caps are natural numbers,
  one for each entry, and the list of entries tells of options or it does not (it does not).
* `ModulesAssumption` (Deploy): every module requires modules, and none has the
  name the sketch is stored under: a name nothing answers to ends the script in `collect`,
  before it has touched the board.
* `ConsoleAssumption` (ConsoleLoad): the input holds a line at least, and no block
  is empty, as `blocks` makes them.
* `StreamsAssumption` (Advertisements): what a device says is bytes, and `None` is no
  declaration.
* `BytesAssumption` and `SensorsAssumption` (DevicePacket): entries and payloads are
  bytes, and a sensor is encoded as one object of the table, none of them as the
  settings revision, which is the module's own (`BTHomeWritable.js` 78 and 296). A
  receiver can measure what a device may advertise: `tools/tests/test_library_floor.py`
  has it as D-152.
* `OwnObjectsAssumption`, `TableAssumption` and `FixtureTableAssumption` (DevicePacket,
  ControlValues, Fixtures): what the code counts on in bthome-ble's table, which is an
  argument of the model (`MeasTypes`) and not written here. Packet ID and
  revision have one byte (`BTHomeWritable.js` 295 sets one); a number has at most four, a state one,
  and events are the two with a vocabulary (`BTHomeWritable.js` 102); the objects
  of the fixtures have the width they are written with. TLC evaluates them on the table of the runs.

**Slots.** None of the properties is inductive alone. A slot handed to a queued
caller is accounted for only if that caller owns none yet, so the invariant says
that the places of the callers and the two queues agree: whoever is queued is
waiting, or was until it was cancelled, whoever waits is queued, and nobody is
queued twice. That every free slot is filled when the queue is drained needs the
last of these; that no slot stays idle after a hold-off needs a timer for every
hold-off. Lemmas say what joining, leaving and draining do to a queue of any
length. It is for every finite set of callers, every cap and every bound.

That no admission passes the cap of an entry needs one invariant more, that the cap
in force is at most what any entry asks for (`CapIsAgreed`): `_admit` looks at the
former only. That nobody is overtaken is a fact about one drain of both queues
(`AdmitIsFair`): the live waiters are let in from the front, as far as slots go.

**Queue and entities.** `QueueInv` has the places of the tasks agree with the lock and
its queue (`TaskAndLock`), and says that what was sent, the command in hand and what is
pending are one line in the order of queueing, behind which every new command goes
(`OneLine`); `SentInOrder` is about its beginning only. Superseding takes from the middle and appends
at the end; that the rest stays in order is `KeptFacts`, about `Subsequences`, proved
with ranks (`Cardinality` of the positions up to one) in place of an induction over
lists; the least natural of a set comes from the well-foundedness of `<`.
A control shows its newest command because what it shows is the last of its own that
wait for the lock, and because it counts at least the commands on their way, so that it
does not release a value too early (`NewestIsShown`). For `TheQueueKeepsItsPromise` each
action is followed through `Answers`, what the callers have been told, to those who do
not see the lock. It is the safety half of `KeepsItsPromise`: the fairness of
`CommandQueue` stays with TLC.

**Protocol.** With the counters below half of the ring, being ahead on the ring is
being above (`AboveIsAhead`). The invariant adds that the receiver holds the device's counter
or a higher one since the device last told it, and a strictly higher one on the
connection where it did (`HoldsTheCounter`); and that a table which was dropped and is
there again is the device's own (`TableIsTrue`). The receiver's counter takes the steps
of `ReceiverCounter` or a few like them (`ReceiverTakesPart`), so its invariant is kept.

**Reading.** `ReadMeansKnown` speaks of rest. To be kept it has to say what is known
while a loop and a command are under way: whoever reads the revision on air knows the
entries it has passed, and who has read it knows them all but the one that was written
and is about to be read back (`ReadIsKnown`). That needs a revision on air to have been
heard with the layout it is of (`ReadAfterHeard`), and each of the two to read on a
connection of its own from the first entry on (`OnTheLink`).

**Advertisements.** `HearingInv` adds to the types that the receiver's counter is not
behind the newest packet it has taken. `newest` begins anew when the key comes into doubt
and when a lower counter is believed, since that is a restart: everything after it is
news. (An earlier form of `OldPacketsAreNoNews`, which began anew on doubt alone, holds
with two packets on air and fails with three: the device's third packet, then its first,
which is low enough for a restart, then its second.) For `ARestartForgetsNothing`, a declaration
is stored and restored without loss (`WhatIsStoredIsRestored`), and one that is not
handed on is the one the entry has.

**Bytes.** What the functions on bytes return is proved for every input, although they
recurse over it. Induction is stated for a set in place of a predicate (`Upward`,
`Downward`, from the well-foundedness of `<`), which needs no operator as a parameter. A
recursive function is a `CHOOSE` of some function equal to its own body: once there is one
(`WalkIsDefined`, `FlattenIsDefined`, `SumIsDefined`, built up an argument at a
time), the definition may be unfolded. The rest follows the data:

* A packet is walked backwards. Objects in front of a place are found whatever is behind
  them (`WalkStep`), so the walk over whole objects finds them all and stops at the
  declaration (`WalkOfWhole`), and over a packet that is cut it does not get as far as a
  declaration (`WalkOfCut`). That a joined sequence has its parts at known places is
  `Beginnings`.
* `stableSortByObjectId` gives every object a rank of its own, hence a permutation
  (`SortingRearranges`), and the one revision of the packet is still the first found.
* `parseWrite` and `decode_object` are compared case by case of what can be wrong with a
  payload, for any payload at all (`ParsersAgreeOnBytes`).
* A number of `w` bytes is the sum of its bytes (`LittleEndianIsUndone`), a signed one up to a
  multiple of the range (`Residues`), and rounding stays within the bounds of a
  control (`RoundStaysWithin`), so that nothing it accepts overflows its object.
* A letter's bytes tell where it ends, so UTF-8 is undone a letter at a time from the
  end of a text. A device keeps a text as one letter a byte (`decodeValue`) and its encoder
  makes the same bytes of it again, so what is read back is what was written.
* The fixtures are finite data over an arbitrary table. Each is led back to
  `APacketIsUnderstood`'s lemmas, and each vector to the sealing: what was sealed with one
  key, direction, address and counter opens with these and with no other.

**Lifecycle.** `Shape` says for each phase what entry, coordinator, request and listener
there are, from which `RequestFollowsTheEntry` follows. `NothingStoredIsLost` and
`OneCounterPerDevice` are kept with `MarkIsAhead`: the mark in the entry is the
coordinator's, and not below any counter it has drawn. The identities need the shape of
old rows (`OldRowsAreOld`) and that of a control the last migration knew an old row is
only left where the new identity is taken (`KnownWereMigrated`); then neither the
migration of all rows at once nor the adding of controls puts two under one identity.

**Bench.** One invariant for all four properties, since each rests on the agents
being apart: whoever runs a script was told that the bench is its own (`JobsAreHeld`), and
until a lease is overridden that is one agent at most (`LockIsOnes`). The latter needs
what the commands at the lock have read to be true still when they act on it: who is
about to write over the file or to remove it has its own name there, and who is writing
it is alone. A storm knows the scanners and switches it found and, of each cap,
what the list told; it has moved nothing but what it knows (`StormRemembers`). A deployment's collection covers what its members require
(`Collected`), and so ends with a set that is closed under requiring, of which `Needed` is the least
(`NeededIsLeast`); no file is written again once its CRC was right. On the console, a
complaint of a lost line is ahead of any answer on its way (`ComplaintComesFirst`), and by
cable the last signal said that there is room (`LeaveMeansRoom`).

### What is only model-checked, and why

* Liveness, and with it the progress in `KeepsItsPromise`: the provers do no fairness.
  `CommandsAreLinked`, `ValuesAreReleased`, `EveryCallerIsAnswered`,
  `RevisionIsReadInTheEnd`, `TheDeviceIsUnderstood`. Every invariant and every
  other action property of the passing runs has its theorem.
* That the assumptions about bthome-ble's table hold of the table: TLC evaluates them
  on the objects of the runs.
* The three disagreements of section 4 are counterexamples, found by TLC.

## 6. Not modelled

* The cipher itself (a payload under another key or counter does not open) and the
  JavaScript that is built or vendored.
* The scripts of `tools/` that measure, analyse or build (`power_charge.py`, the
  latency sweeps, tables and figures): none keeps a state another part depends on.
  `repro_changed_race.py` replays one interleaving of `DeviceRadio`'s `changed()`.
* Home Assistant's delay in writing its storage: a stored mark is durable at once. A
  power cut before that is covered by the clock when it is ahead of the counter.
* The two sides' tables of objects are one argument: `parseWrite` is given the length the
  receiver has for an object where the device has its own (`w.length`), and `decodeValue`
  the receiver's sign where the device has `SIGNED_IDS`. `tools/reject_matrix.py`, run
  on a device, and `tools/tests/test_signed_ids.py` hold the two together.
* In `Deploy`, an answer to the CRC question of an earlier attempt that comes during a later one
  (`espruino_deploy.py` 293-301).
* Flash that fails: `loadMarks` and `saveMarks` are taken as atomic; a save that throws
  after the mark moved (`BTHomeWritable.js` 547) leaves one no restart finds.
* Counters are mathematical integers on the receiver: they reach 2^32 in 2106. The
  settings revision is not wrapped at 256, which would take 256 changes between two
  advertisements heard, and a restart always draws a new one.
* The availability of entities, diagnostics, the wording of errors and logs, delays
  (`setFastTimeout`), UTF-8 beyond two bytes a letter.

## 7. State of the plan

Every component of section 1 is modelled and every safety property of the passing runs is
proved. What the project does not say is in section 6; liveness stays with TLC. Of
the hazards listed in `PROJECT.json` four have no property, because the code fails there and
what is checked excepts them; section 4 tells of each. An entry that is deleted and added
again begins from the clock (`__init__.py` 196), with no record of the counters its
predecessor sealed with. A coordinator unloaded with commands left shares the device with the
next (`__init__.py` 297). A flush task that is cancelled leaves a command unanswered
(`coordinator.py` 717). An expired lock may be taken over by two (`bench_lock.py` 114).
