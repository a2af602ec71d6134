----------------------------- MODULE DeviceRadio -----------------------------
(***************************************************************************)
(* The device's one thread (BTHomeWritable.js, below its divider): the     *)
(* timers, the packet on air and its rate, and the values a receiver may   *)
(* read.  Every action is one callback, or one call of the sketch, run to  *)
(* its end or to the exception that stops it: a get(), the radio, the      *)
(* service table may each refuse.                                          *)
(*                                                                         *)
(* A read returns any value; the time itself, the packet id and the        *)
(* sealing (DeviceSealCounter) are left out.                               *)
(***************************************************************************)
EXTENDS Integers

CONSTANTS
  NSensors,       \* advertised entries, read in the order of the packet
  NReadable,      \* writable entries with a get()
  Values,         \* of a sensor
  Revisions,      \* the settings revision counts modulo this
  Intervals,      \* what the sketch may ask for
  FastInterval    \* fastInterval

ASSUME EntriesAssumption == NSensors \in Nat \ {0} /\ NReadable \in Nat \ {0}
ASSUME RevisionsAssumption == Revisions \in Nat \ {0}
ASSUME IntervalsAssumption == Intervals \subseteq Nat /\ FastInterval \in Nat

VARIABLES
  running,     \* st is not null
  listening,   \* the connect and disconnect handlers are attached
  central,     \* the one that is connected, if any, and whether goFast ran for it
  reading,     \* it.value of every sensor: its last reading
  revision,    \* st.revision
  interval,    \* st.interval
  rate,        \* st.advInterval
  lastSd,      \* st.lastSd
  air,         \* the packet the radio repeats, and at what rate
  timers,      \* the live ones among st.timer, st.fastTimer, st.changeTimer
  strays,      \* kinds of timers that were set, live on, and are not in st
  char,        \* what a readable characteristic holds
  deferred,    \* entries with a publishRead one turn of the loop away
  faults       \* what has gone wrong since setup() last got through

plan == <<reading, revision>>
radio == <<lastSd, air>>
rates == <<interval, rate>>
clocks == <<timers, strays>>
table == <<char, deferred>>

vars == <<running, listening, central, plan, rates, radio, clocks, table, faults>>

Sensors == 1..NSensors
Readable == 1..NReadable

\* A packet carries the readings and the revision; the fallback carries
\* neither.  lastSd is Nothing for null.
Nothing == [kind |-> "nothing"]
Fallback == [kind |-> "fallback"]
Full(values, rev) == [kind |-> "full", values |-> values, revision |-> rev]
Packets == {Nothing, Fallback}
           \cup {Full(v, r) : v \in [Sensors -> Values], r \in 0..(Revisions - 1)}

TimerKinds == {"read", "fast", "change"}

Init == /\ running = FALSE /\ listening = FALSE /\ central = "none"
        /\ reading \in [Sensors -> Values] /\ revision = 0
        /\ interval \in Intervals /\ rate = interval
        /\ lastSd = Nothing
        /\ air = [packet |-> Nothing, rate |-> interval]
        /\ timers = [k \in TimerKinds |-> "none"] /\ strays = {}
        /\ char = [w \in Readable |-> "current"] /\ deferred = {}
        /\ faults = {}

Wrong(kind) == faults' = faults \cup {kind}

----------------------------------------------------------------------------
\* What is done to the timers, call by call: a state of them is what st holds
\* and what it lost.  A handle that is written over is lost, and so is one
\* that goes with the old st; its timer still fires.
Clocks == [held |-> timers, lost |-> strays]
Become(clock) == timers' = clock.held /\ strays' = clock.lost

\* A timer that fires is spent: the same.
ClearTimeout(kind, clock) == [clock EXCEPT !.held[kind] = "none"]

SetTimeout(kind, clock) ==
  [held |-> [clock.held EXCEPT ![kind] = "armed"],
   lost |-> clock.lost \cup {k \in {kind} : clock.held[k] = "armed"}]

\* Fault: the next read is armed beside the one that is.
ScheduleBeside(clock) == SetTimeout("read", clock)

\* schedule(), with at least one sensor to read.
Schedule(clock) == SetTimeout("read", ClearTimeout("read", clock))

\* It comes last, and an exception before it passes it by.
ScheduleUnless(threw, clock) == IF threw THEN clock ELSE Schedule(clock)

----------------------------------------------------------------------------
\* Fault: the bytes the radio refused are kept for the next change of rate.
PublishAndKeepTheOldBytes(packet, threw) ==
  \/ /\ ~threw
     /\ lastSd' = packet /\ air' = [packet |-> packet, rate |-> rate']
  \/ /\ threw
     /\ UNCHANGED lastSd
     /\ air' \in [packet : {Fallback, Nothing}, rate : {rate'}]

\* publish: the packet, else the fallback, else nothing is on air; only the
\* first of them returns.
Publish(packet, threw) ==
  \E accepted \in IF threw THEN {Fallback, Nothing} ELSE {packet} :
     lastSd' = accepted /\ air' = [packet |-> accepted, rate |-> rate']

\* readDue: the sensors are read in order, up to one whose get() throws.  One
\* that is not due keeps its last reading, as one that has not moved.
ReadDue(threw) ==
  \E stop \in IF threw THEN Sensors ELSE {NSensors + 1} :
     /\ reading' \in [Sensors -> Values]
     /\ \A s \in Sensors : s < stop \/ reading'[s] = reading[s]
     /\ IF threw THEN Wrong("sensor") ELSE UNCHANGED faults

\* refreshAdvertising, which reads what is due first.
Refresh(threw) ==
  \/ threw /\ ReadDue(TRUE) /\ UNCHANGED radio
  \/ ReadDue(FALSE) /\ Publish(Full(reading', revision'), threw)

\* republishRate
RepublishRate(threw) ==
  IF lastSd = Nothing
  THEN UNCHANGED revision /\ Refresh(threw)
  ELSE Publish(lastSd, threw) /\ UNCHANGED <<plan, faults>>

\* The rate moves, or it does not and nothing is published.
RepublishIf(moved) ==
  IF moved THEN \E threw \in BOOLEAN : RepublishRate(threw)
           ELSE UNCHANGED <<plan, radio, faults>>

\* tick: the packet is rebuilt only when a reading moved.  It ends in
\* schedule() unless it threw.
Tick(threw) ==
  /\ UNCHANGED revision
  /\ \/ threw /\ ReadDue(TRUE) /\ UNCHANGED radio
     \/ /\ ReadDue(FALSE)
        /\ IF reading' # reading
           THEN Publish(Full(reading', revision), threw)
           ELSE ~threw /\ UNCHANGED radio

----------------------------------------------------------------------------
\* setup() replaces the whole state, and clears the timers of the old one.
\* What it refuses before that changes nothing.

\* The new st holds no timer: one that the old st still holds is lost with it.
LetGo ==
  LET old == ClearTimeout("change", ClearTimeout("fast", ClearTimeout("read", Clocks)))
  IN [held |-> [k \in TimerKinds |-> "none"],
      lost |-> old.lost \cup {k \in TimerKinds : old.held[k] = "armed"}]

Replace == /\ running' = TRUE
           /\ interval' \in Intervals /\ rate' = interval'
           /\ revision' \in 0..(Revisions - 1)
           /\ UNCHANGED <<central, deferred>>

\* A get() read for the service table, the table itself or the flash
\* refuses: nothing is published, scheduled or listened to.
SetupStops == /\ Become(LetGo)
              /\ Replace
              /\ reading' \in [Sensors -> Values]
              /\ lastSd' = Nothing
              /\ Wrong("services")
              /\ UNCHANGED <<listening, air, char>>

\* Setup gets to its first packet, and schedules and listens whatever becomes
\* of that packet.
SetupEnds == /\ Become(Schedule(LetGo))
             /\ Replace
             /\ reading' \in [Sensors -> Values]
             /\ char' = [w \in Readable |-> "current"]
             /\ \/ lastSd' = Nothing /\ UNCHANGED air /\ faults' = {"sensor"}
                \/ /\ \E threw \in BOOLEAN : Publish(Full(reading', revision'), threw)
                   /\ faults' = {}
             /\ listening' = TRUE

----------------------------------------------------------------------------
\* The read timer.

\* Fault: an exception leaves the wake without a next one.
WakeWithoutANet(threw, spent) == ScheduleUnless(threw, spent)

\* wake arms the next timer in its catch when tick has not.
NextWake(threw, spent) == IF threw THEN SetTimeout("read", spent) ELSE Schedule(spent)

Wake == /\ timers["read"] = "armed"
        /\ UNCHANGED <<running, listening, central, rates, table>>
        /\ \E threw \in BOOLEAN :
              Become(NextWake(threw, ClearTimeout("read", Clocks))) /\ Tick(threw)

----------------------------------------------------------------------------
\* The rate: fast from a connection, or a write, until some time after the
\* disconnection.
GoFast == rate' = FastInterval /\ UNCHANGED interval

\* onConnect; nobody listens yet, or the stack's event is missed.
Connect == /\ central = "none"
           /\ \/ /\ listening
                 /\ central' = "noticed"
                 /\ GoFast
                 /\ Become(ClearTimeout("fast", Clocks))
                 /\ RepublishIf(rate # FastInterval)
              \/ central' = "missed" /\ UNCHANGED <<plan, rates, radio, clocks, faults>>
           /\ UNCHANGED <<running, listening, table>>

\* goIdleAfterTimeout
GoIdleAfterTimeout == SetTimeout("fast", ClearTimeout("fast", Clocks))

Disconnect == /\ central # "none" /\ central' = "none"
              /\ Become(IF listening THEN GoIdleAfterTimeout ELSE Clocks)
              /\ UNCHANGED <<running, listening, plan, rates, radio, table, faults>>

\* Fault: the packet is published again at the rate it had.
StayFast == UNCHANGED rates

\* What the return to idle sets.
GoIdle == rate' = interval /\ UNCHANGED interval

\* Its timer.
ReturnToIdle == /\ timers["fast"] = "armed"
                /\ Become(ClearTimeout("fast", Clocks))
                /\ GoIdle
                /\ RepublishIf(TRUE)
                /\ UNCHANGED <<running, listening, central, table>>

\* setAdvertisingInterval, called by the sketch.
SetAdvertisingInterval ==
  /\ running
  /\ Become(Schedule(Clocks))
  /\ interval' \in Intervals
  /\ LET moves == timers["fast"] = "none" /\ rate # interval'
     IN  /\ rate' = IF moves THEN interval' ELSE rate
         /\ RepublishIf(moves)
  /\ UNCHANGED <<running, listening, central, table>>

----------------------------------------------------------------------------
\* A write.  Espruino stores the central's bytes in the characteristic when
\* the handler has returned.

\* openWrite refuses it: the handler is not called.
WriteDoesNotOpen(w) == /\ Wrong("write")
                       /\ UNCHANGED <<central, deferred, plan, rates, radio, clocks>>

\* Fault: the value is published at once, and stored over.
PublishReadAtOnce(w) == UNCHANGED deferred

PublishReadLater(w) == deferred' = deferred \cup {w}

\* set() or the parsing refuses it.
WriteIsRefused(w) == /\ PublishReadLater(w)
                     /\ UNCHANGED <<central, plan, rates, radio, clocks, faults>>

\* Fault: a change of rate waits for a reading that moves.
RepublishNever(faster) == UNCHANGED <<plan, radio, faults>>

\* When tick published nothing, the change of rate is published by itself.
CarryTheRate(faster) == RepublishIf(faster)

\* handleWrite applies it.  goFast comes first, and tick ends in schedule().
WriteIsApplied(w) ==
  /\ PublishReadLater(w)
  /\ central' = "noticed"
  /\ GoFast
  /\ \E threw \in BOOLEAN :
        /\ Become(ScheduleUnless(threw, ClearTimeout("fast", Clocks)))
        /\ \/ Tick(threw) /\ (threw \/ reading' # reading)
           \/ ~threw /\ CarryTheRate(rate # FastInterval)

Write == /\ running /\ central # "none"
         /\ \E w \in Readable :
               /\ WriteDoesNotOpen(w) \/ WriteIsRefused(w) \/ WriteIsApplied(w)
               /\ char' = [char EXCEPT ![w] = "written"]
         /\ UNCHANGED <<running, listening>>

\* The deferred publishRead, guarded.
PublishRead == /\ \E w \in deferred :
                     /\ deferred' = deferred \ {w}
                     /\ \/ char' = [char EXCEPT ![w] = "current"] /\ UNCHANGED faults
                        \/ UNCHANGED char /\ Wrong("getter")
               /\ UNCHANGED <<running, listening, central, plan, rates, radio,
                              clocks>>

----------------------------------------------------------------------------
\* The sketch: a knob turns and changed() is called; update().

NoWindow == timers["change"] = "none"

Changed == /\ running
           /\ \E w \in Readable :
                 char' = [char EXCEPT ![w] = IF @ = "current" THEN "old" ELSE @]
           /\ Become(IF NoWindow THEN SetTimeout("change", Clocks) ELSE Clocks)
           /\ UNCHANGED <<running, listening, central, plan, rates, radio,
                          deferred, faults>>

NextRevision == (revision + 1) % Revisions

\* publishChange, guarded: the entries are published in order, up to one
\* whose get() throws, and then the packet.
PublishChange ==
  /\ timers["change"] = "armed"
  /\ UNCHANGED <<running, listening, central, rates, deferred>>
  /\ revision' = NextRevision
  /\ \E threw \in BOOLEAN :
        /\ Become(ScheduleUnless(threw, ClearTimeout("change", Clocks)))
        /\ \/ /\ threw
              /\ \E stop \in Readable :
                    char' = [w \in Readable |-> IF w < stop THEN "current" ELSE char[w]]
              /\ Wrong("getter")
              /\ UNCHANGED <<reading, radio>>
           \/ char' = [w \in Readable |-> "current"] /\ Refresh(threw)

\* update(), which makes every sensor due.
Update == /\ running
          /\ UNCHANGED <<running, listening, central, revision, rates, table>>
          /\ \E threw \in BOOLEAN :
                Become(ScheduleUnless(threw, Clocks)) /\ Refresh(threw)

Next == \/ SetupStops \/ SetupEnds \/ Wake \/ Connect \/ Disconnect
        \/ ReturnToIdle \/ SetAdvertisingInterval \/ Write \/ PublishRead
        \/ Changed \/ PublishChange \/ Update

Spec == Init /\ [][Next]_vars

----------------------------------------------------------------------------
Unharmed(kinds) == running /\ faults \cap kinds = {}

\* The type of every variable.
TypeOK == /\ running \in BOOLEAN /\ listening \in BOOLEAN
          /\ central \in {"none", "missed", "noticed"}
          /\ reading \in [Sensors -> Values] /\ revision \in 0..(Revisions - 1)
          /\ interval \in Intervals /\ rate \in Intervals \cup {FastInterval}
          /\ lastSd \in Packets
          /\ air \in [packet : Packets, rate : Intervals \cup {FastInterval}]
          /\ timers \in [TimerKinds -> {"none", "armed"}]
          /\ strays \subseteq TimerKinds
          /\ char \in [Readable -> {"current", "old", "written"}]
          /\ deferred \subseteq Readable
          /\ faults \subseteq {"sensor", "getter", "services", "write"}

\* No exception of a sensor, of the radio or of a getter stops the device
\* from reading: once setup() has got through, a read timer is always armed.
ReadTimerIsArmed == Unharmed({"services"}) => timers["read"] = "armed"

\* However set-ups, wakes, failures, writes, knobs and connections interleave,
\* a missed connection among them, no timer is lost: none is set while one of
\* its kind is still live, and setup() leaves none of the old ones running.
NoStrayTimer == strays = {}

\* A device that nobody is connected to goes back to its idle rate: while it
\* is fast, the timer that ends it is armed.  It is not while a central is
\* connected that the device noticed, though the timer of an earlier
\* connection was still running when it came, or when it wrote.
FastRateEnds ==
  /\ /\ running /\ listening /\ central = "none"
     /\ rate = FastInterval /\ interval # FastInterval
     => timers["fast"] = "armed"
  /\ central = "noticed" => timers["fast"] = "none"

\* The rate the device believes it has is the one on air, whatever refused
\* packets and coalesced publications lie behind it, unless a sensor threw.
RateIsOnAir ==
  Unharmed({"sensor", "services"}) /\ air.packet # Nothing => air.rate = rate

\* A full packet on air is never out of date: it carries the last reading of
\* every sensor and the current revision, though the radio refused packets
\* and old bytes were published again, unless a get() threw.
AirTellsTheLastReading ==
  Unharmed({"sensor", "services", "getter"}) /\ air.packet.kind = "full"
     => air.packet = Full(reading, revision)

\* What a receiver may read is the current value, or is about to be: bytes a
\* central wrote stay one turn of the loop, an old value until the window of
\* its change ends; unless a get() threw or a sealed write did not open.
ReadsAreCurrent ==
  Unharmed({"getter", "services", "write"}) =>
     \A w \in Readable : \/ char[w] = "current" \/ w \in deferred
                         \/ char[w] = "old" /\ timers["change"] = "armed"

=============================================================================
