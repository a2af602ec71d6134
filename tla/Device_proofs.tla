------------------------------- MODULE Device_proofs -------------------------------
(***************************************************************************)
(* The device, its radio and its counters, each running for itself.        *)
(*                                                                         *)
(* Whatever throws, and whenever: the device goes on reading, goes back to *)
(* its idle rate, loses no timer, and what is on air is what it last read, *)
(* at the rate it believes in, but for the exceptions the properties name. *)
(*                                                                         *)
(* The device is never behind what it accepted, for every ring and stride, *)
(* as long as no write carries a counter of the upper half of the space;   *)
(* it repeats no nonce, for every size of the ring, every stride and every *)
(* mark it starts from.  A device runs both of its counters, and each goes *)
(* its own way: it implements either specification, and inherits what is   *)
(* proved of it.                                                           *)
(***************************************************************************)
EXTENDS DeviceRadio, DeviceCounters, TLAPS

FaultKinds == {"sensor", "getter", "services", "write"}
Rates == Intervals \cup {FastInterval}
Airs == [packet : Packets, rate : Rates]
Revs == 0..(Revisions - 1)

\* While no sensor threw, the bytes kept for the next change of rate are the
\* ones on air: publishing them again cannot bring back older ones.
KeptIsOnAir == Unharmed({"sensor", "services"}) => lastSd = air.packet

IInv == /\ TypeOK
        /\ ReadTimerIsArmed /\ NoStrayTimer /\ FastRateEnds
        /\ KeptIsOnAir /\ RateIsOnAir /\ AirTellsTheLastReading

USE EntriesAssumption, RevisionsAssumption, IntervalsAssumption

----------------------------------------------------------------------------
\* What any attempt to read and to publish comes to.
Outcome ==
  /\ reading' \in [Sensors -> Values]
  /\ lastSd' \in Packets /\ air' \in Airs
  /\ faults \subseteq faults' /\ faults' \subseteq FaultKinds
  /\ "services" \in faults' => "services" \in faults

Published ==
  /\ lastSd' = air'.packet /\ air'.rate = rate'
  /\ \/ lastSd' \in {Full(reading', revision'), Fallback, Nothing}
     \/ lastSd' = lastSd /\ UNCHANGED plan

\* A full packet is a packet.
LEMMA FullIsAPacket ==
  ASSUME NEW v \in [Sensors -> Values], NEW r \in Revs
  PROVE  Full(v, r) \in Packets
BY DEF Packets, Revs

LEMMA PublishPuts ==
  ASSUME NEW packet \in Packets, NEW threw \in BOOLEAN, rate' \in Rates,
         Publish(packet, threw)
  PROVE  /\ lastSd' \in {packet, Fallback, Nothing}
         /\ lastSd' \in Packets /\ air' \in Airs
         /\ lastSd' = air'.packet /\ air'.rate = rate'
<1>1. Fallback \in Packets /\ Nothing \in Packets
  BY DEF Packets
<1>2. PICK accepted \in {packet, Fallback, Nothing} :
        lastSd' = accepted /\ air' = [packet |-> accepted, rate |-> rate']
  BY DEF Publish
<1> QED
  BY <1>1, <1>2 DEF Airs

LEMMA ReadDueReads ==
  ASSUME TypeOK, NEW threw \in BOOLEAN, ReadDue(threw)
  PROVE  /\ reading' \in [Sensors -> Values]
         /\ faults \subseteq faults' /\ faults' \subseteq FaultKinds
         /\ "services" \in faults' => "services" \in faults
         /\ threw => "sensor" \in faults'
<1>1. reading' \in [Sensors -> Values]
  BY DEF ReadDue
<1>2. faults' = IF threw THEN faults \cup {"sensor"} ELSE faults
  BY DEF ReadDue, Wrong
<1> QED
  BY <1>1, <1>2 DEF TypeOK, FaultKinds

LEMMA RefreshEnds ==
  ASSUME TypeOK, NEW threw \in BOOLEAN, rate' \in Rates, revision' \in Revs,
         Refresh(threw)
  PROVE  Outcome /\ ("sensor" \in faults' \/ Published)
<1>1. CASE ReadDue(TRUE) /\ UNCHANGED radio
  BY <1>1, ReadDueReads DEF Outcome, radio, TypeOK, Airs, Rates
<1>2. CASE ReadDue(FALSE) /\ Publish(Full(reading', revision'), threw)
  <2>1. /\ reading' \in [Sensors -> Values]
        /\ faults \subseteq faults' /\ faults' \subseteq FaultKinds
        /\ "services" \in faults' => "services" \in faults
    BY <1>2, ReadDueReads
  <2>2. Full(reading', revision') \in Packets
    BY <2>1, FullIsAPacket
  <2> QED
    BY <1>2, <2>1, <2>2, PublishPuts DEF Outcome, Published
<1> QED
  BY <1>1, <1>2 DEF Refresh

LEMMA RepublishEnds ==
  ASSUME TypeOK, rate' \in Rates, NEW threw \in BOOLEAN, RepublishRate(threw)
  PROVE  /\ Outcome /\ ("sensor" \in faults' \/ Published)
         /\ UNCHANGED revision
<1>1. CASE lastSd = Nothing
  BY <1>1, RefreshEnds DEF RepublishRate, TypeOK, Revs
<1>2. CASE lastSd # Nothing
  <2>1. Publish(lastSd, threw) /\ UNCHANGED <<plan, faults>> /\ lastSd \in Packets
    BY <1>2 DEF RepublishRate, TypeOK
  <2> QED
    BY <2>1, PublishPuts DEF Outcome, Published, plan, TypeOK, FaultKinds
<1> QED
  BY <1>1, <1>2

LEMMA RepublishIfEnds ==
  ASSUME TypeOK, rate' \in Rates, NEW moved \in BOOLEAN, RepublishIf(moved)
  PROVE  /\ Outcome
         /\ "sensor" \in faults' \/ Published \/ (~moved /\ UNCHANGED <<reading, radio>>)
         /\ UNCHANGED revision
<1>1. CASE moved
  BY <1>1, RepublishEnds DEF RepublishIf
<1>2. CASE ~moved
  BY <1>2 DEF RepublishIf, Outcome, plan, radio, TypeOK, Airs, Rates, FaultKinds
<1> QED
  BY <1>1, <1>2

LEMMA TickEnds ==
  ASSUME TypeOK, rate' \in Rates, NEW threw \in BOOLEAN, Tick(threw)
  PROVE  /\ Outcome
         /\ "sensor" \in faults' \/ Published \/ UNCHANGED <<reading, radio>>
         /\ threw \/ reading' # reading => "sensor" \in faults' \/ Published
         /\ UNCHANGED revision
<1>1. CASE threw /\ ReadDue(TRUE) /\ UNCHANGED radio
  BY <1>1, ReadDueReads DEF Tick, Outcome, radio, TypeOK, Airs, Rates
<1>2. ASSUME ReadDue(FALSE), reading' # reading,
             Publish(Full(reading', revision), threw), UNCHANGED revision
      PROVE  Outcome /\ Published
  <2>1. /\ reading' \in [Sensors -> Values]
        /\ faults \subseteq faults' /\ faults' \subseteq FaultKinds
        /\ "services" \in faults' => "services" \in faults
    BY <1>2, ReadDueReads
  <2>2. Full(reading', revision) \in Packets
    BY <2>1, FullIsAPacket DEF TypeOK, Revs
  <2> QED
    BY <1>2, <2>1, <2>2, PublishPuts DEF Outcome, Published
<1>3. CASE ReadDue(FALSE) /\ reading' = reading /\ ~threw /\ UNCHANGED radio
  BY <1>3, ReadDueReads DEF Tick, Outcome, radio, TypeOK, Airs, Rates
<1> QED
  BY <1>1, <1>2, <1>3 DEF Tick

----------------------------------------------------------------------------
\* What the packet on air must be for the invariant to hold again.
AirInv == KeptIsOnAir /\ RateIsOnAir /\ AirTellsTheLastReading

\* After a publication, or a sensor that threw, the air is in order.
LEMMA AirAfterOutcome ==
  ASSUME IInv, Outcome, running' = running,
         \/ "sensor" \in faults'
         \/ Published
         \/ UNCHANGED <<plan, rate, radio>>
  PROVE  AirInv'
<1> SUFFICES ASSUME Unharmed({"sensor", "services"})'
             PROVE  /\ lastSd' = air'.packet
                    /\ air'.packet # Nothing => air'.rate = rate'
                    /\ "getter" \notin faults' /\ air'.packet.kind = "full"
                          => air'.packet = Full(reading', revision')
  BY DEF AirInv, KeptIsOnAir, RateIsOnAir, AirTellsTheLastReading, Unharmed, Nothing
<1>1. /\ Unharmed({"sensor", "services"})
      /\ lastSd = air.packet
      /\ "getter" \notin faults' => Unharmed({"sensor", "services", "getter"})
  BY DEF IInv, KeptIsOnAir, Unharmed, Outcome
<1>2. CASE Published
  BY <1>1, <1>2 DEF Published, IInv, AirTellsTheLastReading, Nothing, Fallback, Full, plan
<1>3. CASE UNCHANGED <<plan, rate, radio>>
  BY <1>1, <1>3 DEF IInv, RateIsOnAir, AirTellsTheLastReading, plan, radio
<1> QED
  BY <1>2, <1>3 DEF Unharmed

----------------------------------------------------------------------------
\* The timers.  The states of them in which none is lost.
NoneIsLost == [held : [TimerKinds -> {"none", "armed"}], lost : {{}}]

LEMMA NoClockIsLost == IInv => Clocks \in NoneIsLost
BY DEF IInv, TypeOK, NoStrayTimer, Clocks, NoneIsLost

LEMMA BecomesLossless ==
  ASSUME NEW clock \in NoneIsLost, Become(clock)
  PROVE  /\ timers' \in [TimerKinds -> {"none", "armed"}] /\ strays' = {}
         /\ timers' = clock.held
BY DEF Become, NoneIsLost

LEMMA ClearLosesNone ==
  ASSUME NEW clock \in NoneIsLost, NEW kind \in TimerKinds
  PROVE  /\ ClearTimeout(kind, clock) \in NoneIsLost
         /\ ClearTimeout(kind, clock).held[kind] = "none"
         /\ \A k \in TimerKinds \ {kind} :
               ClearTimeout(kind, clock).held[k] = clock.held[k]
BY DEF ClearTimeout, NoneIsLost

\* Setting loses nothing where nothing is set.
LEMMA SetLosesNone ==
  ASSUME NEW clock \in NoneIsLost, NEW kind \in TimerKinds, clock.held[kind] = "none"
  PROVE  /\ SetTimeout(kind, clock) \in NoneIsLost
         /\ SetTimeout(kind, clock).held[kind] = "armed"
         /\ \A k \in TimerKinds \ {kind} :
               SetTimeout(kind, clock).held[k] = clock.held[k]
<1>1. {k \in {kind} : clock.held[k] = "armed"} = {}
  OBVIOUS
<1> QED
  BY <1>1 DEF SetTimeout, NoneIsLost

LEMMA ScheduleLosesNone ==
  ASSUME NEW clock \in NoneIsLost
  PROVE  /\ Schedule(clock) \in NoneIsLost
         /\ Schedule(clock).held["read"] = "armed"
         /\ \A k \in {"fast", "change"} : Schedule(clock).held[k] = clock.held[k]
<1>1. "read" \in TimerKinds /\ {"fast", "change"} = TimerKinds \ {"read"}
  BY DEF TimerKinds
<1> QED
  BY <1>1, ClearLosesNone, SetLosesNone DEF Schedule

LEMMA ScheduleUnlessLosesNone ==
  ASSUME NEW clock \in NoneIsLost, NEW threw \in BOOLEAN
  PROVE  /\ ScheduleUnless(threw, clock) \in NoneIsLost
         /\ clock.held["read"] = "armed" =>
               ScheduleUnless(threw, clock).held["read"] = "armed"
         /\ \A k \in {"fast", "change"} :
               ScheduleUnless(threw, clock).held[k] = clock.held[k]
BY ScheduleLosesNone DEF ScheduleUnless

\* Clearing one timer of the current state.
LEMMA ClockCleared ==
  ASSUME IInv, NEW kind \in TimerKinds
  PROVE  /\ ClearTimeout(kind, Clocks) \in NoneIsLost
         /\ ClearTimeout(kind, Clocks).held[kind] = "none"
         /\ \A k \in TimerKinds \ {kind} :
               ClearTimeout(kind, Clocks).held[k] = timers[k]
BY NoClockIsLost, ClearLosesNone DEF Clocks

LEMMA LetGoLosesNone ==
  ASSUME IInv
  PROVE  LetGo \in NoneIsLost /\ LetGo.held = [k \in TimerKinds |-> "none"]
<1> DEFINE old == ClearTimeout("change", ClearTimeout("fast", ClearTimeout("read", Clocks)))
<1>1. /\ timers \in [TimerKinds -> {"none", "armed"}] /\ strays = {}
      /\ TimerKinds = {"read", "fast", "change"}
  BY DEF TypeOK, TimerKinds, IInv, NoStrayTimer
<1>2. /\ old.lost = {} /\ old.held["read"] = "none" /\ old.held["fast"] = "none"
      /\ old.held["change"] = "none"
  BY <1>1 DEF ClearTimeout, Clocks
<1>3. LetGo = [held |-> [k \in TimerKinds |-> "none"],
               lost |-> old.lost \cup {k \in TimerKinds : old.held[k] = "armed"}]
  BY DEF LetGo
<1> HIDE DEF old
<1>4. old.lost \cup {k \in TimerKinds : old.held[k] = "armed"} = {}
  BY <1>1, <1>2
<1>5. LetGo = [held |-> [k \in TimerKinds |-> "none"], lost |-> {}]
  BY <1>3, <1>4
<1> QED
  BY <1>5 DEF NoneIsLost, TimerKinds

----------------------------------------------------------------------------
\* The steps.

LEMMA NothingIsAPacket == Nothing \in Packets
BY DEF Packets

LEMMA InitInv == Init => IInv
<1> SUFFICES ASSUME Init PROVE IInv
  OBVIOUS
<1>1. 0 \in 0..(Revisions - 1)
  OBVIOUS
<1>2. air \in [packet : Packets, rate : Intervals \cup {FastInterval}]
  BY NothingIsAPacket DEF Init
<1>3. TypeOK
  BY <1>1, <1>2, NothingIsAPacket DEF Init, TypeOK
<1> QED
  BY <1>3 DEF Init, IInv, ReadTimerIsArmed, NoStrayTimer, FastRateEnds, KeptIsOnAir,
              RateIsOnAir, AirTellsTheLastReading, Unharmed

\* What setup() puts in place before anything may stop it.
LEMMA ReplaceEnds ==
  ASSUME IInv, Replace
  PROVE  /\ running' = TRUE /\ interval' \in Intervals /\ rate' = interval'
         /\ revision' \in Revs
         /\ central' = central /\ deferred' \subseteq Readable
BY DEF Replace, IInv, TypeOK, Revs

LEMMA SetupStopsInv == IInv /\ SetupStops => IInv'
<1> SUFFICES ASSUME IInv, SetupStops PROVE IInv'
  OBVIOUS
<1>1. Replace /\ "services" \in faults'
  BY DEF SetupStops, Wrong
<1>0. /\ timers' \in [TimerKinds -> {"none", "armed"}] /\ strays' = {}
      /\ timers' = [k \in TimerKinds |-> "none"]
  BY LetGoLosesNone, BecomesLossless DEF SetupStops
<1>2. TypeOK'
  <2>1. lastSd' \in Packets /\ faults' \subseteq FaultKinds
    BY NothingIsAPacket DEF SetupStops, Wrong, IInv, TypeOK, FaultKinds
  <2> QED
    BY <1>1, <1>0, <2>1, ReplaceEnds DEF SetupStops, IInv, TypeOK, Revs, FaultKinds
<1>3. ReadTimerIsArmed' /\ AirInv'
  BY <1>1 DEF AirInv, ReadTimerIsArmed, KeptIsOnAir, RateIsOnAir,
              AirTellsTheLastReading, Unharmed
<1>4. NoStrayTimer' /\ FastRateEnds'
  BY <1>1, <1>0, ReplaceEnds DEF NoStrayTimer, FastRateEnds, TimerKinds
<1> QED
  BY <1>2, <1>3, <1>4 DEF IInv, AirInv

LEMMA SetupEndsInv == IInv /\ SetupEnds => IInv'
<1> SUFFICES ASSUME IInv, SetupEnds PROVE IInv'
  OBVIOUS
<1>1. Replace /\ reading' \in [Sensors -> Values] /\ rate' \in Rates
  BY ReplaceEnds DEF SetupEnds, Rates
<1>0. /\ timers' \in [TimerKinds -> {"none", "armed"}] /\ strays' = {}
      /\ timers'["read"] = "armed" /\ timers'["fast"] = "none"
  BY LetGoLosesNone, ScheduleLosesNone, BecomesLossless DEF SetupEnds, TimerKinds
<1>2. \/ lastSd' = Nothing /\ UNCHANGED air /\ faults' = {"sensor"}
      \/ /\ lastSd' \in {Full(reading', revision'), Fallback, Nothing}
         /\ lastSd' \in Packets /\ air' \in Airs
         /\ lastSd' = air'.packet /\ air'.rate = rate'
         /\ faults' = {}
  <2>1. Full(reading', revision') \in Packets
    BY <1>1, ReplaceEnds, FullIsAPacket
  <2> QED
    BY <1>1, <2>1, PublishPuts DEF SetupEnds
<1>3. TypeOK'
  <2>1. lastSd' \in Packets /\ air' \in Airs /\ faults' \subseteq FaultKinds
    BY <1>2 DEF IInv, TypeOK, Packets, Airs, Rates, FaultKinds
  <2> QED
    BY <1>1, <1>0, <2>1, ReplaceEnds
       DEF SetupEnds, IInv, TypeOK, Revs, Airs, Rates, FaultKinds
<1>5. AirInv'
  BY <1>2 DEF AirInv, KeptIsOnAir, RateIsOnAir, AirTellsTheLastReading, Unharmed,
              Nothing, Fallback
<1>6. NoStrayTimer' /\ FastRateEnds'
  BY <1>1, <1>0, ReplaceEnds DEF NoStrayTimer, FastRateEnds
<1> QED
  BY <1>3, <1>0, <1>5, <1>6 DEF IInv, AirInv, ReadTimerIsArmed

\* Where a step leaves setup's work alone, it is enough that it publishes as
\* above and keeps its timers and its rate in order.
LEMMA StepInv ==
  ASSUME IInv, Outcome, UNCHANGED <<running, listening>>,
         central' \in {"none", "missed", "noticed"},
         \/ "sensor" \in faults'
         \/ Published
         \/ UNCHANGED <<plan, rate, radio>>,
         revision' \in Revs, interval' \in Intervals, rate' \in Rates,
         timers' \in [TimerKinds -> {"none", "armed"}], strays' = {},
         timers["read"] = "armed" => timers'["read"] = "armed",
         char' \in [Readable -> {"current", "old", "written"}],
         deferred' \subseteq Readable,
         FastRateEnds'
  PROVE  IInv'
<1>1. TypeOK'
  BY DEF IInv, TypeOK, Outcome, Rates, Airs, Revs, FaultKinds, TimerKinds
<1>2. AirInv'
  BY AirAfterOutcome
<1>3. ReadTimerIsArmed'
  BY DEF IInv, ReadTimerIsArmed, Unharmed, Outcome
<1> QED
  BY <1>1, <1>2, <1>3 DEF IInv, AirInv, NoStrayTimer

LEMMA WakeInv == IInv /\ Wake => IInv'
<1> SUFFICES ASSUME IInv, Wake PROVE IInv'
  OBVIOUS
<1> DEFINE spent == ClearTimeout("read", Clocks)
<1>1. PICK threw \in BOOLEAN : Tick(threw) /\ Become(NextWake(threw, spent))
  BY DEF Wake
<1>0. /\ timers' \in [TimerKinds -> {"none", "armed"}] /\ strays' = {}
      /\ timers'["read"] = "armed" /\ timers'["fast"] = timers["fast"]
  <2>1. "read" \in TimerKinds /\ "fast" \in TimerKinds \ {"read"}
    BY DEF TimerKinds
  <2>2. /\ spent \in NoneIsLost /\ spent.held["read"] = "none"
        /\ spent.held["fast"] = timers["fast"]
    BY <2>1, ClockCleared
  <2>3. /\ NextWake(threw, spent) \in NoneIsLost
        /\ NextWake(threw, spent).held["read"] = "armed"
        /\ NextWake(threw, spent).held["fast"] = spent.held["fast"]
    BY <2>1, <2>2, SetLosesNone, ScheduleLosesNone DEF NextWake
  <2> QED
    BY <1>1, <2>2, <2>3, BecomesLossless
<1>2. rate' \in Rates
  BY DEF Wake, rates, IInv, TypeOK, Rates
<1>3. /\ Outcome
      /\ "sensor" \in faults' \/ Published \/ UNCHANGED <<plan, rate, radio>>
      /\ UNCHANGED revision
  BY <1>1, <1>2, TickEnds DEF IInv, plan, Wake, rates, Tick, Published
<1>4. FastRateEnds'
  BY <1>0 DEF IInv, FastRateEnds, Wake, rates
<1> QED
  BY <1>0, <1>2, <1>3, <1>4, StepInv DEF Wake, IInv, TypeOK, rates, table, Revs

LEMMA ConnectInv == IInv /\ Connect => IInv'
<1> SUFFICES ASSUME IInv, Connect PROVE IInv'
  OBVIOUS
<1>1. CASE /\ central' = "noticed" /\ GoFast
           /\ Become(ClearTimeout("fast", Clocks))
           /\ RepublishIf(rate # FastInterval)
  <2>1. /\ timers' \in [TimerKinds -> {"none", "armed"}] /\ strays' = {}
        /\ timers'["fast"] = "none" /\ timers'["read"] = timers["read"]
    BY <1>1, ClockCleared, BecomesLossless DEF TimerKinds
  <2>2. rate' = FastInterval /\ interval' = interval /\ rate' \in Rates
    BY <1>1 DEF GoFast, Rates
  <2>3. /\ Outcome /\ UNCHANGED revision
        /\ "sensor" \in faults' \/ Published
           \/ (rate = FastInterval /\ UNCHANGED <<reading, radio>>)
    BY <1>1, <2>2, RepublishIfEnds DEF IInv
  <2>4. FastRateEnds'
    BY <1>1, <2>1 DEF FastRateEnds
  <2> QED
    BY <1>1, <2>1, <2>2, <2>3, <2>4, StepInv
       DEF Connect, IInv, TypeOK, Revs, table, plan
<1>2. CASE central' = "missed" /\ UNCHANGED <<plan, rates, radio, clocks, faults>>
  BY <1>2 DEF Connect, IInv, TypeOK, table, plan, rates, radio, clocks,
              ReadTimerIsArmed, NoStrayTimer, FastRateEnds, KeptIsOnAir, RateIsOnAir,
              AirTellsTheLastReading, Unharmed
<1> QED
  BY <1>1, <1>2 DEF Connect

LEMMA DisconnectInv == IInv /\ Disconnect => IInv'
<1> SUFFICES ASSUME IInv, Disconnect PROVE IInv'
  OBVIOUS
<1>1. /\ timers' \in [TimerKinds -> {"none", "armed"}]
      /\ timers'["read"] = timers["read"]
      /\ listening => timers'["fast"] = "armed"
      /\ strays' = {}
  <2>1. "fast" \in TimerKinds /\ "read" \in TimerKinds \ {"fast"}
    BY DEF TimerKinds
  <2>2. CASE listening
    <3>1. /\ GoIdleAfterTimeout \in NoneIsLost
          /\ GoIdleAfterTimeout.held["fast"] = "armed"
          /\ GoIdleAfterTimeout.held["read"] = timers["read"]
      BY <2>1, ClockCleared, SetLosesNone DEF GoIdleAfterTimeout
    <3> QED
      BY <2>2, <3>1, BecomesLossless DEF Disconnect
  <2>3. CASE ~listening
    BY <2>3, NoClockIsLost, BecomesLossless DEF Disconnect, Clocks
  <2> QED
    BY <2>2, <2>3
<1>2. Outcome
  BY DEF Disconnect, Outcome, IInv, TypeOK, radio, plan, Airs, Rates, FaultKinds
<1> QED
  BY <1>1, <1>2, StepInv
     DEF Disconnect, IInv, TypeOK, table, plan, rates, radio, Rates, Revs, FastRateEnds

LEMMA ReturnToIdleInv == IInv /\ ReturnToIdle => IInv'
<1> SUFFICES ASSUME IInv, ReturnToIdle PROVE IInv'
  OBVIOUS
<1>1. /\ rate' = interval /\ interval' = interval
      /\ RepublishIf(TRUE) /\ rate' \in Rates
  BY DEF ReturnToIdle, GoIdle, IInv, TypeOK, Rates
<1>0. /\ timers' \in [TimerKinds -> {"none", "armed"}] /\ strays' = {}
      /\ timers'["fast"] = "none" /\ timers'["read"] = timers["read"]
  BY ClockCleared, BecomesLossless DEF ReturnToIdle, TimerKinds
<1>2. Outcome /\ UNCHANGED revision /\ ("sensor" \in faults' \/ Published)
  BY <1>1, RepublishIfEnds DEF IInv
<1> QED
  BY <1>1, <1>0, <1>2, StepInv
     DEF ReturnToIdle, IInv, TypeOK, Revs, table, FastRateEnds

LEMMA SetAdvertisingIntervalInv == IInv /\ SetAdvertisingInterval => IInv'
<1> SUFFICES ASSUME IInv, SetAdvertisingInterval PROVE IInv'
  OBVIOUS
<1> DEFINE moves == timers["fast"] = "none" /\ rate # interval'
<1>1. /\ interval' \in Intervals /\ Become(Schedule(Clocks))
      /\ rate' = IF moves THEN interval' ELSE rate
      /\ RepublishIf(moves)
  BY DEF SetAdvertisingInterval
<1>2. rate' \in Rates
  BY <1>1 DEF IInv, TypeOK, Rates
<1>3. /\ Outcome /\ UNCHANGED revision
      /\ "sensor" \in faults' \/ Published \/ UNCHANGED <<plan, rate, radio>>
  BY <1>1, <1>2, RepublishIfEnds DEF IInv, plan
<1>4. timers' \in [TimerKinds -> {"none", "armed"}] /\ timers'["read"] = "armed"
      /\ timers'["fast"] = timers["fast"] /\ timers["fast"] \in {"none", "armed"}
      /\ strays' = {}
  BY <1>1, NoClockIsLost, ScheduleLosesNone, BecomesLossless
     DEF Clocks, TimerKinds, IInv, TypeOK
<1>5. FastRateEnds'
  BY <1>1, <1>4 DEF FastRateEnds, IInv, SetAdvertisingInterval
<1> QED
  BY <1>1, <1>2, <1>3, <1>4, <1>5, StepInv
     DEF SetAdvertisingInterval, IInv, TypeOK, Revs, table

LEMMA WriteInv == IInv /\ Write => IInv'
<1> SUFFICES ASSUME IInv, Write PROVE IInv'
  OBVIOUS
<1>1. PICK w \in Readable : /\ WriteDoesNotOpen(w) \/ WriteIsRefused(w) \/ WriteIsApplied(w)
                            /\ char' = [char EXCEPT ![w] = "written"]
  BY DEF Write
<1>2. char' \in [Readable -> {"current", "old", "written"}] /\ central # "none"
  BY <1>1 DEF Write, IInv, TypeOK
<1>3. CASE WriteDoesNotOpen(w)
  <2>1. Outcome
    BY <1>3 DEF WriteDoesNotOpen, Wrong, Outcome, IInv, TypeOK, radio, plan, Airs,
                Rates, FaultKinds
  <2> QED
    BY <1>2, <1>3, <2>1, StepInv
       DEF WriteDoesNotOpen, Write, IInv, TypeOK, plan, rates, radio, clocks, Rates,
           Revs, NoStrayTimer, FastRateEnds
<1>4. CASE WriteIsRefused(w)
  <2>1. Outcome
    BY <1>4 DEF WriteIsRefused, Outcome, IInv, TypeOK, radio, plan, Airs, Rates,
                FaultKinds
  <2> QED
    BY <1>2, <1>4, <2>1, StepInv
       DEF WriteIsRefused, PublishReadLater, Write, IInv, TypeOK, plan, rates, radio,
           clocks, Rates, Revs, NoStrayTimer, FastRateEnds
<1>5. CASE WriteIsApplied(w)
  <2>1. /\ rate' = FastInterval /\ interval' = interval /\ rate' \in Rates
        /\ deferred' \subseteq Readable /\ central' = "noticed"
    BY <1>5 DEF WriteIsApplied, GoFast, PublishReadLater, Rates, IInv, TypeOK
  <2>2. ASSUME NEW threw \in BOOLEAN, Tick(threw), threw \/ reading' # reading
        PROVE  Outcome /\ ("sensor" \in faults' \/ Published) /\ UNCHANGED revision
    BY <2>1, <2>2, TickEnds DEF IInv
  <2>3. ASSUME CarryTheRate(rate # FastInterval)
        PROVE  /\ Outcome /\ UNCHANGED revision
               /\ "sensor" \in faults' \/ Published \/ UNCHANGED <<plan, rate, radio>>
    BY <2>1, <2>3, RepublishIfEnds DEF CarryTheRate, IInv, plan
  <2>4. /\ Outcome /\ UNCHANGED revision
        /\ "sensor" \in faults' \/ Published \/ UNCHANGED <<plan, rate, radio>>
    BY <1>5, <2>2, <2>3 DEF WriteIsApplied
  <2>5. /\ timers' \in [TimerKinds -> {"none", "armed"}]
        /\ timers["read"] = "armed" => timers'["read"] = "armed"
        /\ strays' = {} /\ timers'["fast"] = "none"
    <3> DEFINE idle == ClearTimeout("fast", Clocks)
    <3>1. PICK threw \in BOOLEAN : Become(ScheduleUnless(threw, idle))
      BY <1>5 DEF WriteIsApplied
    <3>2. /\ idle \in NoneIsLost /\ idle.held["fast"] = "none"
          /\ idle.held["read"] = timers["read"]
      BY ClockCleared DEF TimerKinds
    <3> QED
      BY <3>1, <3>2, ScheduleUnlessLosesNone, BecomesLossless
  <2>6. FastRateEnds'
    BY <2>1, <2>5 DEF FastRateEnds
  <2> QED
    BY <1>2, <2>1, <2>4, <2>5, <2>6, StepInv DEF Write, IInv, TypeOK, Revs
<1> QED
  BY <1>1, <1>3, <1>4, <1>5

LEMMA PublishReadInv == IInv /\ PublishRead => IInv'
<1> SUFFICES ASSUME IInv, PublishRead PROVE IInv'
  OBVIOUS
<1>1. /\ char' \in [Readable -> {"current", "old", "written"}]
      /\ deferred' \subseteq Readable
      /\ faults' \in {faults, faults \cup {"getter"}}
  BY DEF PublishRead, Wrong, IInv, TypeOK
<1>2. Outcome
  BY <1>1 DEF PublishRead, Outcome, IInv, TypeOK, radio, plan, Airs, Rates, FaultKinds
<1> QED
  BY <1>1, <1>2, StepInv
     DEF PublishRead, IInv, TypeOK, plan, rates, radio, clocks, Rates, Revs,
         NoStrayTimer, FastRateEnds

LEMMA ChangedInv == IInv /\ Changed => IInv'
<1> SUFFICES ASSUME IInv, Changed PROVE IInv'
  OBVIOUS
<1>1. char' \in [Readable -> {"current", "old", "written"}]
  BY DEF Changed, IInv, TypeOK
<1>2. /\ timers' \in [TimerKinds -> {"none", "armed"}] /\ strays' = {}
      /\ timers'["read"] = timers["read"] /\ timers'["fast"] = timers["fast"]
  <2>1. "change" \in TimerKinds /\ {"read", "fast"} = TimerKinds \ {"change"}
    BY DEF TimerKinds
  <2>2. CASE NoWindow
    <3>1. Clocks \in NoneIsLost /\ Clocks.held["change"] = "none" /\ Clocks.held = timers
      BY <2>2, NoClockIsLost DEF NoWindow, Clocks
    <3> QED
      BY <2>1, <2>2, <3>1, SetLosesNone, BecomesLossless DEF Changed
  <2>3. CASE ~NoWindow
    BY <2>3, NoClockIsLost, BecomesLossless DEF Changed, Clocks
  <2> QED
    BY <2>2, <2>3
<1>3. Outcome
  BY DEF Changed, Outcome, IInv, TypeOK, radio, plan, Airs, Rates, FaultKinds
<1> QED
  BY <1>1, <1>2, <1>3, StepInv
     DEF Changed, IInv, TypeOK, plan, rates, radio, Rates, Revs, FastRateEnds

LEMMA PublishChangeInv == IInv /\ PublishChange => IInv'
<1> SUFFICES ASSUME IInv, PublishChange PROVE IInv'
  OBVIOUS
<1>1. revision' \in Revs
  BY DEF PublishChange, NextRevision, IInv, TypeOK, Revs
<1>2. /\ char' \in [Readable -> {"current", "old", "written"}]
      /\ timers' \in [TimerKinds -> {"none", "armed"}]
      /\ timers["read"] = "armed" => timers'["read"] = "armed"
      /\ timers'["fast"] = timers["fast"] /\ strays' = {}
  <2>1. char' \in [Readable -> {"current", "old", "written"}]
    BY DEF PublishChange, IInv, TypeOK
  <2> DEFINE spent == ClearTimeout("change", Clocks)
  <2>2. PICK threw \in BOOLEAN : Become(ScheduleUnless(threw, spent))
    BY DEF PublishChange
  <2>3. /\ spent \in NoneIsLost
        /\ spent.held["fast"] = timers["fast"] /\ spent.held["read"] = timers["read"]
    BY ClockCleared DEF TimerKinds
  <2> QED
    BY <2>1, <2>2, <2>3, ScheduleUnlessLosesNone, BecomesLossless
<1>3. CASE Wrong("getter") /\ UNCHANGED <<reading, radio>>
  <2>1. TypeOK'
    BY <1>1, <1>2, <1>3 DEF PublishChange, Wrong, IInv, TypeOK, radio, rates, Revs
  <2>2. "getter" \in faults' /\ faults \subseteq faults'
    BY <1>3 DEF Wrong
  <2> QED
    BY <1>2, <1>3, <2>1, <2>2
       DEF PublishChange, IInv, radio, rates, ReadTimerIsArmed, NoStrayTimer,
           FastRateEnds, KeptIsOnAir, RateIsOnAir, AirTellsTheLastReading, Unharmed
<1>4. ASSUME NEW threw \in BOOLEAN, Refresh(threw) PROVE IInv'
  <2>1. rate' \in Rates
    BY DEF PublishChange, rates, IInv, TypeOK, Rates
  <2>2. Outcome /\ ("sensor" \in faults' \/ Published)
    BY <1>1, <1>4, <2>1, RefreshEnds DEF IInv
  <2> QED
    BY <1>1, <1>2, <2>1, <2>2, StepInv
       DEF PublishChange, IInv, TypeOK, rates, NoStrayTimer, FastRateEnds
<1> QED
  BY <1>3, <1>4 DEF PublishChange

LEMMA UpdateInv == IInv /\ Update => IInv'
<1> SUFFICES ASSUME IInv, Update PROVE IInv'
  OBVIOUS
<1>1. PICK threw \in BOOLEAN : Refresh(threw) /\ Become(ScheduleUnless(threw, Clocks))
  BY DEF Update
<1>2. /\ timers' \in [TimerKinds -> {"none", "armed"}]
      /\ timers["read"] = "armed" => timers'["read"] = "armed"
      /\ timers'["fast"] = timers["fast"] /\ strays' = {}
  BY <1>1, NoClockIsLost, ScheduleUnlessLosesNone, BecomesLossless DEF Clocks
<1>3. rate' \in Rates /\ revision' \in Revs
  BY DEF Update, rates, IInv, TypeOK, Rates, Revs
<1>4. Outcome /\ ("sensor" \in faults' \/ Published)
  BY <1>1, <1>3, RefreshEnds DEF IInv
<1> QED
  BY <1>2, <1>3, <1>4, StepInv
     DEF Update, IInv, TypeOK, rates, table, NoStrayTimer, FastRateEnds

LEMMA NextInv == IInv /\ [Next]_vars => IInv'
<1>1. IInv /\ UNCHANGED vars => IInv'
  BY DEF vars, plan, rates, radio, clocks, table, IInv, TypeOK, ReadTimerIsArmed,
         NoStrayTimer, FastRateEnds, KeptIsOnAir, RateIsOnAir,
         AirTellsTheLastReading, Unharmed
<1> QED
  BY <1>1, SetupStopsInv, SetupEndsInv, WakeInv, ConnectInv, DisconnectInv,
     ReturnToIdleInv, SetAdvertisingIntervalInv, WriteInv, PublishReadInv, ChangedInv,
     PublishChangeInv, UpdateInv
     DEF Next

\* The inductive invariant holds of the device's one thread.
THEOREM Invariance == Spec => []IInv
BY InitInv, NextInv, PTL DEF Spec

\* Every variable of the thread keeps its type (BTHomeWritable.js).
THEOREM RadioTypeOK == Spec => []TypeOK
<1>1. IInv => TypeOK
  BY DEF IInv
<1> QED
  BY <1>1, Invariance, PTL

\* For any number of sensors and entries, whatever throws: a device that
\* setup() got through with always has a read timer armed (wake, schedule).
THEOREM TheDeviceGoesOnReading == Spec => []ReadTimerIsArmed
<1>1. IInv => ReadTimerIsArmed
  BY DEF IInv
<1> QED
  BY <1>1, Invariance, PTL

\* No timer is set while another of its kind is live, and setup() leaves none
\* of the old ones running, whatever throws in between (schedule, wake,
\* goIdleAfterTimeout, changed, setup).
THEOREM NoTimerIsLost == Spec => []NoStrayTimer
<1>1. IInv => NoStrayTimer
  BY DEF IInv
<1> QED
  BY <1>1, Invariance, PTL

\* A device nobody is connected to is not left at its fast rate without the
\* timer that ends it, and that timer is not armed while a central is connected
\* that the device noticed (goFast, goIdleAfterTimeout, setAdvertisingInterval).
THEOREM TheDeviceReturnsToIdle == Spec => []FastRateEnds
<1>1. IInv => FastRateEnds
  BY DEF IInv
<1> QED
  BY <1>1, Invariance, PTL

\* The rate on air is the one the device believes in, unless a sensor threw
\* (publish, republishRate, handleWrite).
THEOREM TheRateIsOnAir == Spec => []RateIsOnAir
<1>1. IInv => RateIsOnAir
  BY DEF IInv
<1> QED
  BY <1>1, Invariance, PTL

\* A full packet on air carries the last readings and the revision, unless a
\* get() threw (publish, tick, publishChange).
THEOREM TheAirIsCurrent == Spec => []AirTellsTheLastReading
<1>1. IInv => AirTellsTheLastReading
  BY DEF IInv
<1> QED
  BY <1>1, Invariance, PTL

----------------------------------------------------------------------------
\* What may be read.  Beside the invariant, it takes that no step but those of
\* a write and of a change touches the characteristics and the change window.
LEMMA ReadsInv ==
  ASSUME IInv, ReadsAreCurrent, Next
  PROVE  ReadsAreCurrent'
<1> USE DEF ReadsAreCurrent
<1>1. CASE SetupStops
  BY <1>1 DEF SetupStops, Wrong, Unharmed
<1>2. CASE SetupEnds
  BY <1>2 DEF SetupEnds
<1>3. ASSUME UNCHANGED <<char, deferred>>, timers'["change"] = timers["change"],
             faults \subseteq faults', UNCHANGED running
      PROVE  ReadsAreCurrent'
  BY <1>3 DEF Unharmed
<1>4. CASE Wake
  <2>1. \E threw \in BOOLEAN : Tick(threw)
    BY <1>4 DEF Wake
  <2>2. faults \subseteq faults'
    BY <1>4, <2>1, TickEnds DEF Wake, rates, IInv, TypeOK, Rates, Outcome
  <2>3. timers'["change"] = timers["change"]
    <3> DEFINE spent == ClearTimeout("read", Clocks)
    <3>1. PICK threw \in BOOLEAN : Become(NextWake(threw, spent))
      BY <1>4 DEF Wake
    <3>2. /\ spent \in NoneIsLost /\ spent.held["read"] = "none"
          /\ spent.held["change"] = timers["change"]
      BY ClockCleared DEF TimerKinds
    <3>3. /\ NextWake(threw, spent) \in NoneIsLost
          /\ NextWake(threw, spent).held["change"] = spent.held["change"]
      BY <3>2, SetLosesNone, ScheduleLosesNone DEF NextWake, TimerKinds
    <3> QED
      BY <3>1, <3>2, <3>3, BecomesLossless
  <2> QED
    BY <1>3, <1>4, <2>2, <2>3 DEF Wake, table
<1>5. CASE Connect
  <2>1. CASE GoFast /\ RepublishIf(rate # FastInterval)
             /\ Become(ClearTimeout("fast", Clocks))
    <3>1. faults \subseteq faults'
      BY <2>1, RepublishIfEnds DEF GoFast, IInv, Rates, Outcome
    <3>2. timers'["change"] = timers["change"]
      BY <2>1, ClockCleared, BecomesLossless DEF TimerKinds
    <3> QED
      BY <1>3, <1>5, <3>1, <3>2 DEF Connect, table
  <2>2. CASE UNCHANGED <<plan, rates, radio, clocks, faults>>
    BY <1>3, <1>5, <2>2 DEF Connect, table, clocks
  <2> QED
    BY <1>5, <2>1, <2>2 DEF Connect
<1>6. CASE Disconnect
  <2>1. CASE listening
    <3>1. /\ GoIdleAfterTimeout \in NoneIsLost
          /\ GoIdleAfterTimeout.held["change"] = timers["change"]
      BY ClockCleared, SetLosesNone DEF GoIdleAfterTimeout, TimerKinds
    <3> QED
      BY <1>3, <1>6, <2>1, <3>1, BecomesLossless DEF Disconnect, table
  <2>2. CASE ~listening
    BY <1>3, <1>6, <2>2, NoClockIsLost, BecomesLossless DEF Disconnect, Clocks, table
  <2> QED
    BY <2>1, <2>2
<1>7. CASE ReturnToIdle
  <2>1. faults \subseteq faults'
    BY <1>7, RepublishIfEnds DEF ReturnToIdle, GoIdle, IInv, TypeOK, Rates, Outcome
  <2>2. timers'["change"] = timers["change"]
    BY <1>7, ClockCleared, BecomesLossless DEF ReturnToIdle, TimerKinds
  <2> QED
    BY <1>3, <1>7, <2>1, <2>2 DEF ReturnToIdle, table
<1>8. CASE SetAdvertisingInterval
  <2> DEFINE moves == timers["fast"] = "none" /\ rate # interval'
  <2>1. rate' \in Rates /\ RepublishIf(moves)
    BY <1>8 DEF SetAdvertisingInterval, IInv, TypeOK, Rates
  <2>2. faults \subseteq faults'
    BY <2>1, RepublishIfEnds DEF IInv, Outcome
  <2>3. timers'["change"] = timers["change"]
    BY <1>8, NoClockIsLost, ScheduleLosesNone, BecomesLossless
       DEF SetAdvertisingInterval, Clocks
  <2> QED
    BY <1>3, <1>8, <2>2, <2>3 DEF SetAdvertisingInterval, table
<1>9. CASE Write
  <2>1. PICK w \in Readable : /\ WriteDoesNotOpen(w) \/ WriteIsRefused(w) \/ WriteIsApplied(w)
                              /\ char' = [char EXCEPT ![w] = "written"]
    BY <1>9 DEF Write
  <2>2. CASE WriteDoesNotOpen(w)
    BY <2>2 DEF WriteDoesNotOpen, Wrong, Unharmed
  <2>3. ASSUME deferred' = deferred \cup {w}, faults \subseteq faults',
               timers'["change"] = timers["change"]
        PROVE  ReadsAreCurrent'
    BY <1>9, <2>1, <2>3 DEF Write, Unharmed, IInv, TypeOK
  <2>4. CASE WriteIsRefused(w)
    BY <2>3, <2>4 DEF WriteIsRefused, PublishReadLater, clocks
  <2>5. CASE WriteIsApplied(w)
    <3>1. rate' \in Rates
      BY <2>5 DEF WriteIsApplied, GoFast, Rates
    <3>2. faults \subseteq faults'
      BY <2>5, <3>1, TickEnds, RepublishIfEnds
         DEF WriteIsApplied, CarryTheRate, IInv, Outcome
    <3> DEFINE idle == ClearTimeout("fast", Clocks)
    <3>3. PICK threw \in BOOLEAN : Become(ScheduleUnless(threw, idle))
      BY <2>5 DEF WriteIsApplied
    <3>4. idle \in NoneIsLost /\ idle.held["change"] = timers["change"]
      BY ClockCleared DEF TimerKinds
    <3>5. timers'["change"] = timers["change"]
      BY <3>3, <3>4, ScheduleUnlessLosesNone, BecomesLossless
    <3> QED
      BY <2>3, <2>5, <3>2, <3>5 DEF WriteIsApplied, PublishReadLater
  <2> QED
    BY <2>1, <2>2, <2>4, <2>5
<1>10. CASE PublishRead
  BY <1>10 DEF PublishRead, Wrong, Unharmed, clocks, IInv, TypeOK
<1>11. CASE Changed
  <2>1. timers'["change"] = "armed"
    <3>1. "change" \in TimerKinds /\ timers["change"] \in {"none", "armed"}
      BY DEF TimerKinds, IInv, TypeOK
    <3>2. Clocks \in NoneIsLost /\ Clocks.held = timers
      BY NoClockIsLost DEF Clocks
    <3> QED
      BY <1>11, <3>1, <3>2, SetLosesNone, BecomesLossless DEF Changed, NoWindow
  <2> QED
    BY <1>11, <2>1 DEF Changed, Unharmed, IInv, TypeOK
<1>12. CASE PublishChange
  <2>1. "getter" \in faults' \/ \A w \in Readable : char'[w] = "current"
    BY <1>12 DEF PublishChange, Wrong
  <2> QED
    BY <2>1 DEF Unharmed
<1>13. CASE Update
  <2>1. rate' \in Rates /\ revision' \in Revs
    BY <1>13 DEF Update, rates, IInv, TypeOK, Rates, Revs
  <2>2. faults \subseteq faults'
    BY <1>13, <2>1, RefreshEnds DEF Update, IInv, Outcome
  <2>3. timers'["change"] = timers["change"]
    BY <1>13, NoClockIsLost, ScheduleUnlessLosesNone, BecomesLossless
       DEF Update, Clocks
  <2> QED
    BY <1>3, <1>13, <2>2, <2>3 DEF Update, table
<1> QED
  BY <1>1, <1>2, <1>4, <1>5, <1>6, <1>7, <1>8, <1>9, <1>10, <1>11, <1>12, <1>13
     DEF Next

\* What a receiver may read is the current value or is about to be, unless a
\* get() threw or a sealed write did not open (handleWrite, publishChange).
THEOREM WhatIsReadIsCurrent == Spec => []ReadsAreCurrent
<1>1. Init => ReadsAreCurrent
  BY DEF Init, ReadsAreCurrent
<1>2. IInv /\ ReadsAreCurrent /\ [Next]_vars => ReadsAreCurrent'
  BY ReadsInv DEF vars, table, clocks, ReadsAreCurrent, Unharmed
<1> QED
  BY <1>1, <1>2, Invariance, PTL DEF Spec

----------------------------------------------------------------------------
\* The counters.
\* No counter, and no mark, reaches the upper half: up to 2038 for a receiver
\* that starts from the clock.
LowerHalf == HighestCounter + WriteStride < Window /\ 2 * Window <= Space

\* What was accepted last, the counter and the mark, in this order, the mark
\* in flash being the one in memory.
InOrder == /\ lastAccepted <= writeCounter
           /\ writeCounter <= writeMark
           /\ savedMark = writeMark
           /\ writeMark <= lastAccepted + WriteStride
           /\ lastAccepted <= HighestCounter

WriteCounterInv == WriteTypeOK /\ InOrder

USE SpaceAssumption, WindowAssumption, WriteStrideAssumption, HighestAssumption

LEMMA WriteInitInv == LowerHalf /\ WriteInit => WriteCounterInv
  BY DEF WriteInit, WriteCounterInv, WriteTypeOK, InOrder, Ring, LowerHalf

\* A write that is ahead moves the counter, and the mark when it is reached.
LEMMA OpenWriteKeepsInv ==
  ASSUME LowerHalf, WriteCounterInv, NEW counter \in 0..HighestCounter, OpenWrite(counter)
  PROVE  WriteCounterInv'
<1> USE DEF WriteCounterInv, WriteTypeOK, InOrder, Ring, LowerHalf
<1>1. CASE IsAhead(counter, writeCounter)
  <2>1. /\ writeCounter' = counter /\ lastAccepted' = counter
        /\ NoteWriteCounter(counter)
    BY <1>1 DEF OpenWrite
  <2>2. counter > writeCounter
    BY <1>1 DEF IsAhead, Minus
  <2>3. CASE counter >= writeMark
    <3>1. writeMark' = counter + WriteStride /\ savedMark' = writeMark'
      BY <2>1, <2>3 DEF NoteWriteCounter, Plus
    <3> QED
      BY <2>1, <3>1
  <2>4. CASE counter < writeMark
    <3>1. UNCHANGED <<writeMark, savedMark>>
      BY <2>1, <2>4 DEF NoteWriteCounter
    <3> QED
      BY <2>1, <2>2, <2>4, <3>1
  <2> QED
    BY <2>3, <2>4
<1>2. CASE ~IsAhead(counter, writeCounter)
  BY <1>2 DEF OpenWrite, writeVars
<1> QED
  BY <1>1, <1>2

LEMMA SetupWriteKeepsInv == WriteCounterInv /\ SetupWrite => WriteCounterInv'
  BY DEF WriteCounterInv, WriteTypeOK, InOrder, SetupWrite, Ring

LEMMA WriteSpecInv == LowerHalf => (WriteSpec => []WriteCounterInv)
<1> SUFFICES ASSUME LowerHalf PROVE WriteSpec => []WriteCounterInv
  OBVIOUS
<1>1. WriteCounterInv /\ [WriteNext]_writeVars => WriteCounterInv'
  <2> SUFFICES ASSUME WriteCounterInv, [WriteNext]_writeVars PROVE WriteCounterInv'
    OBVIOUS
  <2>1. CASE UNCHANGED writeVars
    BY <2>1 DEF writeVars, WriteCounterInv, WriteTypeOK, InOrder
  <2> QED
    BY <2>1, OpenWriteKeepsInv, SetupWriteKeepsInv DEF WriteNext
<1> QED
  BY WriteInitInv, <1>1, PTL DEF WriteSpec

\* A device is never behind what it has accepted, and gives up a stride at
\* most, over all restarts (openWrite, noteWriteCounter, setup).
THEOREM DeviceIsNeverBehind ==
  LowerHalf => (WriteSpec => []NeverBehindWhatWasAccepted)
<1> SUFFICES ASSUME LowerHalf PROVE WriteSpec => []NeverBehindWhatWasAccepted
  OBVIOUS
<1>1. WriteCounterInv => NeverBehindWhatWasAccepted
  BY DEF WriteCounterInv, WriteTypeOK, InOrder, Ring, NeverBehindWhatWasAccepted, Minus
<1> QED
  BY WriteSpecInv, <1>1, PTL

\* The counters stay on the ring.
THEOREM WriteCounterIsTyped == LowerHalf => (WriteSpec => []WriteTypeOK)
<1> SUFFICES ASSUME LowerHalf PROVE WriteSpec => []WriteTypeOK
  OBVIOUS
<1>1. WriteCounterInv => WriteTypeOK
  BY DEF WriteCounterInv
<1> QED
  BY WriteSpecInv, <1>1, PTL

----------------------------------------------------------------------------
\* Flash holds the mark, and the mark is ahead of the counter by a stride at
\* most: a restart resumes above everything sealed and gives up no more.
MarkIsAhead == /\ savedAdv = advMark
               /\ Minus(advMark, advCounter) \in 1..AdvStride

\* Everything sealed lies behind the counter, by no more than it has passed.
SealedIsBehind == /\ passed < Space
                  /\ \A s \in sealed : Minus(advCounter, s) \in 1..passed

SealInv == SealTypeOK /\ MarkIsAhead /\ SealedIsBehind

USE AdvStrideAssumption

\* The operators of the ring stay on it, and only equals are no way apart.
LEMMA RingFacts ==
  ASSUME NEW a \in Ring, NEW b \in Ring
  PROVE  /\ Plus(a, b) \in Ring
         /\ Minus(a, b) \in Ring
         /\ Minus(a, b) = 0 <=> a = b
  BY DEF Plus, Minus, Ring

\* Distances add up as long as they stay within one turn of the ring.
LEMMA DistancesAdd ==
  ASSUME NEW a \in Ring, NEW b \in Ring, NEW c \in Ring,
         Minus(a, b) + Minus(b, c) < Space
  PROVE  Minus(a, c) = Minus(a, b) + Minus(b, c)
  BY DEF Minus, Ring

\* Drawing one brings a mark ahead one nearer.
LEMMA OneNearer ==
  ASSUME NEW m \in Ring, NEW a \in Ring, m # a
  PROVE  Minus(m, Plus(a, 1)) = Minus(m, a) - 1
  BY DEF Plus, Minus, Ring

\* A step of one from any counter.
LEMMA OneAhead ==
  ASSUME NEW a \in Ring
  PROVE  Plus(a, 1) \in Ring /\ Minus(Plus(a, 1), a) = 1
  BY DEF Plus, Minus, Ring

\* A mark a stride ahead of any counter.
LEMMA StrideAhead ==
  ASSUME NEW a \in Ring
  PROVE  Plus(a, AdvStride) \in Ring /\ Minus(Plus(a, AdvStride), a) = AdvStride
  BY DEF Plus, Minus, Ring

LEMMA SealInitInv == SealInit => SealInv
<1> SUFFICES ASSUME SealInit PROVE SealInv
  OBVIOUS
<1>1. PICK start \in Ring : /\ advCounter = start
                            /\ advMark = Plus(start, AdvStride)
                            /\ savedAdv = Plus(start, AdvStride)
                            /\ sealed = {} /\ passed = 0
  BY DEF SealInit
<1> QED
  BY <1>1, StrideAhead DEF SealInv, SealTypeOK, MarkIsAhead, SealedIsBehind

\* Sealing draws one counter; the mark stays ahead of it.
LEMMA SealKeepsInv == SealInv /\ RoomLeft /\ Seal => SealInv'
<1> SUFFICES ASSUME SealInv, RoomLeft, Seal PROVE SealInv'
  OBVIOUS
<1>1. /\ advCounter \in Ring /\ advMark \in Ring /\ savedAdv = advMark
      /\ sealed \subseteq Ring /\ passed \in Nat
      /\ passed + 1 < Space
      /\ Minus(advMark, advCounter) \in 1..AdvStride
      /\ \A s \in sealed : Minus(advCounter, s) \in 1..passed
  BY DEF SealInv, SealTypeOK, MarkIsAhead, SealedIsBehind, RoomLeft
<1>2. /\ advCounter' = Plus(advCounter, 1) /\ passed' = passed + 1
      /\ sealed' = sealed \cup {advCounter}
  BY DEF Seal
<1>3. advCounter' \in Ring /\ Minus(advCounter', advCounter) = 1
  BY <1>1, <1>2, OneAhead
<1>4. /\ advMark' \in Ring /\ savedAdv' = advMark'
      /\ Minus(advMark', advCounter') \in 1..AdvStride
  <2>1. CASE ReachedMark(advCounter', advMark)
    <3>1. advMark' = Plus(advCounter', AdvStride) /\ savedAdv' = advMark'
      BY <2>1 DEF Seal
    <3> QED
      BY <3>1, <1>3, StrideAhead
  <2>2. CASE ~ReachedMark(advCounter', advMark)
    <3>1. advMark' = advMark /\ savedAdv' = savedAdv
      BY <2>2 DEF Seal
    <3>2. Minus(advCounter', advMark) # 0
      BY <2>2 DEF ReachedMark
    <3>3. advCounter' # advMark
      BY <3>2, <1>1, <1>3, RingFacts
    <3>4. Minus(advMark, advCounter') = Minus(advMark, advCounter) - 1
      <4>1. advMark # advCounter
        BY <1>1, RingFacts
      <4> QED
        BY <4>1, <1>1, <1>2, OneNearer
    <3>5. Minus(advMark, advCounter') # 0
      BY <3>3, <1>1, <1>3, RingFacts
    <3> QED
      BY <3>1, <3>4, <3>5, <1>1
  <2> QED
    BY <2>1, <2>2
<1>5. ASSUME NEW s \in sealed' PROVE Minus(advCounter', s) \in 1..passed'
  <2>1. CASE s = advCounter
    BY <2>1, <1>1, <1>2, <1>3
  <2>2. CASE s \in sealed
    <3>1. Minus(advCounter, s) \in 1..passed /\ s \in Ring
      BY <2>2, <1>1
    <3>2. Minus(advCounter', s) = 1 + Minus(advCounter, s)
      BY <3>1, <1>1, <1>3, DistancesAdd
    <3> QED
      BY <3>1, <3>2, <1>1, <1>2
  <2> QED
    BY <2>1, <2>2, <1>2
<1>6. SealTypeOK'
  BY <1>1, <1>2, <1>3, <1>4 DEF SealTypeOK
<1> QED
  BY <1>1, <1>2, <1>4, <1>5, <1>6 DEF SealInv, MarkIsAhead, SealedIsBehind

\* A restart resumes from the mark, which everything sealed lies behind.
LEMMA SetupSealKeepsInv == SealInv /\ RoomLeft /\ SetupSeal => SealInv'
<1> SUFFICES ASSUME SealInv, RoomLeft, SetupSeal PROVE SealInv'
  OBVIOUS
<1>1. /\ advCounter \in Ring /\ advMark \in Ring /\ savedAdv = advMark
      /\ sealed \subseteq Ring /\ passed \in Nat
      /\ passed + AdvStride < Space
      /\ Minus(advMark, advCounter) \in 1..AdvStride
      /\ \A s \in sealed : Minus(advCounter, s) \in 1..passed
  BY DEF SealInv, SealTypeOK, MarkIsAhead, SealedIsBehind, RoomLeft
<1>2. /\ advCounter' = advMark /\ passed' = passed + AdvStride
      /\ advMark' = Plus(advMark, AdvStride)
      /\ savedAdv' = advMark' /\ sealed' = sealed
  BY <1>1 DEF SetupSeal
<1>3. advMark' \in Ring /\ Minus(advMark', advCounter') = AdvStride
  BY <1>1, <1>2, StrideAhead
<1>4. ASSUME NEW s \in sealed PROVE Minus(advMark, s) \in 1..(passed + AdvStride)
  <2>1. Minus(advCounter, s) \in 1..passed /\ s \in Ring
    BY <1>1
  <2>2. Minus(advMark, s) = Minus(advMark, advCounter) + Minus(advCounter, s)
    BY <2>1, <1>1, DistancesAdd
  <2> QED
    BY <2>1, <2>2, <1>1
<1> QED
  BY <1>1, <1>2, <1>3, <1>4 DEF SealInv, SealTypeOK, MarkIsAhead, SealedIsBehind

LEMMA SealSpecInv == SealSpec => []SealInv
<1>1. SealInv /\ [SealNext]_sealVars => SealInv'
  <2> SUFFICES ASSUME SealInv, [SealNext]_sealVars PROVE SealInv'
    OBVIOUS
  <2>1. CASE RoomLeft /\ Seal
    BY <2>1, SealKeepsInv
  <2>2. CASE RoomLeft /\ SetupSeal
    BY <2>2, SetupSealKeepsInv
  <2>3. CASE UNCHANGED sealVars
    BY <2>3 DEF sealVars, SealInv, SealTypeOK, MarkIsAhead, SealedIsBehind
  <2> QED
    BY <2>1, <2>2, <2>3 DEF SealNext
<1> QED
  BY SealInitInv, <1>1, PTL DEF SealSpec

\* No counter seals two packets of the device until the whole space has been
\* gone through, whatever restarts happen in between (seal, noteAdvCounter,
\* setup).
THEOREM NonceIsNeverRepeated == SealSpec => []NextNonceIsFresh
<1>1. SealInv => NextNonceIsFresh
  <2> SUFFICES ASSUME SealInv, advCounter \in sealed PROVE FALSE
    BY DEF NextNonceIsFresh
  <2>1. Minus(advCounter, advCounter) \in 1..passed /\ advCounter \in Ring
    BY DEF SealInv, SealedIsBehind, SealTypeOK
  <2> QED
    BY <2>1, RingFacts DEF SealInv, SealTypeOK
<1> QED
  BY SealSpecInv, <1>1, PTL

\* The counters stay on the ring.
THEOREM SealCounterIsTyped == SealSpec => []SealTypeOK
<1>1. SealInv => SealTypeOK
  BY DEF SealInv
<1> QED
  BY SealSpecInv, <1>1, PTL

----------------------------------------------------------------------------
\* To the write counter, sealing is a stutter and a start of the device its
\* own.
LEMMA DeviceHasAWriteCounter == CountersSpec => WriteSpec
<1>1. CountersInit => WriteInit
  BY DEF CountersInit
<1>2. [CountersNext]_countersVars => [WriteNext]_writeVars
  <2> SUFFICES ASSUME [CountersNext]_countersVars PROVE [WriteNext]_writeVars
    OBVIOUS
  <2>1. CASE WriteArrives
    BY <2>1 DEF WriteArrives, WriteNext
  <2>2. CASE PacketIsSealed
    BY <2>2 DEF PacketIsSealed
  <2>3. CASE Setup
    BY <2>3 DEF Setup, WriteNext
  <2>4. CASE UNCHANGED countersVars
    BY <2>4 DEF countersVars
  <2> QED
    BY <2>1, <2>2, <2>3, <2>4 DEF CountersNext
<1> QED
  BY <1>1, <1>2, PTL DEF CountersSpec, WriteSpec

\* To the sealing counter, a write that arrives is a stutter.
LEMMA DeviceHasASealCounter == CountersSpec => SealSpec
<1>1. CountersInit => SealInit
  BY DEF CountersInit
<1>2. [CountersNext]_countersVars => [SealNext]_sealVars
  <2> SUFFICES ASSUME [CountersNext]_countersVars PROVE [SealNext]_sealVars
    OBVIOUS
  <2>1. CASE WriteArrives
    BY <2>1 DEF WriteArrives
  <2>2. CASE PacketIsSealed
    BY <2>2 DEF PacketIsSealed, SealNext
  <2>3. CASE Setup
    BY <2>3 DEF Setup, SealNext
  <2>4. CASE UNCHANGED countersVars
    BY <2>4 DEF countersVars
  <2> QED
    BY <2>1, <2>2, <2>3, <2>4 DEF CountersNext
<1> QED
  BY <1>1, <1>2, PTL DEF CountersSpec, SealSpec

\* A device that takes writes, seals packets and restarts in any order is
\* never behind what it accepted, as long as counters stay in the lower half
\* (openWrite, noteWriteCounter, setup).
THEOREM DeviceStaysAhead == LowerHalf => (CountersSpec => []NeverBehindWhatWasAccepted)
  BY DeviceHasAWriteCounter, DeviceIsNeverBehind

\* Such a device never repeats a nonce (seal, noteAdvCounter, setup).
THEOREM DeviceNeverRepeatsANonce == CountersSpec => []NextNonceIsFresh
  BY DeviceHasASealCounter, NonceIsNeverRepeated

\* Both counters and their marks stay on the ring.
THEOREM DeviceTypeOK == LowerHalf => (CountersSpec => []CountersTypeOK)
<1> SUFFICES ASSUME LowerHalf PROVE CountersSpec => []CountersTypeOK
  OBVIOUS
<1>1. WriteTypeOK /\ SealTypeOK => CountersTypeOK
  BY DEF CountersTypeOK
<1> QED
  BY <1>1, DeviceHasAWriteCounter, DeviceHasASealCounter, WriteCounterIsTyped,
     SealCounterIsTyped, PTL
=============================================================================
