---------------------------- MODULE Advertisements ----------------------------
(***************************************************************************)
(* What the receiver makes of a device's advertisements (coordinator.py:   *)
(* async_handle_advertisement and what it calls): the key, the replay      *)
(* check, the declaration, what is kept for the next start, and the        *)
(* question for a new key with the flow that answers it (config_flow.py).  *)
(*                                                                         *)
(* A packet is heard any number of times while it lingers -- several       *)
(* proxies deliver it, each in its own time -- or not at all.  Its objects *)
(* are bytes, read by WireFormat.                                          *)
(***************************************************************************)
EXTENDS Fixtures

CONSTANTS
  Keys, NoKey,  \* bindkeys; none
  None,         \* what is not known, not heard, not open
  Devices,      \* the keys a device may have at first, with the address its
                \* packets carry: backwards, or <<>>
  Streams,      \* the object streams a device may carry in its full packet
  SensorsOnly,  \* the stream of the packets between
  Ring,         \* how many counters there are before they wrap
  Ceiling,      \* COUNTER_RESTART_CEILING
  Window,       \* how many packets linger
  MaxChanges    \* bound: changes of the device, stray packets, restarts

ASSUME AdvertisementsAssumption ==
  /\ NoKey \notin Keys /\ \A d \in Devices : d[1] \in Keys \cup {NoKey}
  /\ Ring \in Nat /\ Ceiling \in 1..(Ring - 1) /\ Window \in Nat \ {0} /\ Window < Ring - Ceiling

\* What a device says is bytes, and what an entry stores is something.
ASSUME StreamsAssumption ==
  /\ Streams # {}
  /\ \A stream \in Streams \cup {SensorsOnly} :
       /\ stream \in Seq(0..255)
       /\ None # Stored(ParseDeclaration(stream))

VARIABLES
  device,   \* its key, counter, stream, flags
  air,      \* the packets that may still be heard, oldest first
  ha,       \* the coordinator
  entry,    \* what the config entry holds for the next start
  flow,     \* the packet a reauthentication flow carries, None without one
  newest,   \* the place in air of the newest sealed packet taken since the
            \* key was last in doubt or the counter last fell, 0 when none is
  changes   \* how much of MaxChanges is spent

vars == <<device, air, ha, entry, flow, newest, changes>>

Unheard == Nothing

\* What every stream that is on the air says.
Said == [stream \in Streams \cup {SensorsOnly} |-> ParseDeclaration(stream)]

Identity == <<1, 2>>  \* the device's address, in natural order
RandomAddress == <<3, 4>>

HeardFrom(carried) == IF carried = <<>> THEN Identity ELSE RandomAddress

\* The information byte: its flags, and what a nonce takes from it.
Info(sleepy, carried) == <<sleepy, carried # <<>>>>

Packet(key, counter, stream, sleepy, carried) ==
  [sealed |-> key # NoKey, sleepy |-> sleepy, carried |-> carried,
   frame |-> Seal(stream, key, Identity, Info(sleepy, carried), counter)]

\* Somebody else on this address, or a packet that lost its end.
Stray == Packet("foreign", Ring - 1, SensorsOnly, FALSE, <<>>)
Short == [Stray EXCEPT !.frame = Spoilt(Stray.frame)]

PacketOpens(p, key) ==
  Opens(p.frame, key, NonceAddress(p.carried, HeardFrom(p.carried)),
        Info(p.sleepy, p.carried))

----------------------------------------------------------------------------
\* The declaration an entry was left with.
Remembered(e) == IF e.declaration = None THEN Unheard ELSE Restore(e.declaration)

\* A coordinator as setup makes it, with what the entry remembers.
Coordinator(e) ==
  [verified |-> None, failures |-> 0, counter |-> 0, sealed |-> None,
   sleepy |-> e.sleepy, declaration |-> Remembered(e),
   revision |-> NoRevision, heard |-> None]

\* Fault: no packet is too old.
AnyCounter(c, p) == TRUE

\* _counter_increased: only a counter that falls is an old packet's, and not
\* when it falls near zero, nor while no key is known to be right.
CounterIncreased(c, p) ==
  \/ ~p.frame.whole \/ c.verified # "yes"
  \/ p.frame.counter >= c.counter \/ p.frame.counter < Ceiling

\* _authentication_failed.
Failed(c) == [c EXCEPT !.verified = "no", !.failures = IF @ < 2 THEN @ + 1 ELSE 2]

\* _plaintext: how the objects of p come out, and the coordinator after it.
Outcome(c, p, key) ==
  IF ~p.sealed THEN "clear"
  ELSE IF key = NoKey THEN "failed"
  ELSE IF ~CounterIncreased(c, p) THEN "old"
  ELSE IF PacketOpens(p, key) THEN "opened" ELSE "failed"

Opened(c, p, outcome) ==
  LET told == [c EXCEPT !.sealed = IF p.sealed THEN "sealed" ELSE "clear"]
  IN CASE outcome = "opened" -> [told EXCEPT !.verified = "yes", !.failures = 0,
                                             !.counter = p.frame.counter]
       [] outcome = "failed" -> Failed(told)
       [] OTHER -> told

\* Fault: a new revision of a known layout is not kept.
WorthKeepingForItsLayout(old, new) == old.layout # new.layout \/ old.is # new.is

\* Whether a declaration is handed to the entry.
WorthKeeping(old, new) == old # new

\* The declaration of a packet that was opened: what is ill-formed changes
\* nothing, and a packet without one leaves the last to stand.
Learnt(c, parsed) ==
  IF parsed.is # "declaration" THEN c
  ELSE [c EXCEPT !.declaration = parsed,
                 !.revision = IF parsed.revision = NoRevision THEN @ ELSE parsed.revision]

\* _notice_sleepy: noted in the coordinator, and kept by the entry.
NoticeSleepy(c, p) == [c EXCEPT !.heard = p, !.sleepy = p.sleepy]

SleepyKept(c, e, p) == IF p.sleepy = c.sleepy THEN e.sleepy ELSE p.sleepy

\* What is handed to the entry once a packet was absorbed.
Kept(c, e, p, declaration) ==
  [e EXCEPT !.sleepy = SleepyKept(c, e, p),
            !.declaration = IF declaration # Unheard /\ WorthKeeping(c.declaration, declaration)
                            THEN Stored(declaration) ELSE @]

\* async_handle_advertisement, by a coordinator c whose entry is e.
Absorb(c, e, p) ==
  LET outcome == Outcome(c, p, e.key)
      after == Opened(NoticeSleepy(c, p), p, outcome)
  IN /\ ha' = IF outcome \in {"clear", "opened"}
              THEN Learnt(after, Said[p.frame.plain]) ELSE after
     /\ entry' = Kept(c, e, p, ha'.declaration)

\* Hearing p.  A second failure in a row asks for the key; one flow is open
\* at a time, and it carries the packet that raised it.
HearPacket(p) ==
  /\ Absorb(ha, entry, p)
  /\ flow' = IF /\ Outcome(ha, p, entry.key) = "failed" /\ ha'.failures = 2
                /\ flow = None
             THEN p ELSE flow

----------------------------------------------------------------------------
\* The entry was made with a key that was proved on the device.
Init ==
  \E d \in Devices :
    /\ device = [key |-> d[1], counter |-> 0, stream |-> CHOOSE s \in Streams : TRUE,
                 sleepy |-> FALSE, carried |-> d[2]]
    /\ air = <<>> /\ newest = 0 /\ changes = 0 /\ flow = None
    /\ entry = [key |-> d[1], sleepy |-> FALSE, declaration |-> None]
    /\ ha = Coordinator(entry)

Spend == changes < MaxChanges /\ changes' = changes + 1

\* The device seals a packet, full or with its sensors only.
DeviceSends(stream) ==
  LET next == (device.counter + 1) % Ring
      sent == Append(air, Packet(device.key, next, stream, device.sleepy, device.carried))
      gone == IF Len(sent) > Window THEN 1 ELSE 0
  IN /\ device' = [device EXCEPT !.counter = next]
     /\ air' = SubSeq(sent, 1 + gone, Len(sent))
     /\ newest' = IF newest > gone THEN newest - gone ELSE 0
     /\ UNCHANGED <<ha, entry, flow, changes>>

\* New settings or new firmware, another key, an event-driven build; a new
\* battery starts the counter again.
DeviceChanges ==
  /\ Spend
  /\ \/ \E s \in Streams \ {device.stream} : device' = [device EXCEPT !.stream = s]
     \/ \E k \in (Keys \cup {NoKey}) \ {device.key} :
          device' = [device EXCEPT !.key = k, !.counter = 0]
     \/ device' = [device EXCEPT !.sleepy = ~@]
     \/ device' = [device EXCEPT !.counter = 0]
  /\ UNCHANGED <<air, ha, entry, flow, newest>>

Hear(i) ==
  LET outcome == Outcome(ha, air[i], entry.key)
  IN /\ HearPacket(air[i])
     /\ newest' = IF outcome = "failed" THEN 0
                  ELSE IF outcome = "opened" /\ (i > newest \/ air[i].frame.counter < ha.counter)
                  THEN i ELSE newest
     /\ UNCHANGED <<device, air, changes>>

HearAStray(p) ==
  /\ Spend
  /\ HearPacket(p)
  /\ newest' = IF Outcome(ha, p, entry.key) = "failed" THEN 0 ELSE newest
  /\ UNCHANGED <<device, air>>

\* async_setup_entry: a coordinator out of the entry, seeded with what the
\* Bluetooth stack heard last.
Setup(e) ==
  /\ IF ha.heard = None
     THEN ha' = Coordinator(e) /\ entry' = e
     ELSE Absorb(Coordinator(e), e, ha.heard)
  /\ newest' = 0
  /\ UNCHANGED <<device, air>>

Reload == Spend /\ Setup(entry) /\ flow' = None

----------------------------------------------------------------------------
\* declaration_from, for a packet and a key that is tried on it.
DeclarationFrom(p, key) ==
  IF p.sealed /\ (key = NoKey \/ ~PacketOpens(p, key)) THEN Nothing
  ELSE LET parsed == Said[p.frame.plain]
       IN IF parsed.is = "broken" THEN Nothing ELSE parsed

OffersSomething(declaration) == OfferedOf(declaration.layout) # {}

\* async_step_get_encryption_key in a reauthentication: a key that opens the
\* packet the flow carries, and a declaration in it, is taken; one that opens
\* nothing is asked for again; nothing writable ends the flow.
FlowTakesKey(key) ==
  LET declaration == DeclarationFrom(flow, key)
  IN /\ flow # None /\ declaration.is = "declaration"
     /\ flow' = None
     /\ IF OffersSomething(declaration)
        THEN Setup([entry EXCEPT !.key = key])
        ELSE UNCHANGED <<device, air, ha, entry, newest>>
     /\ UNCHANGED changes

FlowIsDismissed == flow # None /\ flow' = None
                   /\ UNCHANGED <<device, air, ha, entry, newest, changes>>

\* async_step_reconfigure: a key proved on what was heard last, or no key
\* for a device last heard in clear.
Reconfigure(key) ==
  /\ ha.heard # None
  /\ IF key = NoKey THEN ~ha.heard.sealed
     ELSE DeclarationFrom(ha.heard, key).is = "declaration"
  /\ Spend
  /\ Setup([entry EXCEPT !.key = key])
  /\ flow' = flow

----------------------------------------------------------------------------
Next == \/ \E s \in {device.stream, SensorsOnly} : DeviceSends(s)
        \/ DeviceChanges \/ Reload \/ FlowIsDismissed
        \/ \E i \in 1..Len(air) : Hear(i)
        \/ \E p \in {Stray, Short} : HearAStray(p)
        \/ \E k \in Keys : FlowTakesKey(k)
        \/ \E k \in Keys \cup {NoKey} : Reconfigure(k)

Spec == Init /\ [][Next]_vars

\* A full packet goes out while no form is open, and is heard before the next.
SendsInFull == flow = None /\ DeviceSends(device.stream)

HearsInFull == /\ flow = None /\ Len(air) > 0
               /\ air[Len(air)].frame.plain = device.stream /\ Hear(Len(air))

\* The same with the highest counter there is.
SendsTheTop == device.counter = Ring - 2 /\ SendsInFull

HearsTheTop == Len(air) > 0 /\ air[Len(air)].frame.counter = Ring - 1 /\ HearsInFull

\* A form that the device's key does not open is closed.
ClosesAHopelessForm ==
  /\ flow # None /\ DeclarationFrom(flow, device.key) = Nothing
  /\ FlowIsDismissed

\* The device goes on advertising, and now and then a full packet is heard,
\* once of a counter as high as any the receiver may remember; who is asked
\* for the key again and again gives it once.
Fairness == /\ SF_vars(SendsInFull) /\ SF_vars(HearsInFull)
            /\ SF_vars(SendsTheTop) /\ SF_vars(HearsTheTop)
            /\ SF_vars(FlowTakesKey(device.key)) /\ WF_vars(ClosesAHopelessForm)

FairSpec == Spec /\ Fairness

----------------------------------------------------------------------------
\* While the key is known to be right, a packet the device sent before one
\* already taken changes neither the declaration nor the revision, by whichever
\* proxy it arrives late -- unless its counter is near zero, or one that fell
\* was taken since: a restart is believed, and everything after it is news.
OldPacketsAreNoNews ==
  [][\A i \in 1..(newest - 1) :
       /\ Hear(i) /\ ha.verified = "yes" /\ air[i].sealed
       /\ air[i].frame.counter >= Ceiling
       /\ air[newest].frame.counter > air[i].frame.counter
       => ha'.declaration = ha.declaration /\ ha'.revision = ha.revision]_vars

\* What the entry would give the next start is what the coordinator has now:
\* the declaration, its revision, and whether the device is one that sleeps.
ARestartForgetsNothing ==
  Remembered(entry) = ha.declaration /\ entry.sleepy = ha.sleepy

\* What a function on bytes returns no step changes: it is examined once, by
\* a receiver that has heard nothing.
HeardNothing == ha.heard = None /\ air = <<>>

\* The receiver checks a read the way a device checks a write: what one parser
\* takes or refuses the other, written apart, takes or refuses.
BothSidesParseAlike == HeardNothing => ParsersAgree

\* What goes over the air arrives as it was meant: the declaration of a device
\* among whatever readings, and what is asked of every kind of control.
BytesMeanTheSame == HeardNothing => MeaningsAgree

\* The files both sides are tested with hold of both: what FixturesAreRead and
\* VectorsAreJudged say of them, each packet being the first that is heard.
FixturesAreUnderstood == HeardNothing => FixturesHold

\* A device that has done with changing is understood in the end: its key is
\* asked for and found, its counter is caught up with, wherever it restarted,
\* and the receiver has its declaration.
TheDeviceIsUnderstood == <>[](ha.declaration = Said[device.stream])
=============================================================================
