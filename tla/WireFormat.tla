------------------------------ MODULE WireFormat ------------------------------
(***************************************************************************)
(* BTHome's bytes as protocol.py reads and writes them: the walk over the  *)
(* objects of a packet, the declaration behind them, the one object of a   *)
(* write or a read, and numbers scaled to the width of an object.          *)
(*                                                                         *)
(* A payload is a sequence of bytes.  A ProtocolError is an outcome: the   *)
(* functions below return what a caller can tell apart.                    *)
(***************************************************************************)
EXTENDS Integers, Sequences

CONSTANT MeasTypes  \* bthome-ble's table: what it knows of an object ID

PacketId == 0
CommandObject == 59
SettingsRevision == 101
DeclarationId == 255

ForbiddenEntries == {PacketId, CommandObject, DeclarationId, SettingsRevision,
                     240, 241, 242}

LengthPrefixed == {"raw", "string"}

ASSUME MeasTypesAssumption ==
  /\ DOMAIN MeasTypes \subseteq (0..255) \ {DeclarationId}
  /\ \A id \in DOMAIN MeasTypes :
       /\ MeasTypes[id].format \in LengthPrefixed \cup
                                   {"command", "unsigned", "signed"}
       /\ MeasTypes[id].length \in Nat \ {0}
       /\ MeasTypes[id].shape \in {"binary", "sensor", "event", "other"}

----------------------------------------------------------------------------
\* describe: what an object is, as far as choosing a control goes.  The width
\* is looked at first: bthome-ble describes texts as sensors.
Kind(id) ==
  LET meas == MeasTypes[id]
  IN IF meas.format \in LengthPrefixed THEN meas.format
     ELSE CASE meas.shape = "binary" -> "binary"
            [] meas.shape = "event" -> "event"
            [] meas.shape = "sensor" -> "numeric"
            [] OTHER -> "meta"

\* Fault: what a receiver does not know counts as offered.
OfferedUnlessForbidden(id) == id \notin ForbiddenEntries

\* WritableEntry.offered: whether a receiver builds a control for an entry.
Offered(id) ==
  id \notin ForbiddenEntries /\ id \in DOMAIN MeasTypes /\ Kind(id) # "meta"

HasNoLength(p, o) ==
  MeasTypes[p[o]].format \in LengthPrefixed \cup {"command"} /\ o = Len(p)

\* _value_length: how many bytes follow the object ID at o.
ValueLength(p, o) ==
  CASE MeasTypes[p[o]].format \in LengthPrefixed -> 1 + p[o + 1]
    [] MeasTypes[p[o]].format = "command" -> 2 + (p[o + 1] % 32)
    [] OTHER -> MeasTypes[p[o]].length

Malformed == [ok |-> FALSE, objects |-> <<>>, at |-> 0]

Found(objects, at) == [ok |-> TRUE, objects |-> objects, at |-> at]

\* split_objects: the objects in order and where the declaration starts, 0
\* when there is none or an unknown object hides it.
SplitObjects(p) ==
  LET from[o \in 1..(Len(p) + 1)] ==
        IF o > Len(p) THEN Found(<<>>, 0)
        ELSE IF p[o] = DeclarationId THEN Found(<<>>, o)
        ELSE IF p[o] \notin DOMAIN MeasTypes THEN Found(<<>>, 0)
        ELSE IF HasNoLength(p, o) \/ o + ValueLength(p, o) > Len(p)
        THEN Malformed
        ELSE LET end == o + ValueLength(p, o)
                 rest == from[end + 1]
             IN IF rest.ok
                THEN Found(<<SubSeq(p, o, end)>> \o rest.objects, rest.at)
                ELSE Malformed
  IN from[1]

NoRevision == -1

Nothing == [is |-> "nothing", layout |-> <<>>, revision |-> NoRevision]
Broken == [is |-> "broken", layout |-> <<>>, revision |-> NoRevision]

Declares(layout, revision) ==
  [is |-> "declaration", layout |-> layout, revision |-> revision]

\* The first settings revision among the objects.
RevisionIn(objects) ==
  LET at == {i \in 1..Len(objects) : objects[i][1] = SettingsRevision}
  IN IF at = {} THEN NoRevision
     ELSE objects[CHOOSE i \in at : \A j \in at : i <= j][2]

\* parse_declaration.
ParseDeclaration(p) ==
  LET walk == SplitObjects(p)
      first == walk.at + 2
  IN IF ~walk.ok THEN Broken
     ELSE IF walk.at = 0 THEN Nothing
     ELSE IF first > Len(p) + 1 \/ first + p[walk.at + 1] - 1 > Len(p) THEN Broken
     ELSE Declares(SubSeq(p, first, first + p[walk.at + 1] - 1),
                   RevisionIn(walk.objects))

\* Declaration.stored and restore: what a config entry holds of it, and what
\* is made of what a config entry holds, which may be anything.
Stored(declaration) ==
  [layout |-> declaration.layout, settings_revision |-> declaration.revision]

Restore(stored) ==
  IF \A i \in 1..Len(stored.layout) : stored.layout[i] \in 0..255
  THEN Declares(stored.layout, stored.settings_revision)
  ELSE Nothing

----------------------------------------------------------------------------
\* encode_object, decode_object: the plaintext of a write and of a read.
EncodeObject(id, value) == <<id>> \o value

Refused(why) == [is |-> why, value |-> <<>>]

\* Fault: what follows the object is dropped.
DecodeAndDropTheRest(id, p) ==
  IF p = <<>> THEN Refused("broken")
  ELSE IF p[1] # id THEN Refused("stale")
  ELSE IF id \notin DOMAIN MeasTypes THEN Refused("broken")
  ELSE IF HasNoLength(p, 1) \/ Len(p) < 1 + ValueLength(p, 1)
  THEN Refused("broken")
  ELSE [is |-> "value", value |-> SubSeq(p, 2, 1 + ValueLength(p, 1))]

DecodeObject(id, p) ==
  IF p = <<>> THEN Refused("broken")
  ELSE IF p[1] # id THEN Refused("stale")
  ELSE IF id \notin DOMAIN MeasTypes THEN Refused("broken")
  ELSE IF HasNoLength(p, 1) \/ Len(p) # 1 + ValueLength(p, 1)
  THEN Refused("broken")
  ELSE [is |-> "value", value |-> Tail(p)]

----------------------------------------------------------------------------
\* ObjectKind.minimum and maximum, in steps: a factor only names the unit.
Signed(id) == MeasTypes[id].format = "signed"
Bits(id) == 8 * MeasTypes[id].length - (IF Signed(id) THEN 1 ELSE 0)
Minimum(id) == IF Signed(id) THEN -(2 ^ Bits(id)) ELSE 0
Maximum(id) == 2 ^ Bits(id) - 1

\* round(value / factor) of a value given in half steps: halves go to even.
Round(halves) ==
  IF halves % 2 = 0 THEN halves \div 2
  ELSE LET below == halves \div 2 IN IF below % 2 = 0 THEN below ELSE below + 1

LittleEndian(n, length) == [i \in 1..length |-> (n \div 256 ^ (i - 1)) % 256]

\* encode_scaled: to_bytes refuses what does not fit; %, here as in two's
\* complement, maps the negative numbers to the upper half.
Fits(halves, id) == Round(halves) \in Minimum(id)..Maximum(id)

EncodeScaled(halves, id) ==
  LittleEndian(Round(halves) % 256 ^ MeasTypes[id].length, MeasTypes[id].length)

\* from_bytes without a sign; as decode_scaled, a fault.
DecodeUnsigned(value, id) ==
  LET sum[i \in 0..Len(value)] ==
        IF i = 0 THEN 0 ELSE sum[i - 1] + value[i] * 256 ^ (i - 1)
  IN sum[Len(value)]

\* decode_scaled.
DecodeScaled(value, id) ==
  LET n == DecodeUnsigned(value, id)
  IN IF Signed(id) /\ n > Maximum(id) THEN n - 256 ^ Len(value) ELSE n
=============================================================================
