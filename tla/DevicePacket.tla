----------------------------- MODULE DevicePacket -----------------------------
(***************************************************************************)
(* The bytes of the device (BTHomeWritable.js): the packet it plans once   *)
(* and fills in ever after, and its strict parser of a write.  What the    *)
(* device builds is put against what the receiver's functions of           *)
(* WireFormat read, for the small inputs named below.                      *)
(***************************************************************************)
EXTENDS WireFormat, FiniteSets, SequencesExt

CONSTANTS
  Sensors,   \* lists of sensor objects, <<id, value bytes ...>>, in entry order
  Layouts,   \* the object IDs of the writable entries, in entry order
  Alphabet,  \* bytes to make payloads of
  Budget     \* how much service data the packet holds

\* One whole object of the table, as an encoder makes it.
IsObject(o) ==
  /\ o \in Seq(0..255) /\ o # <<>> /\ o[1] \in DOMAIN MeasTypes
  /\ ~HasNoLength(o, 1) /\ Len(o) = 1 + ValueLength(o, 1)

\* A sensor is encoded as an object the receiver can measure, and the revision
\* is the module's own to send, as the packet ID is: an object of one byte.
ASSUME SensorsAssumption ==
  \A ss \in Sensors :
    /\ ss \in Seq(Seq(0..255))
    /\ \A i \in 1..Len(ss) : IsObject(ss[i]) /\ ss[i][1] # SettingsRevision

ASSUME OwnObjectsAssumption ==
  \A id \in {PacketId, SettingsRevision} :
    /\ id \in DOMAIN MeasTypes
    /\ MeasTypes[id].format = "unsigned" /\ MeasTypes[id].length = 1

ASSUME BytesAssumption == Alphabet \subseteq 0..255 /\ Layouts \subseteq Seq(0..255)

PlanError == <<>>

\* stableSortByObjectId: equal ids stay in the order of the entries.
SortedById(objects) ==
  LET Rank(i) == Cardinality({j \in 1..Len(objects) :
                    \/ objects[j][1] < objects[i][1]
                    \/ objects[j][1] = objects[i][1] /\ j <= i})
  IN [k \in 1..Len(objects) |->
        objects[CHOOSE i \in 1..Len(objects) : Rank(i) = k]]

\* encodeDeclaration.
EncodeDeclaration(ids) == <<DeclarationId, Len(ids)>> \o ids

MayBeDeclared(ids) ==
  Len(ids) <= 255 /\ \A i \in 1..Len(ids) : ids[i] \notin ForbiddenEntries

\* Fault: the declaration goes out in front of the objects.
AssembleDeclarationFirst(objects, decl) == decl \o FlattenSeq(objects)

\* The objects as they are given, and the bytes of a declaration, if any.
Assemble(objects, decl) == FlattenSeq(objects) \o decl

\* buildServiceData, behind its information byte: refused rather than cut.
BuildServiceData(objects, decl, budget) ==
  LET data == Assemble(objects, decl)
  IN IF Len(data) + 1 > budget THEN PlanError ELSE data

\* planPacket and renderServiceData: the packet without its information byte.
ServiceData(sensors, ids, pid, revision) ==
  LET own == IF revision = NoRevision THEN <<>> ELSE <<<<SettingsRevision, revision>>>>
      objects == SortedById(<<<<PacketId, pid>>>> \o sensors \o own)
      decl == IF ids = <<>> THEN <<>> ELSE EncodeDeclaration(ids)
  IN IF MayBeDeclared(ids) THEN BuildServiceData(objects, decl, Budget) ELSE PlanError

\* parseWrite, for an entry writableSpec found a length for.
ParseWrite(p, id) ==
  IF p = <<>> THEN "truncated"
  ELSE IF p[1] # id THEN "objectid_mismatch"
  ELSE IF HasNoLength(p, 1) \/ Len(p) < 1 + ValueLength(p, 1) THEN "truncated"
  ELSE IF Len(p) > 1 + ValueLength(p, 1) THEN "trailing_bytes"
  ELSE "taken"

\* decodeValue of a number: the number handed to set().
DeviceNumber(value, id) ==
  LET n == DecodeUnsigned(value, id)
  IN IF Signed(id) /\ n >= 256 ^ Len(value) \div 2 THEN n - 256 ^ Len(value) ELSE n

----------------------------------------------------------------------------
Writable == {id \in DOMAIN MeasTypes : Offered(id) /\ MeasTypes[id].format # "command"}

Numeric == {id \in DOMAIN MeasTypes : Kind(id) = "numeric" /\ MeasTypes[id].length = 1}

Payloads == UNION {[1..n -> Alphabet] : n \in 0..4}

PlannedPackets ==
  {<<ss, ids, rev, ServiceData(ss, ids, 255, rev)>> :
     ss \in Sensors, ids \in Layouts, rev \in {NoRevision, 0, 255}}

\* Whatever readings a device has, byte values that look like a declaration
\* or a revision among them, a receiver finds in its packet the entries it
\* was set up with, in order, and its revision.  A packet cut short declares
\* nothing: it is broken, or a packet of sensors only.
EveryDeclarationArrives ==
  \A planned \in PlannedPackets :
    LET ids == planned[2]  data == planned[4] IN
    data # PlanError =>
      /\ ParseDeclaration(data) =
           IF ids = <<>> THEN Nothing ELSE Declares(ids, planned[3])
      /\ \A n \in 1..(Len(data) - 1) :
           ParseDeclaration(SubSeq(data, 1, n)).layout = <<>>
=============================================================================
