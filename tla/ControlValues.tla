---------------------------- MODULE ControlValues ----------------------------
(***************************************************************************)
(* What a control of Home Assistant (switch.py, number.py, text.py,        *)
(* button.py) writes for what its user asked, what the device's codec      *)
(* hands to set() of it (BTHomeWritable.js), and what the control shows of *)
(* a value that was written or read.  A text is a sequence of code points. *)
(***************************************************************************)
EXTENDS DevicePacket

CONSTANT Vocabulary  \* bthome-ble's tables: the codes of each event object

ASSUME VocabularyAssumption ==
  \A id \in DOMAIN Vocabulary : Vocabulary[id] \subseteq 0..255

\* What bthome-ble's table says of the objects a control is made for: a state
\* of one byte, a number of at most four, events of two kinds that are offered,
\* each with a vocabulary, texts, and the light of the bench.
ASSUME TableAssumption ==
  /\ \A id \in DOMAIN MeasTypes :
       /\ MeasTypes[id].format \notin LengthPrefixed => MeasTypes[id].length <= 4
       /\ Kind(id) = "binary" => MeasTypes[id].format = "unsigned" /\ MeasTypes[id].length = 1
       /\ Kind(id) = "numeric" => MeasTypes[id].format \in {"unsigned", "signed"}
       /\ Kind(id) = "event" => id \in {58, CommandObject, 60}
  /\ \A id \in {58, 60} :
       /\ id \in DOMAIN MeasTypes /\ id \in DOMAIN Vocabulary /\ Vocabulary[id] # {}
       /\ Kind(id) = "event" /\ MeasTypes[id].format = "unsigned"
       /\ MeasTypes[id].length = IF id = 58 THEN 1 ELSE 2
  /\ 83 \in DOMAIN MeasTypes /\ MeasTypes[83].format = "string"
  /\ 30 \in DOMAIN MeasTypes /\ Kind(30) = "binary"

\* Declaration.offered, as the numbers of the entries.
OfferedOf(layout) == {k \in 1..Len(layout) : Offered(layout[k])}

\* is_kind: the entries a platform builds controls for.
ControlsOf(layout, kind) == {k \in OfferedOf(layout) : Kind(layout[k]) = kind}

Switches(layout) == ControlsOf(layout, "binary")
Numbers(layout) == ControlsOf(layout, "numeric")
Texts(layout) == ControlsOf(layout, "string")

\* event_values: 0x3B has a vocabulary too, and is left out of the table.
EventValues(id) == IF id \in {58, 60} THEN Vocabulary[id] ELSE {}

Buttons(layout) ==
  UNION {{k} \X EventValues(layout[k]) : k \in ControlsOf(layout, "event")}

\* instance_label: entries of one object are numbered, a single one is not.
InstanceNumber(layout, k) ==
  LET same == {j \in 1..Len(layout) : layout[j] = layout[k]}
  IN IF Cardinality(same) < 2 THEN 0 ELSE Cardinality({j \in same : j <= k})

----------------------------------------------------------------------------
SwitchBytes(on) == <<IF on THEN 1 ELSE 0>>
SwitchIsOn(value) == value[1] # 0

\* What a number's control lets through, in half steps.
Accepted(id) == (2 * Minimum(id))..(2 * Maximum(id))

\* native_value of a number: none for a value of another width.
NumberShown(value, id) ==
  IF Len(value) = MeasTypes[id].length THEN <<DecodeScaled(value, id)>> ELSE <<>>

\* UTF-8 as far as two bytes; what does not decode is replaced.
Replacement == 65533

Utf8(c) == IF c < 128 THEN <<c>> ELSE <<192 + c \div 64, 128 + (c % 64)>>

Utf8Text(bytes) ==
  LET from[i \in 1..(Len(bytes) + 1)] ==
        IF i > Len(bytes) THEN <<>>
        ELSE IF bytes[i] < 128 THEN <<bytes[i]>> \o from[i + 1]
        ELSE IF bytes[i] \in 194..223 /\ i < Len(bytes) /\ bytes[i + 1] \in 128..191
        THEN <<64 * (bytes[i] - 192) + bytes[i + 1] - 128>> \o from[i + 2]
        ELSE <<Replacement>> \o from[i + 1]
  IN from[1]

\* async_set_value: the length byte counts bytes, not letters.
MaxLength == 255
TooLong == <<>>
EncodeText(text) ==
  LET body == FlattenSeq([i \in 1..Len(text) |-> Utf8(text[i])])
  IN IF Len(body) > MaxLength THEN TooLong ELSE <<Len(body)>> \o body

TextShown(value) == Utf8Text(Tail(value))

\* event_payload: a dimmer's event carries a number of steps.
Dimmer == 60
EventPayload(id, code) == IF id = Dimmer THEN <<code, 1>> ELSE <<code>>

\* _check_mtu: what the log says of a write of this length.  Below what fits
\* any link the MTU is not asked for; a stack may have none to give.
NoMtu == 0
ComfortableMtu == 64
AttWriteOverhead == 3
DefaultMtuPayload == 20

MtuNote(length, mtu) ==
  IF length <= DefaultMtuPayload \/ mtu = NoMtu THEN "nothing"
  ELSE IF length > mtu - AttWriteOverhead THEN "too large"
  ELSE IF mtu < ComfortableMtu THEN "may be too large"
  ELSE "nothing"

----------------------------------------------------------------------------
\* writableSpec: how the device reads a value, by the entry's type or, where
\* it is declared by its object ID alone, as the event or bytes it is.
Codec(id, byId) ==
  CASE byId -> IF id \in {58, 60} THEN "event" ELSE "bytes"
    [] ~byId /\ MeasTypes[id].format = "string" -> "text"
    [] ~byId /\ Kind(id) \in {"event", "raw"} -> "refused"
    [] ~byId /\ Kind(id) = "binary" -> "binary"
    [] ~byId /\ Kind(id) = "numeric" -> "number"

\* decodeValue: what set() is given.  A text is made of one letter per byte.
DeviceValue(value, codec, id) ==
  CASE codec = "text" -> Tail(value)
    [] codec = "binary" -> value[1] # 0
    [] codec = "event" -> IF Len(value) = 1 THEN value[1] ELSE value
    [] codec = "number" -> DeviceNumber(value, id)
    [] codec = "bytes" -> value

\* A text as the device's own module encodes it: its letters' codes.
TextObject(text) == <<Len(text)>> \o text

\* handleWrite, as to what a read of the entry returns next: a refused write
\* leaves what the entry held.
HeldAfter(p, id, held) ==
  IF ParseWrite(p, id) = "taken" THEN EncodeObject(id, Tail(p)) ELSE held

\* reject_matrix.py: what a device with a light answers to these writes, and
\* the cases it gets wrong, by the reason it prints or by what is read back.
RejectCases == {<<<<31, 1>>, "objectid_mismatch">>, <<<<30>>, "truncated">>,
                <<<<>>, "truncated">>, <<<<30, 1, 255, 2>>, "trailing_bytes">>}

MatrixFailures(held) ==
  {case \in RejectCases : \/ ParseWrite(case[1], 30) # case[2]
                          \/ HeldAfter(case[1], 30, held) # held}

----------------------------------------------------------------------------
Known == DOMAIN MeasTypes

\* A text of the ends of the alphabets, and the lengths around the limit in
\* letters of one byte and of two.
SampleTexts ==
  {<<>>, <<72>>, <<127, 128, 233, 2047>>, [i \in 1..255 |-> 120], [i \in 1..127 |-> 233]}
SealedBy == 8  \* the counter and the tag, which sealing adds
LeastMtu == 23
LongTexts == {[i \in 1..256 |-> 120], [i \in 1..128 |-> 233]}

\* Every number a control of Home Assistant lets through, its bounds and the
\* halves between two steps included, fits its object, and is on the device
\* and read back the nearest step to what was asked.
EveryNumberArrives ==
  \A id \in Numeric : \A halves \in Accepted(id) :
    LET bytes == EncodeScaled(halves, id) IN
    /\ Fits(halves, id)
    /\ DecodeScaled(bytes, id) = DeviceNumber(bytes, id)
    /\ 2 * DecodeScaled(bytes, id) - halves \in -1..1

\* A write the log keeps silent about fits the link, whatever its length, and
\* no write but a text's or raw bytes' is ever too long for one.
NoWriteIsCutInSilence ==
  /\ \A length \in 1..300, mtu \in {LeastMtu, 64, 131, 247} :
       MtuNote(length, mtu) # "too large" => length + AttWriteOverhead <= mtu
  /\ \A id \in Known : MeasTypes[id].format \notin LengthPrefixed =>
       MtuNote(1 + MeasTypes[id].length + SealedBy, LeastMtu) = "nothing"

Travels(id, value) ==
  /\ ParseWrite(EncodeObject(id, value), id) = "taken"
  /\ DecodeObject(id, EncodeObject(id, value)) = [is |-> "value", value |-> value]

\* What a control writes is taken by the parser of its entry, means to the
\* device what was asked of the control, and is shown as that when it is read
\* back, texts of several bytes a letter included; a text that has no length
\* byte is not sent, and a number of another width not shown.  Every entry
\* that is offered has a control, raw bytes apart, and of those of one object
\* no two are called the same.
EveryControlIsUnderstood ==
  /\ \A id \in Known, on \in BOOLEAN : Kind(id) = "binary" =>
       LET value == SwitchBytes(on) IN
       /\ Travels(id, value) /\ SwitchIsOn(value) = on
       /\ DeviceValue(value, Codec(id, FALSE), id) = on
  /\ \A id \in Known : \A code \in EventValues(id) :
       LET value == EventPayload(id, code)
           atDevice == DeviceValue(value, Codec(id, TRUE), id)
       IN Travels(id, value) /\ code = IF id = Dimmer THEN atDevice[1] ELSE atDevice
  /\ \A text \in SampleTexts :
       LET value == EncodeText(text)
           atDevice == DeviceValue(value, Codec(83, FALSE), 83)
       IN /\ Travels(83, value) /\ TextShown(value) = text
          /\ TextShown(TextObject(atDevice)) = text
  /\ \A text \in LongTexts : EncodeText(text) = TooLong
  /\ \A id \in Known, value \in Payloads : Kind(id) = "numeric" =>
       (NumberShown(value, id) = <<>>) = (DecodeObject(id, <<id>> \o value).is # "value")
  /\ \A id \in Known : Offered(id) /\ Kind(id) # "raw" =>
       {1} = Switches(<<id>>) \cup Numbers(<<id>>) \cup Texts(<<id>>)
               \cup {button[1] : button \in Buttons(<<id>>)}
  /\ \A layout \in Layouts : \A j, k \in 1..Len(layout) :
       j < k /\ layout[j] = layout[k] =>
         InstanceNumber(layout, j) \in 1..(InstanceNumber(layout, k) - 1)

\* The receiver checks a read the way a device checks a write: the two
\* parsers, written apart, take and refuse the same payloads, what they take
\* is what encode_object makes of the value, and the cases of the bench's
\* reject matrix are refused for the reason they name and change nothing.
ParsersAgree ==
  /\ \A id \in Writable, p \in Payloads :
       LET read == DecodeObject(id, p) IN
       /\ (read.is = "value") = (ParseWrite(p, id) = "taken")
       /\ (read.is = "stale") = (ParseWrite(p, id) = "objectid_mismatch")
       /\ read.is = "value" => p = EncodeObject(id, read.value)
  /\ \A value \in Alphabet : MatrixFailures(EncodeObject(30, <<value>>)) = {}

\* What goes over the air arrives as it was meant: the declaration of a device
\* among whatever readings, and what is asked of every kind of control.
MeaningsAgree ==
  /\ EveryDeclarationArrives /\ EveryNumberArrives /\ EveryControlIsUnderstood
  /\ NoWriteIsCutInSilence
=============================================================================
