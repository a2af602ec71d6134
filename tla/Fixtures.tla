------------------------------- MODULE Fixtures -------------------------------
(***************************************************************************)
(* The contract between the two code bases, as data: the packets of        *)
(* gen_advertising_fixtures.py with the entries a receiver is to offer,    *)
(* and the sealed payloads of gen_test_vectors.py with the verdict of the  *)
(* one who opens them.                                                     *)
(***************************************************************************)
EXTENDS ControlValues, SealedFrames

\* What the fixtures count on of bthome-ble's table: objects of a byte or two,
\* lights, numbers, and an object nobody knows.
ASSUME FixtureTableAssumption ==
  /\ \A id \in {0, 1, 2, 3, 16, 20, 30, 87, 101} :
       /\ id \in DOMAIN MeasTypes /\ MeasTypes[id].format \in {"unsigned", "signed"}
       /\ MeasTypes[id].length = IF id \in {2, 3, 20} THEN 2 ELSE 1
  /\ MeasTypes[16].shape = "binary"
  /\ MeasTypes[20].shape = "sensor" /\ MeasTypes[87].shape = "sensor"
  /\ 153 \notin DOMAIN MeasTypes

\* ADV_PAYLOAD_BYTES less the flags and the header of the service data.
ServiceDataBudget == 31 - 3 - 4

Pid(n) == <<0, n>>
Battery(pct) == <<1, pct>>
Light(on) == <<30, IF on THEN 1 ELSE 0>>
Temperature(centi) == <<2>> \o LittleEndian(centi, 2)
Target(celsius) == <<87, celsius % 256>>
Moisture(centi) == <<20>> \o LittleEndian(centi, 2)
Humidity(centi) == <<3>> \o LittleEndian(centi, 2)
Text(length) == <<83, length>> \o [i \in 1..length |-> 104]

NoEntries == <<-1>>

Fixture(objects, entries, offered, writes) ==
  [objects |-> objects, entries |-> entries, offered |-> offered, writes |-> writes]

\* What a device that declares entries may send, each with writes or reads of
\* it: an entry's number and one object.
DeclaredFixtures == {
  Fixture(<<Pid(9), Battery(97)>>, <<30>>, {1}, {<<1, Light(TRUE)>>, <<1, Light(FALSE)>>}),
  Fixture(<<Pid(9), Temperature(2500), <<101, 3>>>>, <<16, 87>>, {1, 2},
          {<<2, Target(22)>>, <<1, <<16, 1>>>>, <<2, Target(20)>>}),
  Fixture(<<Pid(9)>>, <<30, 30, 83>>, {1, 2, 3}, {<<2, Light(FALSE)>>, <<3, Text(5)>>}),
  Fixture(<<Pid(9)>>, <<58>>, {1}, {<<1, <<58, 1>>>>, <<1, <<58, 4>>>>}),
  Fixture(<<Pid(3), Battery(88)>>, <<20>>, {1}, {<<1, Moisture(6000)>>}),
  Fixture(<<Pid(1)>>, [i \in 1..12 |-> 30], 1..12, {<<10, Light(TRUE)>>, <<12, Light(TRUE)>>})}

\* An entry nobody knows, the two packets of a rotation, and devices that
\* declare nothing.
OtherFixtures == {
  Fixture(<<Pid(5)>>, <<30, 153, 30>>, {1, 3}, {<<3, Light(TRUE)>>}),
  Fixture(<<Pid(1), Battery(74)>>, <<30>>, {1}, {<<1, Light(TRUE)>>}),
  Fixture(<<Pid(2), Temperature(2210), Humidity(5500)>>, NoEntries, {}, {}),
  Fixture(<<Battery(50), Temperature(2000)>>, NoEntries, {}, {}),
  Fixture(<<Pid(1), Battery(60)>>, <<>>, {}, {})}

\* Legal for no device: forbidden entries are counted and not offered.
ForbiddenFixtures == {
  Fixture(<<Pid(11)>>, <<30, 59, 30>>, {1, 3}, {}),
  Fixture(<<Pid(1)>>, <<0, 30>>, {2}, {})}

\* Legal for no device: too long, and a declaration before an object.
OverflowFixture == Fixture(<<Pid(1), Battery(97)>>, [i \in 1..25 |-> 30], 1..25, {})
MisplacedFixture == Pid(1) \o <<255, 1, 30>> \o Battery(97)

\* encode and fixture: the service data behind its information byte.
FixtureData(f) ==
  FlattenSeq(f.objects) \o (IF f.entries = NoEntries THEN <<>>
                            ELSE EncodeDeclaration(f.entries))

\* What the device's codec makes of the objects and entries of a fixture, as
\* fixtures.test.js asks it: encodeDeclaration, then buildServiceData.
Rebuilt(f) ==
  IF f.entries = NoEntries
    THEN BuildServiceData(f.objects, <<>>, ServiceDataBudget)
  ELSE IF MayBeDeclared(f.entries)
    THEN BuildServiceData(f.objects, EncodeDeclaration(f.entries), ServiceDataBudget)
  ELSE PlanError

\* The same objects and entry, in the order a device sends them.
WellPlaced == Fixture(<<Pid(1), Battery(97)>>, <<30>>, {1}, {})

\* The device's codec makes the bytes of every legal fixture and refuses the
\* forbidden and the long ones.  A receiver finds a declaration where there
\* is one and offers the entries a fixture lists, under the numbers it lists
\* them, and the device's parser takes each of its writes.
\*
\* Declaration-not-last is the exception.  From its objects and entry the
\* codec makes another packet, with the declaration behind them.  A receiver
\* reads the one entry its length byte counts, as the fixture's own
\* offered_entries has it, and not the two more its description makes of the
\* battery's bytes: the description is older than the length byte.
FixturesAreRead ==
  /\ \A f \in DeclaredFixtures \cup OtherFixtures : Rebuilt(f) = FixtureData(f)
  /\ \A f \in ForbiddenFixtures \cup {OverflowFixture} : Rebuilt(f) = PlanError
  /\ \A f \in DeclaredFixtures \cup OtherFixtures \cup ForbiddenFixtures :
       LET parsed == ParseDeclaration(FixtureData(f)) IN
       /\ (parsed.is = "declaration") = (f.entries # NoEntries)
       /\ OfferedOf(parsed.layout) = f.offered
       /\ \A w \in f.writes : ParseWrite(w[2], parsed.layout[w[1]]) = "taken"
  /\ Rebuilt(WellPlaced) \notin {PlanError, MisplacedFixture}
  /\ ParseDeclaration(MisplacedFixture).layout = <<30>>

----------------------------------------------------------------------------
Advertising == 65
Top == 7   \* the highest counter, on a ring of eight
Far == 3   \* a jump forward of less than half the ring

Mac == "mac"
Bindkey == "bindkey"
WrongBindkey == "wrong"

Vector(info, frame, accept) ==
  [info |-> info, frame |-> frame, accept |-> accept, last |-> NoRevision]

Sealed(info, counter) == Seal(<<counter>>, Bindkey, Mac, info, counter)

AcceptedVectors ==
  {Vector(info, Sealed(info, c), TRUE) : info \in {Advertising, Write}, c \in {0, 1, 2, Top}}
  \cup {Vector(Read, Sealed(Read, c), TRUE) : c \in {3, 4}}
  \cup {[Vector(Write, Sealed(Write, 2 + Far), TRUE) EXCEPT !.last = 2]}

CrossedVectors ==
  {Vector(Write, Sealed(Advertising, 1), FALSE), Vector(Advertising, Sealed(Write, 1), FALSE),
   Vector(Write, Sealed(Read, 3), FALSE)}

RefusedVectors ==
  {[Vector(Write, Sealed(Write, c), FALSE) EXCEPT !.last = 2] : c \in {2, 1}}
  \cup {Vector(Write, Seal(<<1>>, WrongBindkey, Mac, Write, 5), FALSE),
        Vector(Write, Spoilt(Sealed(Write, 6)), FALSE)}

\* The device's verdict: the counter first, as openWrite looks at it, and
\* then the cipher.
Ahead(c, last) == (c - last) % (Top + 1) \in 1..((Top + 1) \div 2)

Judged(v) == /\ v.last = NoRevision \/ Ahead(v.frame.counter, v.last)
             /\ Opens(v.frame, Bindkey, Mac, v.info)

\* Every sealed vector is accepted or refused as the contract says, the
\* payloads of one direction presented in another among them.  The cipher is
\* the symbolic one of SealedFrames: what is judged is which key, direction,
\* address and counter go into it, and in which order they are looked at.
VectorsAreJudged ==
  \A v \in AcceptedVectors \cup CrossedVectors \cup RefusedVectors :
    Judged(v) = v.accept

\* The files both sides are tested with hold of both.
FixturesHold == FixturesAreRead /\ VectorsAreJudged
=============================================================================
