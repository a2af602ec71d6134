--------------------------- MODULE MCAdvertisements ---------------------------
(* A small instance of Advertisements for TLC: the objects of the fixtures,  *)
(* a command and a raw object, and one unsigned and one signed number.        *)
EXTENDS Advertisements, TLC

CONSTANTS k1, k2

MCKeys == {k1, k2}

MCDevices == {<<k1, <<2, 1>>>>, <<NoKey, <<>>>>}

Meas(format, length, shape) == [format |-> format, length |-> length, shape |-> shape]

MCMeasTypes ==
  (0 :> Meas("unsigned", 1, "sensor")) @@ (1 :> Meas("unsigned", 1, "sensor"))
  @@ (2 :> Meas("signed", 2, "sensor")) @@ (3 :> Meas("unsigned", 2, "sensor"))
  @@ (16 :> Meas("unsigned", 1, "binary")) @@ (20 :> Meas("unsigned", 2, "sensor"))
  @@ (30 :> Meas("unsigned", 1, "binary")) @@ (58 :> Meas("unsigned", 1, "event"))
  @@ (59 :> Meas("command", 1, "event")) @@ (60 :> Meas("unsigned", 2, "event"))
  @@ (83 :> Meas("string", 1, "sensor"))
  @@ (84 :> Meas("raw", 1, "sensor")) @@ (87 :> Meas("signed", 1, "sensor"))
  @@ (101 :> Meas("unsigned", 1, "sensor")) @@ (240 :> Meas("unsigned", 2, "other"))

\* The codes of a button, of a command and of a dimmer.
MCVocabulary ==
  (58 :> ((0..6) \cup {128})) @@ (59 :> (0..4)) @@ (60 :> {1, 2})

\* Readings of 255 and 101 are where a scan instead of a walk would go wrong.
MCSensors == {<<>>, <<<<1, 255>>>>, <<<<2, 255, 1>>, <<1, 101>>>>,
              <<<<83, 2, 255, 1>>, <<30, 1>>, <<30, 0>>, <<1, 97>>>>}

MCLayouts == {<<>>, <<30>>, <<30, 30, 83>>, <<153, 30>>, <<30, 59>>}

MCStreams == {<<101, 1, 255, 1, 30>>, <<101, 1, 255, 1, 83>>, <<101, 2, 255, 1, 30>>}

MCSensorsOnly == <<1, 255>>
=============================================================================
