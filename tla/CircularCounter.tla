--------------------------- MODULE CircularCounter ---------------------------
(***************************************************************************)
(* Counters on a ring of Space values: 32 bits on the wire, the device's   *)
(* arithmetic being `>>> 0`.  Both operands are on the ring, so one        *)
(* correction is all that a remainder amounts to.                          *)
(***************************************************************************)
EXTENDS Integers

CONSTANTS
  Space,    \* how many counters there are, 2^32
  Window    \* CTR_WINDOW: how far ahead a counter may jump, 2^31

ASSUME SpaceAssumption == Space \in Nat \ {0}
ASSUME WindowAssumption == Window \in 1..(Space - 1)

Ring == 0..(Space - 1)

\* (a + b) >>> 0
Plus(a, b) == IF a + b < Space THEN a + b ELSE a + b - Space

\* (a - b) >>> 0
Minus(a, b) == IF b <= a THEN a - b ELSE a - b + Space

\* counterIsAhead: ahead in the circular sense of section 5.3.
IsAhead(counter, last) == Minus(counter, last) \in 1..Window
=============================================================================
