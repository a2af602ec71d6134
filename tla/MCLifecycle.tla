----------------------------- MODULE MCLifecycle -----------------------------
(* A device that is a light and a button, then only a text in the light's    *)
(* place; or that declares nothing a control can be made of.                  *)
EXTENDS Lifecycle

CONSTANTS light, text, press, k1, k2

Control(domain, number, object, code) ==
  [domain |-> domain, number |-> number, object |-> object, code |-> code]

Lamp == Control("switch", 1, light, 0)
Button == Control("button", 2, press, 1)
Note == Control("text", 1, text, 0)

MCLayouts == {{Lamp, Button}, {Note}, {}}

MCOldRows == {Row(x.domain, OldId(x), TRUE) : x \in {Lamp, Button}}
=============================================================================
