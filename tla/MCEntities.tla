------------------------------ MODULE MCEntities ------------------------------
(* A device with a light and a button, whose entries change kind or number:  *)
(* two values for the light, one press.                                      *)
EXTENDS Entities

CONSTANTS on, off, press, light, text, button

MCControlOf ==
  [c \in Commands |-> IF c \in {on, off} THEN <<1, light>> ELSE <<2, button>>]

MCEntryOf == [c \in Commands |-> MCControlOf[c][1]]

MCFirstLayout == {<<1, light>>, <<2, button>>}

MCLayouts == {MCFirstLayout, {<<1, text>>}}
=============================================================================
