----------------------------- MODULE MCDeviceLinks -----------------------------
\* Three devices, two of which ask for a cap; a command and a read for the
\* first, a command for the second, housekeeping for the third.
EXTENDS DeviceLinks, TLC

CONSTANTS switch, reading, dimming, clearing, lamp, blind, knob, e1, e2

MCDeviceOf == (switch :> lamp) @@ (reading :> lamp) @@ (dimming :> blind)
              @@ (clearing :> knob)
=============================================================================
