---------------------------- MODULE MCDeviceRadio ----------------------------
(***************************************************************************)
(* The device's thread for TLC.  What a sensor reads is compared and never *)
(* computed with: one value is as good as another.                         *)
(***************************************************************************)
EXTENDS DeviceRadio, TLC

Interchangeable == Permutations(Values)

=============================================================================
