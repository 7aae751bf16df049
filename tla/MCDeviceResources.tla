------------------------- MODULE MCDeviceResources -------------------------
(* DeviceResources has no constants and finitely many states: all of them. *)
EXTENDS DeviceResources
=============================================================================
