---------------------------- MODULE MCDeviceAuth ----------------------------
(* Instances of DeviceAuth for TLC; a unit of time is five seconds. *)
EXTENDS DeviceAuth
=============================================================================
