---------------------------- MODULE MCDeviceInbox ----------------------------
(* Small instances of DeviceInbox for TLC. *)
EXTENDS DeviceInbox, TLC
=============================================================================
