----------------------------- MODULE MCDeviceIO -----------------------------
(***************************************************************************)
(* DeviceIO on small instances for TLC.                                    *)
(***************************************************************************)
EXTENDS DeviceIO

\* Timeouts: none, and one.  Its length makes no difference.
SomeTimeouts == {-1, 0}
=============================================================================
