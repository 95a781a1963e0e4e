--------------------------- MODULE MCDeviceSession ---------------------------
(* Instances of DeviceSession for TLC.                                     *)
EXTENDS DeviceSession
CONSTANTS u1, u2

MCSetups ==
  {[kind |-> "server", callers |-> {u1, u2}, limit |-> 2],
   [kind |-> "system", callers |-> {u1}, limit |-> 3],
   [kind |-> "subscriber", callers |-> {u1}, limit |-> 2]}
=============================================================================
