----------------------------- MODULE MCDevicePool -----------------------------
(* Limits and priorities for TLC: a thread per request (-1), no limit (0),     *)
(* one and two device threads; the last device is less urgent than the others.  *)
EXTENDS DevicePool

CONSTANT d3

MCLimits == {-1, 0, 1, 2}
MCPriority == [d \in Device |-> IF d = d3 THEN 1 ELSE 0]
=============================================================================
