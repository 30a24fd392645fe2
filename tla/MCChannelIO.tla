---------------------------- MODULE MCChannelIO ----------------------------
(* Two devices on one channel for TLC: a disk that tries synchronous I/O     *)
(* first and, in the runs that say so, may be reserved; and a console that   *)
(* raises attention.  Requests are interchangeable.                          *)
EXTENDS ChannelIO

CONSTANTS disk, cons, r1, r2

MCDevice == {disk, cons}
MCReq == {r1, r2}
MCChannel == {1}
MCChan == [d \in Device |-> 1]
MCPriority == [d \in Device |-> IF d = disk THEN 0 ELSE 1]
MCSyncIo == [d \in Device |-> IF d = disk THEN 2 ELSE 0]
MCConsole == Device \ {disk}
MCSymmetry == Permutations(Req)
=============================================================================
