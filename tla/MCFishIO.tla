------------------------------ MODULE MCFishIO ------------------------------
(* Limits of the number of device threads for TLC: one thread per request    *)
(* (-1), no limit (0), and one thread.                                       *)
EXTENDS FishIO

MCLimits == {-1, 0, 1}
=============================================================================
