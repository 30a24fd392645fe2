---------------------------- MODULE MCDasdCache -----------------------------
(***************************************************************************)
(* DasdCache for TLC: disks d1, d2, d3 and few entries.                    *)
(***************************************************************************)
EXTENDS DasdCache

CONSTANTS d1, d2, d3

\* Two tracks, one of them track 0, spread over the entries.
MCPrefer == [k \in Key |-> IF k[2] = 0 THEN 1 ELSE Nbr]

=============================================================================
