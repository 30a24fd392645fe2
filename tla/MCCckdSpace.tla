---------------------------- MODULE MCCckdSpace -----------------------------
(***************************************************************************)
(* CckdSpace for TLC: two tracks, each in a level 2 table of its own.      *)
(***************************************************************************)
EXTENDS CckdSpace

CONSTANTS t1, t2

MCByFSync == -1
MCTwoTables == [t \in Track |-> IF t = t1 THEN 1 ELSE 2]

=============================================================================
