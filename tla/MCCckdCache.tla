---------------------------- MODULE MCCckdCache -----------------------------
(***************************************************************************)
(* CckdCache for TLC.  Readahead begins behind the second of two adjacent  *)
(* tracks, so a disk that has it has three.                                *)
(***************************************************************************)
EXTENDS CckdCache, TLC

CONSTANTS d1, e1, e2, r1, w1

MCTracks == d1 :> {1, 2, 3}
MCTwo == d1 :> {1, 2}
MCWriteOne == {<<d1, 1>>}
MCBoth == d1 :> {"close", "sf"}
MCShadow == d1 :> {"sf"}
MCClose == d1 :> {"close"}

\* The first and the last track are updated, and the last one read ahead.
MCWritten == {<<d1, 1>>, <<d1, 3>>}
MCSecond == {<<d1, 2>>}
MCLast == {<<d1, 3>>}

MCSymmetry == Permutations(Entry)

=============================================================================
