----------------------------- MODULE MCGqapPools -----------------------------
(***************************************************************************)
(* GqapPools for TLC: the arenas are interchangeable, threads are not.     *)
(***************************************************************************)
EXTENDS GqapPools, TLC

ArenaSymmetry == Permutations(Arenas)

=============================================================================
