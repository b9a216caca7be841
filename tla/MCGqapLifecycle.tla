--------------------------- MODULE MCGqapLifecycle ---------------------------
(***************************************************************************)
(* GqapLifecycle for TLC: the arenas are interchangeable.                  *)
(***************************************************************************)
EXTENDS GqapLifecycle, TLC

ArenaSymmetry == Permutations(Arenas)

=============================================================================
