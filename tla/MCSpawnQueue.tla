---------------------------- MODULE MCSpawnQueue ----------------------------
(* Small instances of SpawnQueue. *)
EXTENDS SpawnQueue, TLC

SessionSymmetry == Permutations(Sessions)
=============================================================================
