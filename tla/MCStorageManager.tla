-------------------------- MODULE MCStorageManager --------------------------
(***************************************************************************)
(* StorageManager for TLC: two conversations and a cache of one, so that a *)
(* put evicts and a refresh leaves a row out.                              *)
(***************************************************************************)
EXTENDS StorageManager, TLC

CONSTANTS p1, p2

MCProcs == {p1, p2}
MCNoProcs == {}
MCTwoIds == 1..2

Symmetry == Permutations({p1, p2})
=============================================================================
