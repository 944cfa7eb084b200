-------------------------------- MODULE MCSync --------------------------------
(***************************************************************************)
(* Small instances of Sync.                                                *)
(***************************************************************************)
EXTENDS Sync, TLC

Symmetry == Permutations(Hash) \cup Permutations(Peer)
HashSymmetry == Permutations(Hash)
=============================================================================
