---------------------------- MODULE MCBlobStore ----------------------------
(* Instances of BlobStore for TLC. *)
EXTENDS BlobStore, TLC

Symmetry == Permutations(Puts) \union Permutations(BlobIds) \union Permutations(Handles)
=============================================================================
