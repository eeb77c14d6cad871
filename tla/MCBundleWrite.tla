--------------------------- MODULE MCBundleWrite ---------------------------
(* Instances of BundleWrite for TLC. *)
EXTENDS BundleWrite, TLC

CONSTANTS primary, meta, typetree

MCManaged == <<meta, typetree, primary>>
MCOneSidecar == <<meta, primary>>
Symmetry == Permutations(BundleCalls)
=============================================================================
