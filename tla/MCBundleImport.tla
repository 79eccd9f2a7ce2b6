---------------------------- MODULE MCBundleImport ----------------------------
(* Instances of BundleImport for TLC: a short session and two importers. *)
EXTENDS BundleImport, TLC

CONSTANTS b1, b2, i1, i2

ImporterSymmetry == Permutations(Importer)
===============================================================================
