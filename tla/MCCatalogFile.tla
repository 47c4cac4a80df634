--------------------------- MODULE MCCatalogFile ---------------------------
(* Instances of CatalogFile for TLC.                                        *)
EXTENDS CatalogFile, TLC

Symmetry == Permutations(Workers) \cup Permutations(Urls) \cup Permutations(Cats)
=============================================================================
