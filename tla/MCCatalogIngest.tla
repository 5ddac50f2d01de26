-------------------------- MODULE MCCatalogIngest --------------------------
(* CatalogIngest over the files of MCFiles.                                 *)
EXTENDS CatalogIngest, MCFiles

(* The order of RETAILERS.                                                  *)
MigrosFirst == <<migros, coop>>

Symmetry == Permutations(Session)
=============================================================================
