------------------------------- MODULE MCCatalog -------------------------------
(***************************************************************************)
(* An instance of Catalog for TLC: calls about one patch.                  *)
(***************************************************************************)
EXTENDS Catalog

MCPatches == {"a"}

===============================================================================
