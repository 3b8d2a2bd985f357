---------------------------- MODULE MCCatalogLock ----------------------------
(***************************************************************************)
(* CatalogLock for TLC: three processes by name.                           *)
(***************************************************************************)
EXTENDS CatalogLock

CONSTANTS a, b, c
=============================================================================
