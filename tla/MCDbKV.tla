------------------------------- MODULE MCDbKV -------------------------------
(***************************************************************************)
(* The instances of MCDb, with the map of DbKV beside them.                *)
(***************************************************************************)
EXTENDS DbKV, MCDb
=============================================================================
