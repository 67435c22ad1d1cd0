-------------------------- MODULE MCRocksDBClient --------------------------
(***************************************************************************)
(* RocksDBClient on two column families with two keys each.  The families' *)
(* names are interchangeable, so one order of the manifest stands for both.*)
(***************************************************************************)
EXTENDS RocksDBClient, TLC

Symmetry == Permutations(ColumnFamilies)
=============================================================================
