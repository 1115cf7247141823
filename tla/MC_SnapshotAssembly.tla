------------------------- MODULE MC_SnapshotAssembly -------------------------
(* The snapshot path of one node over a manifest of two chunks.           *)
EXTENDS SnapshotAssembly, TLC
=============================================================================
