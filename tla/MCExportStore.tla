---------------------------- MODULE MCExportStore ----------------------------
(* Instances of ExportStore for TLC. *)
EXTENDS ExportStore, TLC

\* Threads and identifiers are interchangeable.
Symmetry == Permutations(Threads) \cup Permutations(Ids)
================================================================================
