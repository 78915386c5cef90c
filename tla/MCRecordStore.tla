---------------------------- MODULE MCRecordStore ----------------------------
(* Small instances of RecordStore for TLC. *)
EXTENDS RecordStore, TLC

\* No handler, column or value is told from another.
Symmetry == Permutations(Handlers) \cup Permutations(Columns) \cup Permutations(Values)
=============================================================================
