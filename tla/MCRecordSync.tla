--------------------------- MODULE MCRecordSync ---------------------------
(* Small instances of RecordSync for TLC. *)
EXTENDS RecordSync, TLC

\* One thing that the operator manages and one that the controller keeps.
CONSTANTS policy, counter, i1, i2, v1, v2

\* The controller's identifiers and the values mean nothing by themselves.
Interchangeable == Permutations({i1, i2}) \cup Permutations({v1, v2})
===========================================================================
