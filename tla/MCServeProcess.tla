---------------------------- MODULE MCServeProcess ----------------------------
(* Small instances of ServeProcess for TLC. *)
EXTENDS ServeProcess, TLC

CONSTANTS p1, p2

\* Processes differ in nothing but their name.
Interchangeable == Permutations({p1, p2})
===============================================================================
