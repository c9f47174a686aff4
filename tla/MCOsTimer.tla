------------------------------ MODULE MCOsTimer ------------------------------
(* Instances of OsTimer for TLC; the values are in the .cfg files. *)
EXTENDS OsTimer

CONSTANTS c1, c2

\* Clients are interchangeable; used by the runs that check invariants only.
ClientSymmetry == Permutations({c1, c2})
=============================================================================
