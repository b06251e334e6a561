---------------------------- MODULE MCSqliteArchive ----------------------------
(* SqliteArchive with model values for TLC. *)
EXTENDS SqliteArchive, TLC
CONSTANTS c1, c2

\* No definition tells connections apart.
Symmetry == Permutations(Conns)
=============================================================================
