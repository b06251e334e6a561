--------------------------- MODULE MCNodesRegistry ---------------------------
(* Instances of NodesRegistry for TLC. *)
EXTENDS NodesRegistry, TLC

CONSTANTS n1, n2, e1, e2, r1, r2, d1


\* Ids, contents and requests are interchangeable; used by the safety runs only.
Symmetry == Permutations(Nodes) \cup Permutations(Entries) \cup Permutations(Requests)
=============================================================================
