----------------------------- MODULE MCApexRouter -----------------------------
(* ApexRouter with model values for TLC. *)
EXTENDS ApexRouter, TLC
CONSTANTS c1, c2, c3, p1, p2, q1, q2, h1, r1, n1, n2, i1, i2, v1, v2

\* No definition tells the members of these sets apart.
Symmetry == Permutations(Children) \cup Permutations(Values)
            \cup Permutations(Nodes) \cup Permutations(Peers) \cup Permutations(Parents)
=============================================================================
