----------------------------- MODULE MCCotBridge -----------------------------
(* CotBridge with model values for TLC. *)
EXTENDS CotBridge
CONSTANTS n1, n2, FirstSends, SecondSends

MCMaxSends == [n \in Nodes |-> IF n = n1 THEN FirstSends ELSE SecondSends]
=============================================================================
