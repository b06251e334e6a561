--------------------------- MODULE MCApexConnections ---------------------------
(* ApexConnections with model values for TLC. *)
EXTENDS ApexConnections
CONSTANTS c1,
          ClientSends, ClientKinds,   (* what an inbound client may send   *)
          DialSends, DialKinds        (* and the first host that is dialled *)

MCMaxSent ==
  [c \in Conns |-> CASE c \in Inbound -> ClientSends
                     [] c = 1 -> DialSends
                     [] OTHER -> 0]
MCKinds == [c \in Conns |-> IF c \in Inbound THEN ClientKinds ELSE DialKinds]
=============================================================================
