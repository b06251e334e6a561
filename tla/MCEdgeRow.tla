------------------------------- MODULE MCEdgeRow -------------------------------
(* EdgeRow with model values for TLC. *)
EXTENDS EdgeRow
CONSTANTS r1, r2, FirstEdits, SecondEdits, GpsSettle, NtpSettle, GpsLag, NtpLag
MCEdits == [r \in Requests |-> IF r = r1 THEN FirstEdits ELSE SecondEdits]
MCSettle == [gps |-> GpsSettle, ntp |-> NtpSettle]
MCLag == [gps |-> GpsLag, ntp |-> NtpLag]
=============================================================================
