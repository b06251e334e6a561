------------------------------ MODULE ArchiveFeed ------------------------------
(***************************************************************************)
(* What the archive is promised by the server that feeds it: a connection  *)
(* is announced once, its messages follow in the order of receipt, its     *)
(* disconnection comes last, and the server is only joined when every      *)
(* announced connection has ended.  ApexConnections keeps this promise, and *)
(* so does the server that SqliteArchive has.                              *)
(***************************************************************************)
EXTENDS Naturals
CONSTANTS Conns,   (* the connections, each with an id of its own *)
          Ids      (* the numbers its messages may have           *)
VARIABLES link,    (* per connection: new, connected, gone              *)
          phase,   (* of the server: running, stopping, stopped         *)
          stored   (* per connection, the messages handed to the archive *)
feedVars == <<link, phase, stored>>

FeedInit ==
  /\ link = [c \in Conns |-> "new"]
  /\ phase = "running"
  /\ stored = [c \in Conns |-> {}]

Announce(c) ==
  /\ link[c] = "new" /\ phase # "stopped"
  /\ link' = [link EXCEPT ![c] = "connected"]
  /\ UNCHANGED <<phase, stored>>

Store(c, n) ==
  /\ link[c] = "connected"
  /\ \A k \in stored[c] : k < n
  /\ stored' = [stored EXCEPT ![c] = @ \cup {n}]
  /\ UNCHANGED <<link, phase>>

Part(c) ==
  /\ link[c] = "connected"
  /\ link' = [link EXCEPT ![c] = "gone"]
  /\ UNCHANGED <<phase, stored>>

Stop ==
  /\ phase = "running"
  /\ phase' = "stopping"
  /\ UNCHANGED <<link, stored>>

Joined ==
  /\ phase = "stopping" /\ \A c \in Conns : link[c] # "connected"
  /\ phase' = "stopped"
  /\ UNCHANGED <<link, stored>>

FeedNext ==
  \/ \E c \in Conns : Announce(c) \/ Part(c)
  \/ \E c \in Conns, n \in Ids : Store(c, n)
  \/ Stop \/ Joined

FeedSpec == FeedInit /\ [][FeedNext]_feedVars
=============================================================================
