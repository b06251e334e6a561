---------------------------- MODULE NodesPromise ----------------------------
(***************************************************************************)
(* What the nodes service promises to a reader of its registry.            *)
(*                                                                         *)
(* The registry file goes through a history of configurations, one per     *)
(* acknowledged or attempted write.  What the service shows is, at every   *)
(* moment, either one of those configurations as a whole or nothing at all *)
(* (before the first probe round, after a restart, and for the instant a   *)
(* finished round replaces the cache).  It never shows a mixture of two    *)
(* configurations, and never an entry no write put in the file.            *)
(***************************************************************************)
EXTENDS Naturals, Sequences

CONSTANTS
  Nodes,    (* node ids                                                   *)
  Entries,  (* the contents an entry of the file may have                 *)
  Absent    (* not an entry: the id is not in the file                    *)

VARIABLES
  history,  (* the configurations of the file, oldest first               *)
  shown     (* the configuration whose entries the service lists          *)

vars == <<history, shown>>

Config == [Nodes -> Entries \cup {Absent}]
Nothing == [n \in Nodes |-> Absent]

Init ==
  /\ \E c \in Config : history = <<c>>
  /\ shown = Nothing

Commit(c) ==
  /\ history' = Append(history, c)
  /\ UNCHANGED shown

Show(i) ==
  /\ shown' = history[i]
  /\ UNCHANGED history

Hide ==
  /\ shown' = Nothing
  /\ UNCHANGED history

Next ==
  \/ \E c \in Config : Commit(c)
  \/ \E i \in 1..Len(history) : Show(i)
  \/ Hide

Spec == Init /\ [][Next]_vars
=============================================================================
