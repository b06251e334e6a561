------------------------------- MODULE CotBridge -------------------------------
(***************************************************************************)
(* The way from Apex to the TAK server: the outbound forwardAll parent     *)
(* connection of Apex, and the cot-bridge service at its other end, which  *)
(* converts what it reads to CoT markers.                                  *)
(*                                                                         *)
(* Apex sends every message of a registered node over the connection while *)
(* it is up, and dials again when it is down; a new connection starts with *)
(* the registrations and latest status reports of the nodes that are       *)
(* registered then.  What was sent over a connection Apex has lost is still *)
(* read to its end by the bridge's task for it, beside the task that serves *)
(* the next connection.  Time to live, layout and the statistics of the    *)
(* bridge are left out.                                                    *)
(***************************************************************************)
EXTENDS Naturals, Sequences, FiniteSets, Functions
CONSTANTS
  Nodes,        (* edge nodes                                              *)
  NoMessage,    (* no registration, no status report                       *)
  MaxSends,     (* per node: bound on its messages                         *)
  MaxBreaks     (* bound on the connections lost to the network, a full     *)
                (* buffer or a restart of the bridge                       *)

ASSUME NodesAssumption == IsFiniteSet(Nodes)
ASSUME SendsAssumption == MaxSends \in [Nodes -> Nat] /\ MaxBreaks \in Nat

VARIABLES
  registry,    (* per node: what Apex replays of it, or NoMessage        *)
  count,       (* per node: how many messages it has sent                  *)
  up,          (* Apex has the outbound connection                         *)
  lines,       (* per connection, oldest first: what Apex has sent over it *)
               (* and the bridge has not read                              *)
  onTak,       (* the nodes with a marker since they last registered       *)
  shown,       (* the detections TAK has got, and over which connection    *)
  breaks, sendFailed   (* a datagram to TAK could not be sent              *)

vars == <<registry, count, up, lines, onTak, shown, breaks, sendFailed>>

\* What convert() makes of a message: a marker, nothing for want of a position
\* or of a mapping, or an exception for an enum value without a name.
Says == [registration |-> {"marker", "nothing", "unnamed"},
         status |-> {"marker", "nothing", "unnamed"},
         detection |-> {"marker", "nothing"},
         other |-> {"marker", "nothing"}]
Types == DOMAIN Says
Message == {m \in [node: Nodes, type: Types, says: UNION Range(Says), n: Nat] :
              m.says \in Says[m.type]}
Entries == [registration: {m \in Message : m.type = "registration"},
            status: {m \in Message : m.type = "status"} \cup {NoMessage}]
ASSUME NoMessageAssumption == NoMessage \notin Message \cup Entries

Registered == {n \in Nodes : registry[n] # NoMessage}

\* A connection is replaced by the next one when it is lost; one that the
\* bridge closes, with nothing left to read, is replaced by one in its place.
Connections == 1..(MaxBreaks + 1)
Latest == breaks + 1

Init ==
  /\ registry = [n \in Nodes |-> NoMessage]
  /\ count = [n \in Nodes |-> 0]
  /\ up = FALSE /\ lines = [c \in Connections |-> <<>>]
  /\ onTak = {} /\ shown = {}
  /\ breaks = 0 /\ sendFailed = FALSE

-----------------------------------------------------------------------------
(* Apex *)

\* Apex handles one message of node n: a first message other than a
\* registration is refused.  Nothing is kept for a connection that is down.
NodeSays(n, type, says) ==
  LET m == [node |-> n, type |-> type, says |-> says, n |-> count[n] + 1]
  IN  /\ count[n] < MaxSends[n] /\ says \in Says[type]
      /\ count' = [count EXCEPT ![n] = @ + 1]
      /\ IF type # "registration" /\ n \notin Registered
         THEN UNCHANGED <<registry, lines, onTak>>
         ELSE /\ registry' = CASE type = "registration" ->
                                    [registry EXCEPT ![n] = [registration |-> m, status |-> NoMessage]]
                               [] type = "status" -> [registry EXCEPT ![n].status = m]
                               [] OTHER -> registry
              /\ lines' = IF up THEN [lines EXCEPT ![Latest] = Append(@, m)] ELSE lines
              /\ onTak' = IF type = "registration" THEN onTak \ {n} ELSE onTak
      /\ UNCHANGED <<up, shown, breaks, sendFailed>>

\* handle_closed of a node's connection.
NodeLeaves(n) ==
  /\ n \in Registered
  /\ registry' = [registry EXCEPT ![n] = NoMessage]
  /\ onTak' = onTak \ {n}
  /\ UNCHANGED <<count, up, lines, shown, breaks, sendFailed>>

\* Wrong variant: a node's status is replayed whether it has reported or not.
ReplayedUnchecked ==
  {registry[n].registration : n \in Registered} \cup {registry[n].status : n \in Registered}

\* The registrations and latest reports of the nodes that are registered ...
Replayed ==
  {registry[n].registration : n \in Registered}
    \cup ({registry[n].status : n \in Registered} \ {NoMessage})

\* ... node by node, in any order of nodes, each report after its registration.
Replays ==
  {s \in [1..Cardinality(Replayed) -> Replayed] :
     /\ IsInjective(s)
     /\ \A n \in Registered, i \in DOMAIN s :
          s[i] = registry[n].status => i > 1 /\ s[i - 1] = registry[n].registration}

\* Wrong variant: a new connection starts with what happens next.
FeedConnectsEmpty ==
  /\ ~up
  /\ up' = TRUE
  /\ UNCHANGED <<registry, count, lines, onTak, shown, breaks, sendFailed>>

\* Wrong variant: a new connection starts with what the lost one was sent.
FeedConnectsResumes ==
  /\ ~up
  /\ up' = TRUE
  /\ \E s \in Replays : lines' = [lines EXCEPT ![Latest] =
       (IF breaks = 0 THEN <<>> ELSE lines[breaks]) \o s]
  /\ UNCHANGED <<registry, count, onTak, shown, breaks, sendFailed>>

FeedConnects ==
  /\ ~up
  /\ up' = TRUE
  /\ \E s \in Replays : lines' = [lines EXCEPT ![Latest] = s]
  /\ UNCHANGED <<registry, count, onTak, shown, breaks, sendFailed>>

\* Apex loses the connection: what has got through stays with the bridge.
FeedBreaks ==
  /\ breaks < MaxBreaks /\ up
  /\ \E got \in 0..Len(lines[Latest]) : lines' = [lines EXCEPT ![Latest] = SubSeq(@, 1, got)]
  /\ up' = FALSE /\ breaks' = breaks + 1
  /\ UNCHANGED <<registry, count, onTak, shown, sendFailed>>

BridgeRestarts ==
  /\ breaks < MaxBreaks
  /\ lines' = [c \in Connections |-> <<>>]
  /\ up' = FALSE /\ breaks' = breaks + 1
  /\ UNCHANGED <<registry, count, onTak, shown, sendFailed>>

-----------------------------------------------------------------------------
(* The bridge: handle_client for connection c, and _convert_and_send *)

NextSays(c, says) == lines[c] # <<>> /\ Head(lines[c]).says \in says
TakesNext(c) == lines' = [lines EXCEPT ![c] = Tail(@)]

\* TAK has got the marker of m.
Shown(c, m) ==
  /\ onTak' = IF /\ m.type \in {"registration", "status"} /\ m.node \in Registered
                 /\ m.n >= registry[m.node].registration.n
              THEN onTak \cup {m.node} ELSE onTak
  /\ shown' = IF m.type = "detection" THEN shown \cup {[node |-> m.node, n |-> m.n, over |-> c]}
              ELSE shown

\* Wrong variant: the frame is not taken off the stream.
ConvertsAgain(c) ==
  /\ NextSays(c, {"marker"})
  /\ Shown(c, Head(lines[c]))
  /\ UNCHANGED <<registry, count, up, lines, breaks, sendFailed>>

Converts(c) ==
  /\ NextSays(c, {"marker"})
  /\ Shown(c, Head(lines[c]))
  /\ TakesNext(c)
  /\ UNCHANGED <<registry, count, up, breaks, sendFailed>>

Skips(c) ==
  /\ NextSays(c, {"nothing"})
  /\ TakesNext(c)
  /\ UNCHANGED <<registry, count, up, onTak, shown, breaks, sendFailed>>

\* sendto() raises: counted and forgotten.
SendFails(c) ==
  /\ NextSays(c, {"marker"})
  /\ TakesNext(c)
  /\ sendFailed' = TRUE
  /\ UNCHANGED <<registry, count, up, onTak, shown, breaks>>

\* The conversion raises: the bridge closes the connection and reads no more.
Raises(c) ==
  /\ NextSays(c, {"unnamed"})
  /\ lines' = [lines EXCEPT ![c] = <<>>]
  /\ up' = (up /\ c # Latest)
  /\ UNCHANGED <<registry, count, onTak, shown, breaks, sendFailed>>

-----------------------------------------------------------------------------
BridgeReads(c) == Converts(c) \/ Skips(c) \/ SendFails(c) \/ Raises(c)
Next ==
  \/ \E n \in Nodes, type \in Types : \E says \in Says[type] : NodeSays(n, type, says)
  \/ \E n \in Nodes : NodeLeaves(n)
  \/ FeedConnects \/ FeedBreaks \/ BridgeRestarts
  \/ \E c \in Connections : BridgeReads(c)

Spec == Init /\ [][Next]_vars

\* Apex dials again and again; the bridge has a task that reads for each
\* connection.
FairSpec == Spec /\ WF_vars(FeedConnects) /\ \A c \in Connections : WF_vars(BridgeReads(c))

-----------------------------------------------------------------------------
(* Properties *)

TypeOK ==
  /\ registry \in [Nodes -> Entries \cup {NoMessage}]
  /\ count \in [Nodes -> Nat]
  /\ up \in BOOLEAN
  /\ lines \in [Connections -> Seq(Message)]
  /\ onTak \subseteq Registered
  /\ shown \subseteq [node: Nodes, n: Nat, over: Connections]
  /\ breaks \in 0..MaxBreaks /\ sendFailed \in BOOLEAN

\* TAK gets a detection at most once, however often the connection breaks and
\* is replayed while earlier ones are still read; and it gets a detection after
\* a newer one of the same node only if the newer one came over a later
\* connection.
IsDetection(c, i) == lines[c][i].type = "detection"
DetectionsOnceInOrder ==
  \A c \in Connections : \A i \in DOMAIN lines[c] : IsDetection(c, i) =>
    /\ \A s \in shown : s.node = lines[c][i].node =>
         s.n # lines[c][i].n /\ (s.over <= c => s.n < lines[c][i].n)
    /\ \A d \in 1..c : \A j \in DOMAIN lines[d] :
         IsDetection(d, j) /\ lines[d][j].node = lines[c][i].node /\ (d < c \/ j < i) =>
           lines[d][j].n < lines[c][i].n

\* A registered node that convert() has a marker for gets onto TAK, however
\* often the connection broke before: unless another registered node keeps
\* breaking it (its replayed message raises in the bridge), or a datagram
\* could not be sent.
Unnamed(n) ==
  n \in Registered /\ \E m \in {registry[n].registration, registry[n].status} :
    m # NoMessage /\ m.says = "unnamed"
RegisteredIsShown ==
  \A n \in Nodes :
    (n \in Registered /\ registry[n].registration.says = "marker") ~>
      (n \in onTak \/ n \notin Registered \/ sendFailed \/ \E o \in Nodes : Unnamed(o)
       \/ registry[n].registration.says # "marker")
=============================================================================
