------------------------------ MODULE ApexRouter ------------------------------
(***************************************************************************)
(* The message router of Apex, as deployed by services/apex:               *)
(* sapient_apex_server/connection.py with the in-place edit of             *)
(* services/apex/patches/route_parent_to_child.py, the connection loop of  *)
(* apex_server.py around it, and the options of apex_config.json (no       *)
(* acknowledgement of children, no filter, no time adjustment).            *)
(*                                                                         *)
(* All connections share one trio event loop and one SharedData.  Handling *)
(* a parsed message and creating or removing a connection do not await, so *)
(* each is one action; connections interleave between them.  The message a *)
(* handler gets is chosen when it is handled: reading, queueing and        *)
(* parsing touch no shared state.  A writer only appends to a buffer, so   *)
(* the order in which the writers of a list are called is not kept and     *)
(* the lists are sets.  A connection that has closed may be opened again   *)
(* as a new one: handle_closed leaves no trace of the old one.             *)
(***************************************************************************)
CONSTANTS
  Children,     (* connections of edge nodes, of any format               *)
  Peers,        (* connections of fusion nodes (DMMs)                     *)
  Parents,      (* connections of type Parent with forwardAll             *)
  HighParents,  (* connections of type Parent without it                  *)
  Recorders,    (* connections of type Recorder                           *)
  Nodes,        (* ids of edge nodes                                      *)
  DmmIds,       (* ids of fusion nodes                                    *)
  Values,       (* contents of a registration, systems of a status report *)
  None,         (* Python's None, no entry, no connection                 *)
  Lost          (* what a receiver knows once its buffer has overflowed   *)

Conns == Children \cup Peers \cup Parents \cup HighParents \cup Recorders
Subscribers == Peers \cup Parents

ASSUME RolesAssumption ==
  /\ None \notin Conns \cup Nodes \cup DmmIds \cup Values
  /\ Children \cap (Subscribers \cup HighParents \cup Recorders) = {}
  /\ Peers \cap (Parents \cup HighParents \cup Recorders) = {}
  /\ Parents \cap (HighParents \cup Recorders) = {}
  /\ HighParents \cap Recorders = {}

VARIABLES
  status,       (* where serve() is, per connection                       *)
  nodeId,       (* per child: node_id, None until it has registered       *)
  lastSystem,   (* per child: last_status_report_system                   *)
  dmmId,        (* per peer: dmm_id                                       *)
  registry,     (* registered_sensors                                     *)
  dmmWriters, parentAll, parentHigh,    (* the lists of SharedData        *)
  view,         (* per subscriber: what the messages handed to its writer *)
                (* say of each node                                       *)
  newest,       (* per node: the connection that registered it last, if   *)
                (* that connection has not closed                         *)
  sent          (* the connection whose message the last step handled and *)
                (* the connections it was forwarded to                    *)

shared == <<registry, dmmWriters, parentAll, parentHigh>>
local == <<nodeId, lastSystem, dmmId>>
vars == <<status, nodeId, lastSystem, dmmId, registry, dmmWriters, parentAll,
          parentHigh, view, newest, sent>>

\* "draining": the nursery is cancelled (end of file, a send that failed),
\* but a message is in the parser thread, which a cancellation does not stop:
\* it is still handled.  "closing": from then on to handle_closed.
Status == {"closed", "open", "draining", "closing"}
Known == [registration: Values, statusNew: Values \cup {None},
          statusUnchanged: Values \cup {None}]
SensorInfo == [writer: Children, registration: Values,
               statusNew: Values \cup {None}, statusUnchanged: Values \cup {None}]
ASSUME NoneAssumption == None \notin Known \cup SensorInfo
View == [Nodes -> Known \cup {None}]
ASSUME LostAssumption == Lost \notin View
Sent == [from: Conns, to: SUBSET Conns]
Quiet == None
ASSUME QuietAssumption == Quiet \notin Sent
UnknownNodes == [n \in Nodes |-> None]

Init ==
  /\ status = [c \in Conns |-> "closed"]
  /\ nodeId = [c \in Children |-> None]
  /\ lastSystem = [c \in Children |-> None]
  /\ dmmId = [p \in Peers |-> None]
  /\ registry = [n \in Nodes |-> None]
  /\ dmmWriters = {}
  /\ parentAll = {}
  /\ parentHigh = {}
  /\ view = [p \in Subscribers |-> UnknownNodes]
  /\ newest = [n \in Nodes |-> None]
  /\ sent = Quiet

-----------------------------------------------------------------------------
(* Receiving and forwarding *)

\* read_from_channel hands a parsed message to the connection.
Receives(c) == status[c] \in {"open", "draining"}

\* What read_from_channel does once handle_message has returned.
Continues(c) ==
  status' = [status EXCEPT ![c] = IF @ = "draining" THEN "closing" ELSE @]
FatalError(c) == status' = [status EXCEPT ![c] = "closing"]

\* An error: nothing is forwarded, the sender may get an error reply.
Rejected == view' = view /\ sent' = Quiet
ForwardedTo(c, writers) == sent' = [from |-> c, to |-> writers]

\* What a receiver that knew k of a node knows after one message of the node.
Learns(k, kind, v) ==
  CASE kind = "registration" ->
         [registration |-> v, statusNew |-> None, statusUnchanged |-> None]
    [] kind = "statusNew" /\ k # None ->
         [k EXCEPT !.statusNew = v, !.statusUnchanged = None]
    [] kind = "statusUnchanged" /\ k # None -> [k EXCEPT !.statusUnchanged = v]
    [] OTHER -> k

\* A child's message of node n goes to every DMM and every forwardAll parent;
\* a writer whose buffer has overflowed drops it.
ForwardOfNode(c, n, kind, v) ==
  LET writers == dmmWriters \cup parentAll IN
  /\ ForwardedTo(c, writers)
  /\ view' = [p \in Subscribers |->
                IF p \in writers /\ view[p] # Lost
                THEN [view[p] EXCEPT ![n] = Learns(@, kind, v)] ELSE view[p]]

-----------------------------------------------------------------------------
(* ChildConnection *)

\* The first registration of a connection.  It takes the node id over from
\* any other connection that holds it.
ChildRegisters(c) ==
  /\ Receives(c)
  /\ nodeId[c] = None
  /\ \E n \in Nodes, v \in Values :
       /\ nodeId' = [nodeId EXCEPT ![c] = n]
       /\ registry' = [registry EXCEPT ![n] =
            [writer |-> c, registration |-> v, statusNew |-> None,
             statusUnchanged |-> None]]
       /\ newest' = [newest EXCEPT ![n] = c]
       /\ ForwardOfNode(c, n, "registration", v)
  /\ Continues(c)
  /\ UNCHANGED <<lastSystem, dmmId, dmmWriters, parentAll, parentHigh>>

\* Wrong variant: a message is checked against the id of the connection only.
HoldsSomeEntry(c) == nodeId[c] # None /\ registry[nodeId[c]] # None

\* The connection has registered and no other one has taken its id over.
HoldsItsNode(c) ==
  /\ nodeId[c] # None
  /\ registry[nodeId[c]] # None
  /\ registry[nodeId[c]].writer = c

\* Wrong variant: a second registration leaves last_status_report_system.
ChildReregistersKeepsSystem(c) ==
  /\ Receives(c)
  /\ HoldsItsNode(c)
  /\ \E v \in Values :
       /\ registry' = [registry EXCEPT ![nodeId[c]] =
            [@ EXCEPT !.registration = v, !.statusNew = None, !.statusUnchanged = None]]
       /\ ForwardOfNode(c, nodeId[c], "registration", v)
  /\ Continues(c)
  /\ UNCHANGED <<local, dmmWriters, parentAll, parentHigh, newest>>

\* A further registration of the same node on the same connection.
ChildReregisters(c) ==
  /\ Receives(c)
  /\ HoldsItsNode(c)
  /\ \E v \in Values :
       /\ registry' = [registry EXCEPT ![nodeId[c]] =
            [@ EXCEPT !.registration = v, !.statusNew = None, !.statusUnchanged = None]]
       /\ ForwardOfNode(c, nodeId[c], "registration", v)
  /\ lastSystem' = [lastSystem EXCEPT ![c] = None]
  /\ Continues(c)
  /\ UNCHANGED <<nodeId, dmmId, dmmWriters, parentAll, parentHigh, newest>>

ChildReportsNew(c) ==
  /\ Receives(c)
  /\ HoldsItsNode(c)
  /\ \E v \in Values :
       /\ lastSystem' = [lastSystem EXCEPT ![c] = v]
       /\ registry' = [registry EXCEPT ![nodeId[c]] =
            [@ EXCEPT !.statusNew = v, !.statusUnchanged = None]]
       /\ ForwardOfNode(c, nodeId[c], "statusNew", v)
  /\ Continues(c)
  /\ UNCHANGED <<nodeId, dmmId, dmmWriters, parentAll, parentHigh, newest>>

\* "Unchanged" is accepted for the system of the last "New" only.
ChildReportsUnchanged(c) ==
  /\ Receives(c)
  /\ HoldsItsNode(c)
  /\ lastSystem[c] # None
  /\ registry' = [registry EXCEPT ![nodeId[c]] =
       [@ EXCEPT !.statusUnchanged = lastSystem[c]]]
  /\ ForwardOfNode(c, nodeId[c], "statusUnchanged", lastSystem[c])
  /\ Continues(c)
  /\ UNCHANGED <<local, dmmWriters, parentAll, parentHigh, newest>>

\* A detection, an alert, a task acknowledgement.
ChildSendsOther(c) ==
  /\ Receives(c)
  /\ HoldsItsNode(c)
  /\ ForwardedTo(c, dmmWriters \cup parentAll)
  /\ Continues(c)
  /\ UNCHANGED <<local, shared, view, newest>>

\* A message that does not parse, another node's id, a message before the
\* registration, an "Unchanged" out of place, or an id taken over by another
\* connection.
Ignores(c) ==
  /\ Receives(c)
  /\ Rejected
  /\ Continues(c)
  /\ UNCHANGED <<local, shared, newest>>

\* A first registration without a node id closes the connection, and so does a
\* message the handler fails on: parse_xml returns one that is not UTF-8 with
\* neither an error nor a parsed content.
ChildFails(c) ==
  /\ Receives(c)
  /\ Rejected
  /\ FatalError(c)
  /\ UNCHANGED <<local, shared, newest>>

-----------------------------------------------------------------------------
(* PeerConnection, ParentConnection, RecorderConnection *)

\* Wrong variant: the lookup does not check that the node is registered.
AddresseeUnchecked(d) ==
  IF d = None THEN {} ELSE {IF registry[d] = None THEN None ELSE registry[d].writer}

\* The child a message addressed to node d goes to: its writer, if registered.
Addressee(d) == IF d = None \/ registry[d] = None THEN {} ELSE {registry[d].writer}

\* Where a peer's message for node d goes: to the child and the forwardAll
\* parents, or without a destination to both kinds of parents.
PeerRecipients(d) ==
  Addressee(d) \cup parentAll \cup (IF d = None THEN parentHigh ELSE {})

\* Forward to the destination, if it is known, and to the parents.
PeerForwards(p) ==
  \E d \in Nodes \cup {None} :
    IF d # None /\ registry[d] = None THEN Rejected    \* unknown node id
    ELSE ForwardedTo(p, PeerRecipients(d)) /\ view' = view

\* A registration: the first one fixes dmm_id, later ones must repeat it.
PeerRegisters(p) ==
  /\ Receives(p)
  /\ \E i \in DmmIds :
       /\ dmmId[p] \in {None, i}
       /\ dmmId' = [dmmId EXCEPT ![p] = i]
  /\ PeerForwards(p)
  /\ Continues(p)
  /\ UNCHANGED <<nodeId, lastSystem, shared, newest>>

\* A registration with another id than the first one.
PeerFails(p) ==
  /\ Receives(p)
  /\ \E i \in DmmIds : dmmId[p] \notin {None, i}
  /\ Rejected
  /\ FatalError(p)
  /\ UNCHANGED <<local, shared, newest>>

\* Any other message, of the registered id if there is one.
PeerSends(p) ==
  /\ Receives(p)
  /\ PeerForwards(p)
  /\ Continues(p)
  /\ UNCHANGED <<local, shared, newest>>

\* Wrong variant: except_writer is compared with the wrong kind of object, as
\* in the code before the patch.
ParentRecipientsReflected(q, d) == Addressee(d) \cup dmmWriters \cup parentAll

\* Where a parent's message for node d goes.
ParentRecipients(q, d) == Addressee(d) \cup dmmWriters \cup (parentAll \ {q})

ParentSends(q) ==
  /\ Receives(q)
  /\ \E d \in Nodes \cup {None} : ForwardedTo(q, ParentRecipients(q, d))
  /\ Continues(q)
  /\ UNCHANGED <<local, shared, view, newest>>

RecorderSends(r) ==
  /\ Receives(r)
  /\ ForwardedTo(r, parentAll)
  /\ Continues(r)
  /\ UNCHANGED <<local, shared, view, newest>>

-----------------------------------------------------------------------------
(* Connections come and go *)

Opens(c) ==
  /\ status[c] = "closed"
  /\ status' = [status EXCEPT ![c] = "open"]
  /\ sent' = Quiet
  /\ UNCHANGED <<local, registry, newest>>

\* Wrong variant: a new subscriber is sent the registrations only.
ReplayRegistrations ==
  [n \in Nodes |->
     IF registry[n] = None THEN None
     ELSE [registration |-> registry[n].registration, statusNew |-> None,
           statusUnchanged |-> None]]

\* What a new subscriber is sent: the registration of every registered node
\* and its latest status reports.
Replay ==
  [n \in Nodes |->
     IF registry[n] = None THEN None
     ELSE [registration |-> registry[n].registration,
           statusNew |-> registry[n].statusNew,
           statusUnchanged |-> registry[n].statusUnchanged]]

ConnectSubscriber(p) ==
  /\ Opens(p)
  /\ view' = [view EXCEPT ![p] = Replay]
  /\ dmmWriters' = IF p \in Peers THEN dmmWriters \cup {p} ELSE dmmWriters
  /\ parentAll' = IF p \in Parents THEN parentAll \cup {p} ELSE parentAll
  /\ UNCHANGED parentHigh

ConnectOther(c) ==
  /\ Opens(c)
  /\ parentHigh' = IF c \in HighParents THEN parentHigh \cup {c} ELSE parentHigh
  /\ UNCHANGED <<view, dmmWriters, parentAll>>

\* The end of file, a failed send or a full buffer cancels the nursery.
StartsClosing(c) ==
  /\ status[c] = "open"
  /\ \E next \in {"draining", "closing"} : status' = [status EXCEPT ![c] = next]
  /\ sent' = Quiet
  /\ UNCHANGED <<local, shared, view, newest>>

\* More than max_data bytes wait for a slow receiver: BufferedWriter drops
\* them and all later ones.  The connection stays open until the send that is
\* under way returns.
BufferOverflows(p) ==
  /\ status[p] # "closed"
  /\ view[p] # Lost
  /\ view' = [view EXCEPT ![p] = Lost]
  /\ sent' = Quiet
  /\ UNCHANGED <<status, local, shared, newest>>

\* Wrong variant: the writer is not compared.
RemainingUnchecked(c) ==
  IF HoldsSomeEntry(c) THEN [registry EXCEPT ![nodeId[c]] = None] ELSE registry

\* handle_closed of a child: only the connection that holds the id removes it.
Remaining(c) == IF HoldsItsNode(c) THEN [registry EXCEPT ![nodeId[c]] = None] ELSE registry

HandleClosed(c) ==
  /\ status[c] = "closing"
  /\ status' = [status EXCEPT ![c] = "closed"]
  /\ IF c \in Children
     THEN /\ registry' = Remaining(c)
          /\ nodeId' = [nodeId EXCEPT ![c] = None]
          /\ lastSystem' = [lastSystem EXCEPT ![c] = None]
          /\ newest' = [n \in Nodes |-> IF newest[n] = c THEN None ELSE newest[n]]
     ELSE UNCHANGED <<registry, nodeId, lastSystem, newest>>
  /\ dmmId' = IF c \in Peers THEN [dmmId EXCEPT ![c] = None] ELSE dmmId
  /\ dmmWriters' = dmmWriters \ {c}
  /\ parentAll' = parentAll \ {c}
  /\ parentHigh' = parentHigh \ {c}
  /\ view' = IF c \in Subscribers THEN [view EXCEPT ![c] = UnknownNodes] ELSE view
  /\ sent' = Quiet

-----------------------------------------------------------------------------
ChildStep(c) ==
  \/ ChildRegisters(c) \/ ChildReregisters(c) \/ ChildReportsNew(c)
  \/ ChildReportsUnchanged(c) \/ ChildSendsOther(c) \/ ChildFails(c)
PeerStep(p) == PeerRegisters(p) \/ PeerSends(p) \/ PeerFails(p)

Next ==
  \/ \E c \in Children : ChildStep(c)
  \/ \E p \in Peers : PeerStep(p)
  \/ \E q \in Parents \cup HighParents : ParentSends(q)
  \/ \E r \in Recorders : RecorderSends(r)
  \/ \E p \in Subscribers : ConnectSubscriber(p) \/ BufferOverflows(p)
  \/ \E c \in Conns \ Subscribers : ConnectOther(c)
  \/ \E c \in Conns : Ignores(c) \/ StartsClosing(c) \/ HandleClosed(c)

Spec == Init /\ [][Next]_vars

-----------------------------------------------------------------------------
(* Properties *)

\* Every variable has the values the code gives it; in particular a message is
\* only ever handed to a connection, never to the missing entry of a node
\* that is not registered (PeerConnection, lines 492-497).
TypeOK ==
  /\ status \in [Conns -> Status]
  /\ nodeId \in [Children -> Nodes \cup {None}]
  /\ lastSystem \in [Children -> Values \cup {None}]
  /\ dmmId \in [Peers -> DmmIds \cup {None}]
  /\ registry \in [Nodes -> SensorInfo \cup {None}]
  /\ dmmWriters \subseteq Peers
  /\ parentAll \subseteq Parents
  /\ parentHigh \subseteq HighParents
  /\ view \in [Subscribers -> View \cup {Lost}]
  /\ newest \in [Nodes -> Children \cup {None}]
  /\ sent \in Sent \cup {Quiet}

\* A node id belongs to the connection that registered it last, until that
\* connection closes: the close of a connection that has lost the id in the
\* meantime does not take the node away (ChildConnection.handle_closed).
NewestHoldsNode ==
  \A n \in Nodes :
    IF registry[n] = None THEN newest[n] = None ELSE registry[n].writer = newest[n]

\* What an entry of the registry records of its node.
Stored(e) == [registration |-> e.registration, statusNew |-> e.statusNew,
              statusUnchanged |-> e.statusUnchanged]

\* Whether it joined before or after the node's messages, every DMM and every
\* forwardAll parent has been handed exactly the registration and the latest
\* status reports the registry records: the replay of the constructors and
\* the forwarding of the handlers agree.
ViewsAgree ==
  \A p \in Subscribers, n \in Nodes :
    status[p] # "closed" /\ view[p] # Lost /\ registry[n] # None
      => view[p][n] = Stored(registry[n])

\* A receiver is never told "Unchanged" of a node without the "New" report it
\* repeats, not even by a replay after registrations, hijacks and reconnects.
UnchangedFollowsNew ==
  \A n \in Nodes :
    registry[n] # None /\ registry[n].statusUnchanged # None
      => registry[n].statusNew = registry[n].statusUnchanged

\* Only the newest registration of an id is heard: a connection whose id was
\* taken over is never forwarded again, even while both are open.
OnlyNewestForwarded ==
  sent # Quiet /\ sent.from \in Children
    => \E n \in Nodes : nodeId[sent.from] = n /\ newest[n] = sent.from

\* No message comes back to the connection it came from: the upstream parent
\* does not get its own acknowledgements reflected.
NoReflection == sent # Quiet => sent.from \notin sent.to

\* The docstring of RecorderConnection: the messages of a recorder are only
\* stored, not handled in any other way.
RecorderOnlyRecords == sent # Quiet => sent.from \notin Recorders \/ sent.to = {}

=============================================================================
