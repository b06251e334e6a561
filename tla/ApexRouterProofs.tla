--------------------------- MODULE ApexRouterProofs ---------------------------
(***************************************************************************)
(* Theorems about ApexRouter, for any number of connections of each role,  *)
(* node ids and contents.                                                  *)
(***************************************************************************)
EXTENDS ApexRouter, TLAPS

\* What a receiver knows of a node stays well-typed.
LEMMA LearnsType ==
  ASSUME NEW k \in Known \cup {None}, NEW v \in Values,
         NEW kind \in {"registration", "statusNew", "statusUnchanged"}
  PROVE  Learns(k, kind, v) \in Known \cup {None}
<1>1. kind = "registration" => Learns(k, kind, v) \in Known
  BY DEF Learns, Known
<1>2. CASE k = None
  BY <1>1, <1>2 DEF Learns
<1>3. CASE k # None
  <2>1. k \in Known
    BY <1>3
  <2>. QED
    BY <1>1, <1>3, <2>1 DEF Learns, Known
<1>. QED
  BY <1>2, <1>3

LEMMA ForwardOfNodeType ==
  ASSUME TypeOK, NEW c \in Children, NEW n \in Nodes, NEW v \in Values,
         NEW kind \in {"registration", "statusNew", "statusUnchanged"},
         ForwardOfNode(c, n, kind, v)
  PROVE  view' \in [Subscribers -> View \cup {Lost}] /\ sent' \in Sent
<1>1. dmmWriters \cup parentAll \in SUBSET Conns /\ c \in Conns
  BY DEF TypeOK, Conns
<1>2. sent' \in Sent
  BY <1>1 DEF ForwardOfNode, ForwardedTo, Sent
<1>3. ASSUME NEW p \in Subscribers, view[p] # Lost
      PROVE  [view[p] EXCEPT ![n] = Learns(@, kind, v)] \in View
  <2>1. view[p] \in View
    BY <1>3 DEF TypeOK
  <2>2. view[p][n] \in Known \cup {None}
    BY <2>1 DEF View
  <2>. QED
    BY <2>1, <2>2, LearnsType DEF View
<1>4. \A p \in Subscribers : view[p] \in View \cup {Lost}
  BY DEF TypeOK
<1>. QED
  BY <1>2, <1>3, <1>4 DEF ForwardOfNode

LEMMA StatusType ==
  ASSUME TypeOK, NEW c \in Conns, Continues(c) \/ FatalError(c)
  PROVE  status' \in [Conns -> Status]
  BY DEF TypeOK, Continues, FatalError, Status

LEMMA HoldsType ==
  ASSUME TypeOK, NEW c \in Children, HoldsItsNode(c)
  PROVE  /\ nodeId[c] \in Nodes
         /\ registry[nodeId[c]] \in SensorInfo
         /\ registry[nodeId[c]].writer = c
  BY DEF TypeOK, HoldsItsNode

\* The entry of a node after a registration or a status report.
LEMMA EntryType ==
  ASSUME NEW s \in SensorInfo, NEW v \in Values
  PROVE  /\ [s EXCEPT !.registration = v, !.statusNew = None, !.statusUnchanged = None]
              \in SensorInfo
         /\ [s EXCEPT !.statusNew = v, !.statusUnchanged = None] \in SensorInfo
         /\ [s EXCEPT !.statusUnchanged = v] \in SensorInfo
  BY DEF SensorInfo

LEMMA ChildStepType ==
  ASSUME TypeOK, NEW c \in Children, ChildStep(c)
  PROVE  TypeOK'
<1>. c \in Conns
  BY DEF Conns
<1>1. CASE ChildRegisters(c)
  <2>1. PICK n \in Nodes, v \in Values :
          /\ nodeId' = [nodeId EXCEPT ![c] = n]
          /\ registry' = [registry EXCEPT ![n] =
               [writer |-> c, registration |-> v, statusNew |-> None,
                statusUnchanged |-> None]]
          /\ newest' = [newest EXCEPT ![n] = c]
          /\ ForwardOfNode(c, n, "registration", v)
    BY <1>1 DEF ChildRegisters
  <2>2. status' \in [Conns -> Status]
    BY <1>1, StatusType DEF ChildRegisters
  <2>3. view' \in [Subscribers -> View \cup {Lost}] /\ sent' \in Sent
    BY <2>1, ForwardOfNodeType
  <2>4. registry' \in [Nodes -> SensorInfo \cup {None}]
    BY <2>1 DEF TypeOK, SensorInfo
  <2>. QED
    BY <1>1, <2>1, <2>2, <2>3, <2>4 DEF TypeOK, ChildRegisters
<1>2. CASE ChildReregisters(c)
  <2>1. PICK v \in Values :
          /\ registry' = [registry EXCEPT ![nodeId[c]] =
               [@ EXCEPT !.registration = v, !.statusNew = None, !.statusUnchanged = None]]
          /\ ForwardOfNode(c, nodeId[c], "registration", v)
    BY <1>2 DEF ChildReregisters
  <2>2. nodeId[c] \in Nodes /\ registry[nodeId[c]] \in SensorInfo
    BY <1>2, HoldsType DEF ChildReregisters
  <2>3. view' \in [Subscribers -> View \cup {Lost}] /\ sent' \in Sent
    BY <2>1, <2>2, ForwardOfNodeType
  <2>4. registry' \in [Nodes -> SensorInfo \cup {None}]
    BY <2>1, <2>2, EntryType DEF TypeOK
  <2>5. status' \in [Conns -> Status]
    BY <1>2, StatusType DEF ChildReregisters
  <2>. QED
    BY <1>2, <2>3, <2>4, <2>5 DEF TypeOK, ChildReregisters
<1>3. CASE ChildReportsNew(c)
  <2>1. PICK v \in Values :
          /\ lastSystem' = [lastSystem EXCEPT ![c] = v]
          /\ registry' = [registry EXCEPT ![nodeId[c]] =
               [@ EXCEPT !.statusNew = v, !.statusUnchanged = None]]
          /\ ForwardOfNode(c, nodeId[c], "statusNew", v)
    BY <1>3 DEF ChildReportsNew
  <2>2. nodeId[c] \in Nodes /\ registry[nodeId[c]] \in SensorInfo
    BY <1>3, HoldsType DEF ChildReportsNew
  <2>3. view' \in [Subscribers -> View \cup {Lost}] /\ sent' \in Sent
    BY <2>1, <2>2, ForwardOfNodeType
  <2>4. registry' \in [Nodes -> SensorInfo \cup {None}]
    BY <2>1, <2>2, EntryType DEF TypeOK
  <2>5. status' \in [Conns -> Status]
    BY <1>3, StatusType DEF ChildReportsNew
  <2>. QED
    BY <1>3, <2>1, <2>3, <2>4, <2>5 DEF TypeOK, ChildReportsNew
<1>4. CASE ChildReportsUnchanged(c)
  <2>1. lastSystem[c] \in Values
    BY <1>4 DEF TypeOK, ChildReportsUnchanged
  <2>2. nodeId[c] \in Nodes /\ registry[nodeId[c]] \in SensorInfo
    BY <1>4, HoldsType DEF ChildReportsUnchanged
  <2>3. view' \in [Subscribers -> View \cup {Lost}] /\ sent' \in Sent
    BY <1>4, <2>1, <2>2, ForwardOfNodeType DEF ChildReportsUnchanged
  <2>4. registry' \in [Nodes -> SensorInfo \cup {None}]
    BY <1>4, <2>1, <2>2, EntryType DEF TypeOK, ChildReportsUnchanged
  <2>5. status' \in [Conns -> Status]
    BY <1>4, StatusType DEF ChildReportsUnchanged
  <2>. QED
    BY <1>4, <2>3, <2>4, <2>5 DEF TypeOK, ChildReportsUnchanged, local
<1>5. CASE ChildSendsOther(c)
  <2>1. sent' \in Sent
    BY <1>5 DEF ChildSendsOther, ForwardedTo, Sent, TypeOK, Conns
  <2>2. status' \in [Conns -> Status]
    BY <1>5, StatusType DEF ChildSendsOther
  <2>. QED
    BY <1>5, <2>1, <2>2 DEF TypeOK, ChildSendsOther, local, shared
<1>6. CASE ChildFails(c)
  <2>1. status' \in [Conns -> Status]
    BY <1>6, StatusType DEF ChildFails
  <2>. QED
    BY <1>6, <2>1 DEF TypeOK, ChildFails, local, shared, Rejected
<1>. QED
  BY <1>1, <1>2, <1>3, <1>4, <1>5, <1>6 DEF ChildStep

\* Messages are forwarded to connections, whatever their destination.
LEMMA RecipientsType ==
  ASSUME TypeOK, NEW d \in Nodes \cup {None}, NEW q
  PROVE  /\ Addressee(d) \subseteq Children
         /\ PeerRecipients(d) \subseteq Conns
         /\ ParentRecipients(q, d) \subseteq Conns
<1>1. Addressee(d) \subseteq Children
  <2>1. CASE d = None \/ registry[d] = None
    BY <2>1 DEF Addressee
  <2>2. CASE d \in Nodes /\ registry[d] \in SensorInfo
    BY <2>2 DEF Addressee, SensorInfo
  <2>. QED
    BY <2>1, <2>2 DEF TypeOK
<1>. QED
  BY <1>1 DEF TypeOK, PeerRecipients, ParentRecipients, Conns

LEMMA PeerForwardsType ==
  ASSUME TypeOK, NEW p \in Peers, PeerForwards(p)
  PROVE  sent' \in Sent \cup {Quiet} /\ view' = view
<1>1. PICK d \in Nodes \cup {None} :
        IF d # None /\ registry[d] = None THEN Rejected
        ELSE ForwardedTo(p, PeerRecipients(d)) /\ view' = view
  BY DEF PeerForwards
<1>2. PeerRecipients(d) \subseteq Conns /\ p \in Conns
  BY RecipientsType DEF Conns
<1>. QED
  BY <1>1, <1>2 DEF Rejected, ForwardedTo, Sent

LEMMA PeerStepType ==
  ASSUME TypeOK, NEW p \in Peers, PeerStep(p)
  PROVE  TypeOK'
<1>. p \in Conns
  BY DEF Conns
<1>1. CASE PeerRegisters(p)
  <2>1. status' \in [Conns -> Status] /\ sent' \in Sent \cup {Quiet} /\ view' = view
    BY <1>1, StatusType, PeerForwardsType DEF PeerRegisters
  <2>2. dmmId' \in [Peers -> DmmIds \cup {None}]
    BY <1>1 DEF PeerRegisters, TypeOK
  <2>. QED
    BY <1>1, <2>1, <2>2 DEF TypeOK, PeerRegisters, shared
<1>2. CASE PeerSends(p)
  <2>1. status' \in [Conns -> Status] /\ sent' \in Sent \cup {Quiet} /\ view' = view
    BY <1>2, StatusType, PeerForwardsType DEF PeerSends
  <2>. QED
    BY <1>2, <2>1 DEF TypeOK, PeerSends, local, shared
<1>3. CASE PeerFails(p)
  <2>1. status' \in [Conns -> Status]
    BY <1>3, StatusType DEF PeerFails
  <2>. QED
    BY <1>3, <2>1 DEF TypeOK, PeerFails, local, shared, Rejected
<1>. QED
  BY <1>1, <1>2, <1>3 DEF PeerStep

LEMMA OtherStepType ==
  ASSUME TypeOK,
         \/ \E q \in Parents \cup HighParents : ParentSends(q)
         \/ \E r \in Recorders : RecorderSends(r)
         \/ \E c \in Conns : Ignores(c) \/ StartsClosing(c)
         \/ \E p \in Subscribers : BufferOverflows(p)
  PROVE  TypeOK'
<1>1. CASE \E q \in Parents \cup HighParents : ParentSends(q)
  <2>1. PICK q \in Parents \cup HighParents : ParentSends(q)
    BY <1>1
  <2>2. PICK d \in Nodes \cup {None} : ForwardedTo(q, ParentRecipients(q, d))
    BY <2>1 DEF ParentSends
  <2>3. q \in Conns /\ ParentRecipients(q, d) \subseteq Conns
    BY RecipientsType DEF Conns
  <2>4. sent' \in Sent
    BY <2>2, <2>3 DEF ForwardedTo, Sent
  <2>5. status' \in [Conns -> Status]
    BY <2>1, <2>3, StatusType DEF ParentSends
  <2>. QED
    BY <2>1, <2>4, <2>5 DEF TypeOK, ParentSends, local, shared
<1>2. CASE \E r \in Recorders : RecorderSends(r)
  <2>1. PICK r \in Recorders : RecorderSends(r)
    BY <1>2
  <2>2. r \in Conns /\ parentAll \subseteq Conns
    BY DEF Conns, TypeOK
  <2>3. sent' \in Sent
    BY <2>1, <2>2 DEF RecorderSends, ForwardedTo, Sent
  <2>4. status' \in [Conns -> Status]
    BY <2>1, <2>2, StatusType DEF RecorderSends
  <2>. QED
    BY <2>1, <2>3, <2>4 DEF TypeOK, RecorderSends, local, shared
<1>3. CASE \E c \in Conns : Ignores(c)
  <2>1. PICK c \in Conns : Ignores(c)
    BY <1>3
  <2>2. status' \in [Conns -> Status]
    BY <2>1, StatusType DEF Ignores
  <2>. QED
    BY <2>1, <2>2 DEF TypeOK, Ignores, Rejected, local, shared
<1>4. CASE \E c \in Conns : StartsClosing(c)
  BY <1>4 DEF TypeOK, StartsClosing, Status, local, shared
<1>5. CASE \E p \in Subscribers : BufferOverflows(p)
  BY <1>5 DEF TypeOK, BufferOverflows, local, shared
<1>. QED
  BY <1>1, <1>2, <1>3, <1>4, <1>5

LEMMA ReplayType == ASSUME TypeOK PROVE Replay \in View
<1>1. ASSUME NEW n \in Nodes, registry[n] # None
      PROVE  [registration |-> registry[n].registration,
              statusNew |-> registry[n].statusNew,
              statusUnchanged |-> registry[n].statusUnchanged] \in Known
  <2>1. registry[n] \in SensorInfo
    BY <1>1 DEF TypeOK
  <2>. QED
    BY <2>1 DEF SensorInfo, Known
<1>. QED
  BY <1>1 DEF Replay, View

LEMMA ConnectType ==
  ASSUME TypeOK,
         \/ \E p \in Subscribers : ConnectSubscriber(p)
         \/ \E c \in Conns \ Subscribers : ConnectOther(c)
  PROVE  TypeOK'
<1>1. CASE \E p \in Subscribers : ConnectSubscriber(p)
  <2>1. PICK p \in Subscribers : ConnectSubscriber(p)
    BY <1>1
  <2>2. status' \in [Conns -> Status]
    BY <2>1 DEF ConnectSubscriber, Opens, TypeOK, Status, Conns, Subscribers
  <2>3. view' \in [Subscribers -> View \cup {Lost}]
    BY <2>1, ReplayType DEF ConnectSubscriber, TypeOK
  <2>. QED
    BY <2>1, <2>2, <2>3 DEF ConnectSubscriber, Opens, TypeOK, local
<1>2. CASE \E c \in Conns \ Subscribers : ConnectOther(c)
  BY <1>2 DEF ConnectOther, Opens, TypeOK, Status, local
<1>. QED
  BY <1>1, <1>2

LEMMA HandleClosedType ==
  ASSUME TypeOK, NEW c \in Conns, HandleClosed(c)
  PROVE  TypeOK'
<1>1. UnknownNodes \in View
  BY DEF UnknownNodes, View
<1>2. registry' \in [Nodes -> SensorInfo \cup {None}]
  BY DEF HandleClosed, Remaining, TypeOK
<1>3. newest' \in [Nodes -> Children \cup {None}]
  BY DEF HandleClosed, TypeOK
<1>4. /\ nodeId' \in [Children -> Nodes \cup {None}]
      /\ lastSystem' \in [Children -> Values \cup {None}]
      /\ dmmId' \in [Peers -> DmmIds \cup {None}]
  BY DEF HandleClosed, TypeOK
<1>5. view' \in [Subscribers -> View \cup {Lost}]
  BY <1>1 DEF HandleClosed, TypeOK
<1>6. status' \in [Conns -> Status]
  BY DEF HandleClosed, TypeOK, Status
<1>. QED
  BY <1>2, <1>3, <1>4, <1>5, <1>6 DEF HandleClosed, TypeOK

\* Every variable keeps its type; messages only ever go to connections.
THEOREM RouterTypeCorrect == Spec => []TypeOK
<1>1. Init => TypeOK
  BY DEF Init, TypeOK, Status, View, UnknownNodes
<1>2. TypeOK /\ [Next]_vars => TypeOK'
  <2>. SUFFICES ASSUME TypeOK, [Next]_vars PROVE TypeOK'
    OBVIOUS
  <2>1. CASE \E c \in Children : ChildStep(c)
    BY <2>1, ChildStepType
  <2>2. CASE \E p \in Peers : PeerStep(p)
    BY <2>2, PeerStepType
  <2>3. CASE \/ \E q \in Parents \cup HighParents : ParentSends(q)
             \/ \E r \in Recorders : RecorderSends(r)
             \/ \E c \in Conns : Ignores(c) \/ StartsClosing(c)
             \/ \E p \in Subscribers : BufferOverflows(p)
    BY <2>3, OtherStepType
  <2>4. CASE \/ \E p \in Subscribers : ConnectSubscriber(p)
             \/ \E c \in Conns \ Subscribers : ConnectOther(c)
    BY <2>4, ConnectType
  <2>5. CASE \E c \in Conns : HandleClosed(c)
    BY <2>5, HandleClosedType
  <2>6. CASE UNCHANGED vars
    BY <2>6 DEF vars, TypeOK
  <2>. QED
    BY <2>1, <2>2, <2>3, <2>4, <2>5, <2>6 DEF Next
<1>. QED
  BY <1>1, <1>2, PTL DEF Spec

-----------------------------------------------------------------------------
(* Who holds a node id.  NewestHoldsNode is not inductive by itself: that   *)
(* the entry is removed when its connection closes needs that a connection *)
(* holds only the id it registered; that "Unchanged" follows "New" needs    *)
(* that last_status_report_system agrees with the stored report.           *)

HoldersAreOpen ==
  \A n \in Nodes : newest[n] # None =>
    nodeId[newest[n]] = n /\ status[newest[n]] # "closed"
SystemIsStored ==
  \A n \in Nodes : registry[n] # None =>
    lastSystem[registry[n].writer] = registry[n].statusNew
NoSystemBeforeRegistration ==
  \A c \in Children : nodeId[c] = None => lastSystem[c] = None

HolderInv ==
  /\ HoldersAreOpen
  /\ NewestHoldsNode
  /\ SystemIsStored
  /\ NoSystemBeforeRegistration
  /\ UnchangedFollowsNew

LEMMA HolderInvInit == Init => HolderInv
  BY DEF Init, HolderInv, HoldersAreOpen, NewestHoldsNode, SystemIsStored,
         NoSystemBeforeRegistration, UnchangedFollowsNew

\* A step that leaves the registry and the children alone and closes nobody.
LEMMA HolderUndisturbed ==
  ASSUME TypeOK, HolderInv, UNCHANGED <<nodeId, lastSystem, registry, newest>>,
         \A c \in Conns : status'[c] = "closed" => status[c] = "closed"
  PROVE  HolderInv'
<1>1. HoldersAreOpen'
  BY DEF HolderInv, HoldersAreOpen, TypeOK, Conns
<1>2. NewestHoldsNode' /\ SystemIsStored' /\ NoSystemBeforeRegistration' /\ UnchangedFollowsNew'
  BY DEF HolderInv, NewestHoldsNode, SystemIsStored, NoSystemBeforeRegistration,
         UnchangedFollowsNew
<1>. QED
  BY <1>1, <1>2 DEF HolderInv

\* Handling a message closes nobody.
LEMMA HandlingClosesNobody ==
  ASSUME TypeOK, NEW c \in Conns, Continues(c) \/ FatalError(c)
  PROVE  \A d \in Conns : status'[d] = "closed" => status[d] = "closed"
  BY DEF TypeOK, Continues, FatalError

\* A connection updates the entry of the node it holds.
LEMMA HolderUpdates ==
  ASSUME TypeOK, HolderInv, NEW c \in Children, HoldsItsNode(c), Continues(c),
         NEW e \in SensorInfo, e.writer = c,
         e.statusUnchanged \in {None, e.statusNew},
         registry' = [registry EXCEPT ![nodeId[c]] = e],
         lastSystem' = [lastSystem EXCEPT ![c] = e.statusNew],
         UNCHANGED <<nodeId, newest>>
  PROVE  HolderInv'
<1>1. nodeId[c] \in Nodes /\ registry[nodeId[c]] \in SensorInfo
      /\ registry[nodeId[c]].writer = c
  BY HoldsType
<1>2. registry'[nodeId[c]] = e /\ e # None
  BY <1>1, NoneAssumption DEF TypeOK
<1>3. \A n \in Nodes \ {nodeId[c]} : registry'[n] = registry[n]
  BY DEF TypeOK
<1>4. HoldersAreOpen'
  <2>1. \A d \in Conns : status'[d] = "closed" => status[d] = "closed"
    BY HandlingClosesNobody DEF Conns
  <2>. QED
    BY <2>1 DEF HolderInv, HoldersAreOpen, TypeOK, Conns
<1>5. NewestHoldsNode'
  <2>1. newest[nodeId[c]] = c
    BY <1>1 DEF HolderInv, NewestHoldsNode, HoldsItsNode
  <2>. QED
    BY <1>2, <1>3, <2>1 DEF HolderInv, NewestHoldsNode
<1>6. SystemIsStored'
  <2>1. ASSUME NEW n \in Nodes \ {nodeId[c]}, registry[n] # None
        PROVE  registry[n].writer \in Children \ {c}
    <3>1. registry[n] \in SensorInfo /\ registry[n].writer = newest[n]
      BY <2>1 DEF HolderInv, NewestHoldsNode, TypeOK
    <3>2. newest[n] \in Children /\ newest[n] # None
      BY <3>1, RolesAssumption DEF SensorInfo, Conns
    <3>. QED
      BY <3>1, <3>2 DEF HolderInv, HoldersAreOpen
  <2>. QED
    BY <1>2, <1>3, <2>1 DEF HolderInv, SystemIsStored, TypeOK
<1>7. NoSystemBeforeRegistration'
  BY <1>1, RolesAssumption DEF HolderInv, NoSystemBeforeRegistration, TypeOK
<1>8. UnchangedFollowsNew'
  BY <1>2, <1>3 DEF HolderInv, UnchangedFollowsNew
<1>. QED
  BY <1>4, <1>5, <1>6, <1>7, <1>8 DEF HolderInv

\* A first registration takes the id over from whoever held it.
LEMMA HolderRegisters ==
  ASSUME TypeOK, HolderInv, NEW c \in Children, ChildRegisters(c)
  PROVE  HolderInv'
<1>1. PICK n \in Nodes, v \in Values :
        /\ nodeId' = [nodeId EXCEPT ![c] = n]
        /\ registry' = [registry EXCEPT ![n] =
             [writer |-> c, registration |-> v, statusNew |-> None,
              statusUnchanged |-> None]]
        /\ newest' = [newest EXCEPT ![n] = c]
  BY DEF ChildRegisters
<1>2. nodeId[c] = None /\ lastSystem' = lastSystem /\ lastSystem[c] = None
  BY DEF ChildRegisters, HolderInv, NoSystemBeforeRegistration
<1>3. \A m \in Nodes \ {n} : newest[m] # c /\ newest'[m] = newest[m] /\ registry'[m] = registry[m]
  BY <1>1, <1>2, RolesAssumption DEF HolderInv, HoldersAreOpen, TypeOK, Conns
<1>4. /\ registry'[n] = [writer |-> c, registration |-> v, statusNew |-> None,
                         statusUnchanged |-> None]
      /\ newest'[n] = c /\ nodeId'[c] = n
  BY <1>1 DEF TypeOK
<1>5. registry'[n] # None /\ n # None /\ c # None
  BY <1>4, NoneAssumption, RolesAssumption DEF SensorInfo, Conns
<1>6. HoldersAreOpen'
  <2>1. \A d \in Conns : status'[d] = "closed" => status[d] = "closed"
    BY HandlingClosesNobody DEF ChildRegisters, Conns
  <2>2. status[c] # "closed"
    BY DEF ChildRegisters, Receives
  <2>. QED
    BY <1>1, <1>3, <1>4, <2>1, <2>2 DEF HolderInv, HoldersAreOpen, TypeOK, Conns
<1>7. NewestHoldsNode'
  BY <1>3, <1>4, <1>5 DEF HolderInv, NewestHoldsNode
<1>8. SystemIsStored'
  BY <1>2, <1>3, <1>4 DEF HolderInv, SystemIsStored
<1>9. NoSystemBeforeRegistration'
  BY <1>1, <1>2, <1>5 DEF HolderInv, NoSystemBeforeRegistration, TypeOK
<1>10. UnchangedFollowsNew'
  BY <1>3, <1>4 DEF HolderInv, UnchangedFollowsNew
<1>. QED
  BY <1>6, <1>7, <1>8, <1>9, <1>10 DEF HolderInv

\* A connection that closes gives up the id it holds, and no other.
LEMMA HolderCloses ==
  ASSUME TypeOK, HolderInv, NEW c \in Conns, HandleClosed(c)
  PROVE  HolderInv'
<1>1. CASE c \notin Children
  <2>1. /\ UNCHANGED <<registry, nodeId, lastSystem, newest>>
        /\ \A d \in Conns \ {c} : status'[d] = status[d]
    BY <1>1 DEF HandleClosed, TypeOK
  <2>2. HoldersAreOpen'
    BY <1>1, <2>1, RolesAssumption DEF HolderInv, HoldersAreOpen, TypeOK, Conns
  <2>. QED
    BY <2>1, <2>2 DEF HolderInv, NewestHoldsNode, SystemIsStored,
       NoSystemBeforeRegistration, UnchangedFollowsNew
<1>2. CASE c \in Children
  <2>1. /\ registry' = Remaining(c)
        /\ nodeId' = [nodeId EXCEPT ![c] = None]
        /\ lastSystem' = [lastSystem EXCEPT ![c] = None]
        /\ newest' = [n \in Nodes |-> IF newest[n] = c THEN None ELSE newest[n]]
        /\ status' = [status EXCEPT ![c] = "closed"]
    BY <1>2 DEF HandleClosed
  <2>2. c # None
    BY RolesAssumption
  <2>3. ASSUME NEW n \in Nodes, newest[n] = c
        PROVE  registry'[n] = None /\ newest'[n] = None
    <3>1. nodeId[c] = n /\ n # None
      BY <2>2, <2>3, RolesAssumption DEF HolderInv, HoldersAreOpen
    <3>2. registry[n] # None /\ registry[n].writer = c
      BY <2>2, <2>3 DEF HolderInv, NewestHoldsNode
    <3>3. HoldsItsNode(c)
      BY <3>1, <3>2 DEF HoldsItsNode
    <3>. QED
      BY <2>1, <2>3, <3>1, <3>3 DEF Remaining, TypeOK
  <2>4. ASSUME NEW n \in Nodes, newest[n] # c
        PROVE  registry'[n] = registry[n] /\ newest'[n] = newest[n]
    <3>1. ~(registry[n] # None /\ registry[n].writer = c)
      BY <2>2, <2>4 DEF HolderInv, NewestHoldsNode
    <3>2. HoldsItsNode(c) => nodeId[c] # n
      BY <3>1 DEF HoldsItsNode
    <3>. QED
      BY <2>1, <2>4, <3>2 DEF Remaining, TypeOK
  <2>5. HoldersAreOpen'
    BY <2>1, <2>3, <2>4 DEF HolderInv, HoldersAreOpen, TypeOK, Conns
  <2>6. NewestHoldsNode'
    BY <2>3, <2>4 DEF HolderInv, NewestHoldsNode
  <2>7. SystemIsStored'
    <3>1. ASSUME NEW n \in Nodes, registry'[n] # None
          PROVE  registry'[n] = registry[n] /\ registry[n].writer # c
      BY <2>3, <2>4, <3>1 DEF HolderInv, NewestHoldsNode
    <3>2. ASSUME NEW n \in Nodes, registry'[n] # None
          PROVE  registry[n].writer \in Children
      <4>1. registry[n] \in SensorInfo
        BY <3>1, <3>2 DEF TypeOK
      <4>. QED
        BY <4>1 DEF SensorInfo
    <3>. QED
      BY <2>1, <3>1, <3>2 DEF HolderInv, SystemIsStored, TypeOK
  <2>8. NoSystemBeforeRegistration'
    BY <2>1 DEF HolderInv, NoSystemBeforeRegistration, TypeOK
  <2>9. UnchangedFollowsNew'
    BY <2>3, <2>4 DEF HolderInv, UnchangedFollowsNew
  <2>. QED
    BY <2>5, <2>6, <2>7, <2>8, <2>9 DEF HolderInv
<1>. QED
  BY <1>1, <1>2

LEMMA HolderChildStep ==
  ASSUME TypeOK, HolderInv, NEW c \in Children, ChildStep(c)
  PROVE  HolderInv'
<1>. c \in Conns
  BY DEF Conns
<1>1. CASE ChildRegisters(c)
  BY <1>1, HolderRegisters
<1>2. CASE ChildReregisters(c)
  <2>1. PICK v \in Values : registry' = [registry EXCEPT ![nodeId[c]] =
          [@ EXCEPT !.registration = v, !.statusNew = None, !.statusUnchanged = None]]
    BY <1>2 DEF ChildReregisters
  <2>2. nodeId[c] \in Nodes /\ registry[nodeId[c]] \in SensorInfo
        /\ registry[nodeId[c]].writer = c
    BY <1>2, HoldsType DEF ChildReregisters
  <2>. DEFINE e == [registry[nodeId[c]] EXCEPT
                      !.registration = v, !.statusNew = None, !.statusUnchanged = None]
  <2>3. e \in SensorInfo
    BY <2>2, EntryType
  <2>4. e.writer = c /\ e.statusNew = None /\ e.statusUnchanged = None
    BY <2>2 DEF SensorInfo
  <2>5. registry' = [registry EXCEPT ![nodeId[c]] = e]
    BY <2>1
  <2>. HIDE DEF e
  <2>. QED
    BY <1>2, <2>3, <2>4, <2>5, HolderUpdates DEF ChildReregisters
<1>3. CASE ChildReportsNew(c)
  <2>1. PICK v \in Values :
          /\ lastSystem' = [lastSystem EXCEPT ![c] = v]
          /\ registry' = [registry EXCEPT ![nodeId[c]] =
               [@ EXCEPT !.statusNew = v, !.statusUnchanged = None]]
    BY <1>3 DEF ChildReportsNew
  <2>2. nodeId[c] \in Nodes /\ registry[nodeId[c]] \in SensorInfo
        /\ registry[nodeId[c]].writer = c
    BY <1>3, HoldsType DEF ChildReportsNew
  <2>. DEFINE e == [registry[nodeId[c]] EXCEPT !.statusNew = v, !.statusUnchanged = None]
  <2>3. e \in SensorInfo
    BY <2>2, EntryType
  <2>4. e.writer = c /\ e.statusNew = v /\ e.statusUnchanged = None
    BY <2>2 DEF SensorInfo
  <2>5. registry' = [registry EXCEPT ![nodeId[c]] = e]
    BY <2>1
  <2>. HIDE DEF e
  <2>. QED
    BY <1>3, <2>1, <2>3, <2>4, <2>5, HolderUpdates DEF ChildReportsNew
<1>4. CASE ChildReportsUnchanged(c)
  <2>1. nodeId[c] \in Nodes /\ registry[nodeId[c]] \in SensorInfo
        /\ registry[nodeId[c]].writer = c
    BY <1>4, HoldsType DEF ChildReportsUnchanged
  <2>2. lastSystem[c] = registry[nodeId[c]].statusNew /\ lastSystem[c] \in Values
    BY <1>4, <2>1, NoneAssumption
    DEF HolderInv, SystemIsStored, ChildReportsUnchanged, TypeOK
  <2>. DEFINE e == [registry[nodeId[c]] EXCEPT !.statusUnchanged = lastSystem[c]]
  <2>3. e \in SensorInfo
    BY <2>1, <2>2, EntryType
  <2>4. e.writer = c /\ e.statusNew = lastSystem[c] /\ e.statusUnchanged = lastSystem[c]
    BY <2>1, <2>2 DEF SensorInfo
  <2>5. registry' = [registry EXCEPT ![nodeId[c]] = e]
    BY <1>4 DEF ChildReportsUnchanged
  <2>. HIDE DEF e
  <2>6. lastSystem' = [lastSystem EXCEPT ![c] = e.statusNew]
    BY <1>4, <2>4 DEF ChildReportsUnchanged, TypeOK, local
  <2>. QED
    BY <1>4, <2>3, <2>4, <2>5, <2>6, HolderUpdates DEF ChildReportsUnchanged, local
<1>5. CASE ChildSendsOther(c) \/ ChildFails(c)
  <2>1. UNCHANGED <<nodeId, lastSystem, registry, newest>>
        /\ (Continues(c) \/ FatalError(c))
    BY <1>5 DEF ChildSendsOther, ChildFails, local, shared
  <2>. QED
    BY <2>1, HandlingClosesNobody, HolderUndisturbed
<1>. QED
  BY <1>1, <1>2, <1>3, <1>4, <1>5 DEF ChildStep

\* The other steps leave the registry alone.
LEMMA HolderOtherSteps ==
  ASSUME TypeOK, HolderInv,
         \/ \E p \in Peers : PeerStep(p)
         \/ \E q \in Parents \cup HighParents : ParentSends(q)
         \/ \E r \in Recorders : RecorderSends(r)
         \/ \E p \in Subscribers : ConnectSubscriber(p) \/ BufferOverflows(p)
         \/ \E c \in Conns \ Subscribers : ConnectOther(c)
         \/ \E c \in Conns : Ignores(c) \/ StartsClosing(c)
  PROVE  HolderInv'
<1>1. UNCHANGED <<nodeId, lastSystem, registry, newest>>
  BY DEF PeerStep, PeerRegisters, PeerSends, PeerFails, ParentSends, RecorderSends,
         ConnectSubscriber, ConnectOther, Opens, BufferOverflows, Ignores,
         StartsClosing, local, shared
<1>2. \A c \in Conns : status'[c] = "closed" => status[c] = "closed"
  <2>1. CASE \/ \E p \in Peers : PeerStep(p)
             \/ \E q \in Parents \cup HighParents : ParentSends(q)
             \/ \E r \in Recorders : RecorderSends(r)
             \/ \E c \in Conns : Ignores(c)
    <3>1. PICK c \in Conns : Continues(c) \/ FatalError(c)
      BY <2>1 DEF PeerStep, PeerRegisters, PeerSends, PeerFails, ParentSends,
                  RecorderSends, Ignores, Conns
    <3>. QED
      BY <3>1, HandlingClosesNobody
  <2>2. CASE \/ \E p \in Subscribers : ConnectSubscriber(p)
             \/ \E c \in Conns \ Subscribers : ConnectOther(c)
             \/ \E c \in Conns : StartsClosing(c)
    BY <2>2 DEF ConnectSubscriber, ConnectOther, Opens, StartsClosing, TypeOK
  <2>3. CASE \E p \in Subscribers : BufferOverflows(p)
    BY <2>3 DEF BufferOverflows
  <2>. QED
    BY <2>1, <2>2, <2>3
<1>. QED
  BY <1>1, <1>2, HolderUndisturbed

LEMMA HolderInvNext == TypeOK /\ HolderInv /\ [Next]_vars => HolderInv'
<1>. SUFFICES ASSUME TypeOK, HolderInv, [Next]_vars PROVE HolderInv'
  OBVIOUS
<1>1. CASE \E c \in Children : ChildStep(c)
  BY <1>1, HolderChildStep
<1>2. CASE \E c \in Conns : HandleClosed(c)
  BY <1>2, HolderCloses
<1>3. CASE \/ \E p \in Peers : PeerStep(p)
           \/ \E q \in Parents \cup HighParents : ParentSends(q)
           \/ \E r \in Recorders : RecorderSends(r)
           \/ \E p \in Subscribers : ConnectSubscriber(p) \/ BufferOverflows(p)
           \/ \E c \in Conns \ Subscribers : ConnectOther(c)
           \/ \E c \in Conns : Ignores(c) \/ StartsClosing(c)
  BY <1>3, HolderOtherSteps
<1>4. CASE UNCHANGED vars
  BY <1>4, HolderUndisturbed DEF vars
<1>. QED
  BY <1>1, <1>2, <1>3, <1>4 DEF Next

\* A node id belongs to the connection that registered it last until that
\* connection closes, and to nobody afterwards.
THEOREM NewestRegistrationWins == Spec => []NewestHoldsNode
<1>1. HolderInv => NewestHoldsNode
  BY DEF HolderInv
<1>. QED
  BY <1>1, RouterTypeCorrect, HolderInvInit, HolderInvNext, PTL DEF Spec

\* The registry never holds an "Unchanged" report without its "New" one.
THEOREM UnchangedNeverAlone == Spec => []UnchangedFollowsNew
<1>1. HolderInv => UnchangedFollowsNew
  BY DEF HolderInv
<1>. QED
  BY <1>1, RouterTypeCorrect, HolderInvInit, HolderInvNext, PTL DEF Spec

-----------------------------------------------------------------------------
(* What the subscribers know.  ViewsAgree is inductive together with the    *)
(* fact that the lists of writers hold exactly the connections that have   *)
(* not closed, which is what makes a forwarded message reach all of them.  *)

ListsAreComplete ==
  /\ dmmWriters = {p \in Peers : status[p] # "closed"}
  /\ parentAll = {q \in Parents : status[q] # "closed"}
ViewInv == ListsAreComplete /\ ViewsAgree

LEMMA ViewInvInit == Init => ViewInv
  BY DEF Init, ViewInv, ListsAreComplete, ViewsAgree, Conns, Subscribers

\* A step that opens and closes nobody and leaves views and registry alone.
LEMMA ViewUndisturbed ==
  ASSUME TypeOK, ViewInv, UNCHANGED <<registry, dmmWriters, parentAll>>,
         \A p \in Subscribers : status'[p] = "closed" <=> status[p] = "closed",
         \A p \in Subscribers : view'[p] = view[p] \/ view'[p] = Lost
  PROVE  ViewInv'
<1>1. ListsAreComplete'
  BY DEF ViewInv, ListsAreComplete, Subscribers
<1>2. ViewsAgree'
  BY DEF ViewInv, ViewsAgree
<1>. QED
  BY <1>1, <1>2 DEF ViewInv

\* Handling a message opens and closes nobody.
LEMMA HandlingKeepsOpen ==
  ASSUME TypeOK, NEW c \in Conns, Receives(c), Continues(c) \/ FatalError(c)
  PROVE  \A d \in Conns : status'[d] = "closed" <=> status[d] = "closed"
  BY DEF TypeOK, Continues, FatalError, Receives

\* A message that updates the entry of node n is forwarded, and every receiver
\* that agreed with the old entry agrees with the new one.
LEMMA ViewForwarded ==
  ASSUME TypeOK, ViewInv, NEW c \in Children, Receives(c), Continues(c),
         NEW n \in Nodes, NEW v \in Values,
         NEW kind \in {"registration", "statusNew", "statusUnchanged"},
         ForwardOfNode(c, n, kind, v), NEW e \in SensorInfo,
         registry' = [registry EXCEPT ![n] = e],
         \A k \in Known \cup {None} :
           (registry[n] # None => k = Stored(registry[n])) => Learns(k, kind, v) = Stored(e),
         UNCHANGED <<dmmWriters, parentAll>>
  PROVE  ViewInv'
<1>1. \A d \in Conns : status'[d] = "closed" <=> status[d] = "closed"
  BY HandlingKeepsOpen DEF Conns
<1>2. ListsAreComplete'
  BY <1>1 DEF ViewInv, ListsAreComplete, Conns
<1>3. ASSUME NEW p \in Subscribers, NEW m \in Nodes, status'[p] # "closed",
             view'[p] # Lost, registry'[m] # None
      PROVE  view'[p][m] = Stored(registry'[m])
  <2>1. status[p] # "closed" /\ p \in dmmWriters \cup parentAll
    BY <1>1, <1>3 DEF ViewInv, ListsAreComplete, Conns, Subscribers
  <2>2. view'[p] = IF view[p] # Lost
                   THEN [view[p] EXCEPT ![n] = Learns(@, kind, v)] ELSE view[p]
    BY <2>1 DEF ForwardOfNode
  <2>3. view[p] # Lost /\ view[p] \in View
        /\ view'[p] = [view[p] EXCEPT ![n] = Learns(@, kind, v)]
    BY <1>3, <2>2 DEF TypeOK
  <2>4. CASE m = n
    <3>1. view[p][n] \in Known \cup {None}
      BY <2>3 DEF View
    <3>2. registry[n] # None => view[p][n] = Stored(registry[n])
      BY <2>1, <2>3 DEF ViewInv, ViewsAgree
    <3>3. Learns(view[p][n], kind, v) = Stored(e)
      BY <3>1, <3>2
    <3>4. view'[p][n] = Learns(view[p][n], kind, v)
      BY <2>3 DEF View
    <3>5. registry'[n] = e
      BY DEF TypeOK
    <3>. QED
      BY <2>4, <3>3, <3>4, <3>5
  <2>5. CASE m # n
    <3>1. view'[p][m] = view[p][m] /\ registry'[m] = registry[m]
      BY <2>3, <2>5 DEF View, TypeOK
    <3>. QED
      BY <1>3, <2>1, <2>3, <3>1 DEF ViewInv, ViewsAgree
  <2>. QED
    BY <2>4, <2>5
<1>. QED
  BY <1>2, <1>3 DEF ViewInv, ViewsAgree

LEMMA ViewChildStep ==
  ASSUME TypeOK, HolderInv, ViewInv, NEW c \in Children, ChildStep(c)
  PROVE  ViewInv'
<1>. c \in Conns
  BY DEF Conns
<1>1. CASE ChildRegisters(c)
  <2>1. PICK n \in Nodes, v \in Values :
          /\ registry' = [registry EXCEPT ![n] =
               [writer |-> c, registration |-> v, statusNew |-> None,
                statusUnchanged |-> None]]
          /\ ForwardOfNode(c, n, "registration", v)
    BY <1>1 DEF ChildRegisters
  <2>. DEFINE e == [writer |-> c, registration |-> v, statusNew |-> None,
                    statusUnchanged |-> None]
  <2>2. e \in SensorInfo
    BY DEF SensorInfo
  <2>3. \A k \in Known \cup {None} : Learns(k, "registration", v) = Stored(e)
    BY DEF Learns, Stored
  <2>4. registry' = [registry EXCEPT ![n] = e]
    BY <2>1
  <2>. HIDE DEF e
  <2>5. \A k \in Known \cup {None} :
          (registry[n] # None => k = Stored(registry[n]))
            => Learns(k, "registration", v) = Stored(e)
    BY <2>3
  <2>6. /\ Receives(c) /\ Continues(c) /\ UNCHANGED <<dmmWriters, parentAll>>
        /\ ForwardOfNode(c, n, "registration", v)
    BY <1>1, <2>1 DEF ChildRegisters
  <2>. QED
    BY <2>2, <2>4, <2>5, <2>6, ViewForwarded
<1>2. CASE ChildReregisters(c)
  <2>1. PICK v \in Values :
          /\ registry' = [registry EXCEPT ![nodeId[c]] =
               [@ EXCEPT !.registration = v, !.statusNew = None, !.statusUnchanged = None]]
          /\ ForwardOfNode(c, nodeId[c], "registration", v)
    BY <1>2 DEF ChildReregisters
  <2>2. nodeId[c] \in Nodes /\ registry[nodeId[c]] \in SensorInfo
    BY <1>2, HoldsType DEF ChildReregisters
  <2>. DEFINE e == [registry[nodeId[c]] EXCEPT
                      !.registration = v, !.statusNew = None, !.statusUnchanged = None]
  <2>3. e \in SensorInfo
    BY <2>2, EntryType
  <2>4. \A k \in Known \cup {None} : Learns(k, "registration", v) = Stored(e)
    BY <2>2 DEF Learns, Stored, SensorInfo
  <2>5. registry' = [registry EXCEPT ![nodeId[c]] = e]
    BY <2>1
  <2>. HIDE DEF e
  <2>6. \A k \in Known \cup {None} :
          (registry[nodeId[c]] # None => k = Stored(registry[nodeId[c]]))
            => Learns(k, "registration", v) = Stored(e)
    BY <2>4
  <2>7. /\ Receives(c) /\ Continues(c) /\ UNCHANGED <<dmmWriters, parentAll>>
        /\ ForwardOfNode(c, nodeId[c], "registration", v)
    BY <1>2, <2>1 DEF ChildReregisters
  <2>. QED
    BY <2>2, <2>3, <2>5, <2>6, <2>7, ViewForwarded
<1>3. CASE ChildReportsNew(c)
  <2>1. PICK v \in Values :
          /\ registry' = [registry EXCEPT ![nodeId[c]] =
               [@ EXCEPT !.statusNew = v, !.statusUnchanged = None]]
          /\ ForwardOfNode(c, nodeId[c], "statusNew", v)
    BY <1>3 DEF ChildReportsNew
  <2>2. nodeId[c] \in Nodes /\ registry[nodeId[c]] \in SensorInfo
    BY <1>3, HoldsType DEF ChildReportsNew
  <2>. DEFINE e == [registry[nodeId[c]] EXCEPT !.statusNew = v, !.statusUnchanged = None]
  <2>3. e \in SensorInfo
    BY <2>2, EntryType
  <2>4. Learns(Stored(registry[nodeId[c]]), "statusNew", v) = Stored(e)
    <3>1. Stored(registry[nodeId[c]]) # None
      BY <2>2, NoneAssumption DEF Stored, Known, SensorInfo
    <3>2. Learns(Stored(registry[nodeId[c]]), "statusNew", v)
            = [Stored(registry[nodeId[c]]) EXCEPT !.statusNew = v, !.statusUnchanged = None]
      BY <3>1 DEF Learns
    <3>. QED
      BY <2>2, <3>2 DEF Stored, SensorInfo
  <2>5. registry' = [registry EXCEPT ![nodeId[c]] = e]
    BY <2>1
  <2>6. registry[nodeId[c]] # None
    BY <2>2, NoneAssumption
  <2>. HIDE DEF e
  <2>7. \A k \in Known \cup {None} :
          (registry[nodeId[c]] # None => k = Stored(registry[nodeId[c]]))
            => Learns(k, "statusNew", v) = Stored(e)
    BY <2>4, <2>6
  <2>8. /\ Receives(c) /\ Continues(c) /\ UNCHANGED <<dmmWriters, parentAll>>
        /\ ForwardOfNode(c, nodeId[c], "statusNew", v)
    BY <1>3, <2>1 DEF ChildReportsNew
  <2>. QED
    BY <2>2, <2>3, <2>5, <2>7, <2>8, ViewForwarded
<1>4. CASE ChildReportsUnchanged(c)
  <2>1. nodeId[c] \in Nodes /\ registry[nodeId[c]] \in SensorInfo
    BY <1>4, HoldsType DEF ChildReportsUnchanged
  <2>2. lastSystem[c] \in Values
    BY <1>4 DEF ChildReportsUnchanged, TypeOK
  <2>. DEFINE e == [registry[nodeId[c]] EXCEPT !.statusUnchanged = lastSystem[c]]
  <2>3. e \in SensorInfo
    BY <2>1, <2>2, EntryType
  <2>4. Learns(Stored(registry[nodeId[c]]), "statusUnchanged", lastSystem[c]) = Stored(e)
    <3>1. Stored(registry[nodeId[c]]) # None
      BY <2>1, NoneAssumption DEF Stored, Known, SensorInfo
    <3>2. Learns(Stored(registry[nodeId[c]]), "statusUnchanged", lastSystem[c])
            = [Stored(registry[nodeId[c]]) EXCEPT !.statusUnchanged = lastSystem[c]]
      BY <3>1 DEF Learns
    <3>. QED
      BY <2>1, <3>2 DEF Stored, SensorInfo
  <2>5. registry' = [registry EXCEPT ![nodeId[c]] = e]
    BY <1>4 DEF ChildReportsUnchanged
  <2>6. registry[nodeId[c]] # None
    BY <2>1, NoneAssumption
  <2>. HIDE DEF e
  <2>7. \A k \in Known \cup {None} :
          (registry[nodeId[c]] # None => k = Stored(registry[nodeId[c]]))
            => Learns(k, "statusUnchanged", lastSystem[c]) = Stored(e)
    BY <2>4, <2>6
  <2>8. /\ Receives(c) /\ Continues(c) /\ UNCHANGED <<dmmWriters, parentAll>>
        /\ ForwardOfNode(c, nodeId[c], "statusUnchanged", lastSystem[c])
    BY <1>4, <2>1 DEF ChildReportsUnchanged
  <2>. QED
    BY <2>1, <2>2, <2>3, <2>5, <2>7, <2>8, ViewForwarded
<1>5. CASE ChildSendsOther(c) \/ ChildFails(c)
  <2>1. /\ UNCHANGED <<registry, dmmWriters, parentAll, view>>
        /\ Receives(c) /\ (Continues(c) \/ FatalError(c))
    BY <1>5 DEF ChildSendsOther, ChildFails, shared, Rejected
  <2>. QED
    BY <2>1, HandlingKeepsOpen, ViewUndisturbed DEF Conns, Subscribers
<1>. QED
  BY <1>1, <1>2, <1>3, <1>4, <1>5 DEF ChildStep

\* A message of another role says nothing about a node.
LEMMA ViewOtherMessages ==
  ASSUME TypeOK, ViewInv,
         \/ \E p \in Peers : PeerStep(p)
         \/ \E q \in Parents \cup HighParents : ParentSends(q)
         \/ \E r \in Recorders : RecorderSends(r)
         \/ \E c \in Conns : Ignores(c)
  PROVE  ViewInv'
<1>1. UNCHANGED <<registry, dmmWriters, parentAll, view>>
  BY DEF PeerStep, PeerRegisters, PeerSends, PeerFails, PeerForwards, ParentSends,
         RecorderSends, Ignores, Rejected, shared
<1>2. PICK c \in Conns : Receives(c) /\ (Continues(c) \/ FatalError(c))
  BY DEF PeerStep, PeerRegisters, PeerSends, PeerFails, ParentSends, RecorderSends,
         Ignores, Conns
<1>3. \A d \in Conns : status'[d] = "closed" <=> status[d] = "closed"
  BY <1>2, HandlingKeepsOpen
<1>. QED
  BY <1>1, <1>3, ViewUndisturbed DEF Conns, Subscribers

\* A new subscriber is replayed what the registry holds.
LEMMA ViewConnects ==
  ASSUME TypeOK, ViewInv, NEW p \in Subscribers, ConnectSubscriber(p)
  PROVE  ViewInv'
<1>1. /\ status' = [status EXCEPT ![p] = "open"]
      /\ registry' = registry
      /\ view' = [view EXCEPT ![p] = Replay]
  BY DEF ConnectSubscriber, Opens
<1>2. p \in Conns
  BY DEF Conns, Subscribers
<1>3. ListsAreComplete'
  <2>1. dmmWriters' = {d \in Peers : status'[d] # "closed"}
    BY <1>1, <1>2 DEF ConnectSubscriber, ViewInv, ListsAreComplete, TypeOK, Conns
  <2>2. parentAll' = {q \in Parents : status'[q] # "closed"}
    BY <1>1, <1>2 DEF ConnectSubscriber, ViewInv, ListsAreComplete, TypeOK, Conns
  <2>. QED
    BY <2>1, <2>2 DEF ListsAreComplete
<1>4. ViewsAgree'
  <2>1. \A n \in Nodes : registry[n] # None => Replay[n] = Stored(registry[n])
    BY DEF Replay, Stored
  <2>2. view'[p] = Replay
    BY <1>1 DEF TypeOK
  <2>3. \A d \in Subscribers \ {p} : view'[d] = view[d] /\ status'[d] = status[d]
    BY <1>1 DEF TypeOK, Conns, Subscribers
  <2>. QED
    BY <1>1, <2>1, <2>2, <2>3 DEF ViewInv, ViewsAgree
<1>. QED
  BY <1>3, <1>4 DEF ViewInv

\* A connection that closes leaves its list, and only removes entries.
LEMMA ViewCloses ==
  ASSUME TypeOK, ViewInv, NEW c \in Conns, HandleClosed(c)
  PROVE  ViewInv'
<1>1. status'[c] = "closed" /\ \A d \in Conns \ {c} : status'[d] = status[d]
  BY DEF HandleClosed, TypeOK
<1>2. ListsAreComplete'
  BY <1>1 DEF HandleClosed, ViewInv, ListsAreComplete, Conns
<1>3. \A n \in Nodes : registry'[n] # None => registry'[n] = registry[n]
  BY DEF HandleClosed, Remaining, TypeOK
<1>4. \A p \in Subscribers \ {c} : view'[p] = view[p] /\ status'[p] = status[p]
  BY <1>1 DEF HandleClosed, TypeOK, Conns, Subscribers
<1>5. ViewsAgree'
  BY <1>1, <1>3, <1>4 DEF ViewInv, ViewsAgree
<1>. QED
  BY <1>2, <1>5 DEF ViewInv

LEMMA ViewInvNext == TypeOK /\ HolderInv /\ ViewInv /\ [Next]_vars => ViewInv'
<1>. SUFFICES ASSUME TypeOK, HolderInv, ViewInv, [Next]_vars PROVE ViewInv'
  OBVIOUS
<1>1. CASE \E c \in Children : ChildStep(c)
  BY <1>1, ViewChildStep
<1>2. CASE \/ \E p \in Peers : PeerStep(p)
           \/ \E q \in Parents \cup HighParents : ParentSends(q)
           \/ \E r \in Recorders : RecorderSends(r)
           \/ \E c \in Conns : Ignores(c)
  BY <1>2, ViewOtherMessages
<1>3. CASE \E p \in Subscribers : ConnectSubscriber(p)
  BY <1>3, ViewConnects
<1>4. CASE \E p \in Subscribers : BufferOverflows(p)
  BY <1>4, ViewUndisturbed DEF BufferOverflows, shared, TypeOK
<1>5. CASE \E c \in Conns \ Subscribers : ConnectOther(c)
  <2>1. PICK c \in Conns \ Subscribers : ConnectOther(c)
    BY <1>5
  <2>2. UNCHANGED <<registry, dmmWriters, parentAll, view>>
    BY <2>1 DEF ConnectOther, Opens
  <2>3. \A p \in Subscribers : status'[p] = status[p]
    BY <2>1 DEF ConnectOther, Opens, TypeOK, Conns, Subscribers
  <2>. QED
    BY <2>2, <2>3, ViewUndisturbed
<1>6. CASE \E c \in Conns : StartsClosing(c)
  <2>1. PICK c \in Conns : StartsClosing(c)
    BY <1>6
  <2>2. UNCHANGED <<registry, dmmWriters, parentAll, view>>
    BY <2>1 DEF StartsClosing, shared
  <2>3. \A p \in Subscribers : status'[p] = "closed" <=> status[p] = "closed"
    BY <2>1 DEF StartsClosing, TypeOK, Conns, Subscribers
  <2>. QED
    BY <2>2, <2>3, ViewUndisturbed
<1>7. CASE \E c \in Conns : HandleClosed(c)
  BY <1>7, ViewCloses
<1>8. CASE UNCHANGED vars
  BY <1>8, ViewUndisturbed DEF vars
<1>. QED
  BY <1>1, <1>2, <1>3, <1>4, <1>5, <1>6, <1>7, <1>8 DEF Next

\* However late it joined, every open DMM and forwardAll parent has been handed
\* what the registry records of every registered node.
THEOREM SubscribersAgree == Spec => []ViewsAgree
<1>1. ViewInv => ViewsAgree
  BY DEF ViewInv
<1>. QED
  BY <1>1, RouterTypeCorrect, HolderInvInit, HolderInvNext, ViewInvInit, ViewInvNext,
     PTL DEF Spec

-----------------------------------------------------------------------------
(* Where messages go *)

\* Apart from a message of a node, whose sender holds the id, nothing that is
\* forwarded comes from a child, and no message returns to its sender.
LEMMA ChildForwards ==
  ASSUME TypeOK, HolderInv, HolderInv', NEW c \in Children, ChildStep(c)
  PROVE  OnlyNewestForwarded' /\ NoReflection'
<1>1. CASE ChildFails(c)
  BY <1>1 DEF ChildFails, Rejected, OnlyNewestForwarded, NoReflection
<1>2. CASE ~ChildFails(c)
  <2>1. sent' = [from |-> c, to |-> dmmWriters \cup parentAll]
    BY <1>2 DEF ChildStep, ChildRegisters, ChildReregisters, ChildReportsNew,
       ChildReportsUnchanged, ChildSendsOther, ForwardOfNode, ForwardedTo
  <2>2. c \notin dmmWriters \cup parentAll
    BY RolesAssumption DEF TypeOK, Subscribers
  <2>3. \E n \in Nodes : nodeId'[c] = n /\ newest'[n] = c
    <3>1. CASE ChildRegisters(c)
      BY <3>1 DEF ChildRegisters, TypeOK
    <3>2. CASE HoldsItsNode(c) /\ UNCHANGED <<nodeId, newest>>
      <4>1. nodeId[c] \in Nodes
        BY <3>2, HoldsType
      <4>. QED
        BY <3>2, <4>1 DEF HoldsItsNode, HolderInv, NewestHoldsNode
    <3>. QED
      BY <1>2, <3>1, <3>2 DEF ChildStep, ChildReregisters, ChildReportsNew,
         ChildReportsUnchanged, ChildSendsOther, local
  <2>. QED
    BY <2>1, <2>2, <2>3 DEF OnlyNewestForwarded, NoReflection
<1>. QED
  BY <1>1, <1>2

LEMMA OtherForwards ==
  ASSUME TypeOK,
         \/ \E p \in Peers : PeerStep(p)
         \/ \E q \in Parents \cup HighParents : ParentSends(q)
         \/ \E r \in Recorders : RecorderSends(r)
  PROVE  OnlyNewestForwarded' /\ NoReflection'
<1>1. CASE \E p \in Peers : PeerStep(p)
  <2>1. PICK p \in Peers : PeerStep(p)
    BY <1>1
  <2>2. PICK d \in Nodes \cup {None} :
          sent' = Quiet \/ sent' = [from |-> p, to |-> PeerRecipients(d)]
    BY <2>1 DEF PeerStep, PeerRegisters, PeerSends, PeerFails, PeerForwards, Rejected,
       ForwardedTo
  <2>3. PeerRecipients(d) \subseteq Children \cup Parents \cup HighParents
    BY RecipientsType DEF PeerRecipients, TypeOK
  <2>4. p \notin Children \cup Parents \cup HighParents
    BY RolesAssumption DEF Subscribers
  <2>. QED
    BY <2>2, <2>3, <2>4 DEF OnlyNewestForwarded, NoReflection
<1>2. CASE \E q \in Parents \cup HighParents : ParentSends(q)
  <2>1. PICK q \in Parents \cup HighParents, d \in Nodes \cup {None} :
          sent' = [from |-> q, to |-> ParentRecipients(q, d)]
    BY <1>2 DEF ParentSends, ForwardedTo
  <2>2. ParentRecipients(q, d) \subseteq Children \cup Peers \cup (Parents \ {q})
    BY RecipientsType DEF ParentRecipients, TypeOK
  <2>3. q \notin Children \cup Peers
    BY RolesAssumption DEF Subscribers
  <2>. QED
    BY <2>1, <2>2, <2>3 DEF OnlyNewestForwarded, NoReflection
<1>3. CASE \E r \in Recorders : RecorderSends(r)
  <2>1. PICK r \in Recorders : sent' = [from |-> r, to |-> parentAll]
    BY <1>3 DEF RecorderSends, ForwardedTo
  <2>2. r \notin Children /\ r \notin parentAll
    BY RolesAssumption DEF TypeOK, Subscribers
  <2>. QED
    BY <2>1, <2>2 DEF OnlyNewestForwarded, NoReflection
<1>. QED
  BY <1>1, <1>2, <1>3

LEMMA ForwardingNext ==
  TypeOK /\ HolderInv /\ HolderInv' /\ OnlyNewestForwarded /\ NoReflection /\ [Next]_vars
    => OnlyNewestForwarded' /\ NoReflection'
<1>. SUFFICES ASSUME TypeOK, HolderInv, HolderInv', OnlyNewestForwarded, NoReflection,
                     [Next]_vars
              PROVE  OnlyNewestForwarded' /\ NoReflection'
  OBVIOUS
<1>1. CASE \E c \in Children : ChildStep(c)
  BY <1>1, ChildForwards
<1>2. CASE \/ \E p \in Peers : PeerStep(p)
           \/ \E q \in Parents \cup HighParents : ParentSends(q)
           \/ \E r \in Recorders : RecorderSends(r)
  BY <1>2, OtherForwards
<1>3. CASE \/ \E p \in Subscribers : ConnectSubscriber(p) \/ BufferOverflows(p)
           \/ \E c \in Conns \ Subscribers : ConnectOther(c)
           \/ \E c \in Conns : Ignores(c) \/ StartsClosing(c) \/ HandleClosed(c)
  <2>1. sent' = Quiet
    BY <1>3 DEF ConnectSubscriber, ConnectOther, Opens, BufferOverflows, Ignores,
       Rejected, StartsClosing, HandleClosed
  <2>. QED
    BY <2>1 DEF OnlyNewestForwarded, NoReflection
<1>4. CASE UNCHANGED vars
  BY <1>4 DEF vars, OnlyNewestForwarded, NoReflection
<1>. QED
  BY <1>1, <1>2, <1>3, <1>4 DEF Next

\* A connection whose node id was taken over is never forwarded again.
THEOREM OvertakenIsMuted == Spec => []OnlyNewestForwarded
<1>1. Init => OnlyNewestForwarded /\ NoReflection
  BY DEF Init, OnlyNewestForwarded, NoReflection
<1>. QED
  BY <1>1, RouterTypeCorrect, HolderInvInit, HolderInvNext, ForwardingNext, PTL DEF Spec

\* No message returns to the connection it came from.
THEOREM NothingReflected == Spec => []NoReflection
<1>1. Init => OnlyNewestForwarded /\ NoReflection
  BY DEF Init, OnlyNewestForwarded, NoReflection
<1>. QED
  BY <1>1, RouterTypeCorrect, HolderInvInit, HolderInvNext, ForwardingNext, PTL DEF Spec
=============================================================================
