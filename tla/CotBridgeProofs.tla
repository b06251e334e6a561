---------------------------- MODULE CotBridgeProofs ----------------------------
(***************************************************************************)
(* Theorems about CotBridge, for any finite set of nodes and any bounds.   *)
(***************************************************************************)
EXTENDS CotBridge, FiniteSetTheorems, SequenceTheorems, TLAPS

\* The messages a replay may consist of.
Kept == {m \in Message : m.type \in {"registration", "status"}}

LEMMA ReplayedType ==
  ASSUME registry \in [Nodes -> Entries \cup {NoMessage}]
  PROVE  /\ Replayed \subseteq Kept
         /\ Cardinality(Replayed) \in Nat
<1>1. IsFiniteSet(Registered)
  BY NodesAssumption, FS_Subset DEF Registered
<1>2. \A n \in Registered : registry[n] \in Entries
  BY DEF Registered
<1>3. Replayed \subseteq Kept
  BY <1>2 DEF Replayed, Entries, Kept
<1>4. IsFiniteSet({registry[n].registration : n \in Registered})
  <2>. DEFINE f == [n \in Registered |-> registry[n].registration]
              T == {registry[n].registration : n \in Registered}
  <2>1. f \in Surjection(Registered, T)
    BY DEF Surjection
  <2>. QED
    BY <1>1, <2>1, FS_Surjection
<1>5. IsFiniteSet({registry[n].status : n \in Registered})
  <2>. DEFINE f == [n \in Registered |-> registry[n].status]
              T == {registry[n].status : n \in Registered}
  <2>1. f \in Surjection(Registered, T)
    BY DEF Surjection
  <2>. QED
    BY <1>1, <2>1, FS_Surjection
<1>6. IsFiniteSet({registry[n].status : n \in Registered} \ {NoMessage})
  BY <1>5, FS_Subset
<1>7. IsFiniteSet(Replayed)
  BY <1>4, <1>6, FS_Union DEF Replayed
<1>. QED
  BY <1>3, <1>7, FS_CardinalityType

LEMMA ReplaysType ==
  ASSUME registry \in [Nodes -> Entries \cup {NoMessage}], NEW s \in Replays
  PROVE  s \in Seq(Message) /\ \A i \in DOMAIN s : s[i] \in Kept
<1>1. s \in [1..Cardinality(Replayed) -> Replayed]
  BY DEF Replays
<1>2. \A i \in 1..Cardinality(Replayed) : s[i] \in Kept
  BY <1>1, ReplayedType
<1>3. s \in [1..Cardinality(Replayed) -> Message]
  BY <1>1, <1>2 DEF Kept
<1>. QED
  BY <1>1, <1>2, <1>3, ReplayedType, SeqDef


LEMMA QueueTypes ==
  ASSUME NEW s \in Seq(Message)
  PROVE  /\ \A m \in Message : Append(s, m) \in Seq(Message)
         /\ s # <<>> => Head(s) \in Message /\ Tail(s) \in Seq(Message)
  BY AppendProperties, HeadTailProperties

LEMMA ConnectionTypes == Latest' = breaks' + 1 /\ \A b \in 0..MaxBreaks : b + 1 \in Connections
  BY SendsAssumption DEF Latest, Connections

\* What is left of a queue when its end is lost.
LEMMA PrefixType ==
  ASSUME NEW s \in Seq(Message), NEW k \in 0..Len(s)
  PROVE  /\ SubSeq(s, 1, k) \in Seq(Message)
         /\ \A i \in DOMAIN SubSeq(s, 1, k) : i \in DOMAIN s /\ SubSeq(s, 1, k)[i] = s[i]
<1>1. Len(s) \in Nat /\ DOMAIN s = 1..Len(s) /\ \A i \in 1..Len(s) : s[i] \in Message
  BY LenProperties, ElementOfSeq
<1>2. 1..(k - 1 + 1) \subseteq 1..Len(s) /\ k - 1 + 1 = k /\ k \in Nat
  BY <1>1
<1>3. SubSeq(s, 1, k) = [i \in 1..k |-> s[i]]
  BY <1>1, <1>2
<1>4. [i \in 1..k |-> s[i]] \in Seq(Message)
  BY <1>1, <1>2, SeqDef
<1>. QED
  BY <1>1, <1>2, <1>3, <1>4

LEMMA TypeInit == Init => TypeOK
<1>. SUFFICES ASSUME Init PROVE TypeOK
  OBVIOUS
<1>1. lines \in [Connections -> Seq(Message)]
  BY EmptySeq DEF Init
<1>2. breaks \in 0..MaxBreaks
  BY SendsAssumption DEF Init
<1>3. onTak \subseteq Registered
  BY DEF Init
<1>. QED
  BY <1>1, <1>2, <1>3 DEF Init, TypeOK

LEMMA SaysType ==
  ASSUME TypeOK, NEW n \in Nodes, NEW type \in Types, NEW says \in Says[type],
         NodeSays(n, type, says)
  PROVE  TypeOK'
<1>. DEFINE m == [node |-> n, type |-> type, says |-> says, n |-> count[n] + 1]
<1>1. count[n] + 1 \in Nat /\ count' \in [Nodes -> Nat]
  BY DEF TypeOK, NodeSays
<1>2. Says[type] \in Range(Says)
  BY DEF Types, Range
<1>3. m \in Message /\ m.type = type
  BY <1>1, <1>2 DEF Message
<1>. HIDE DEF m
<1>4. lines' \in [Connections -> Seq(Message)]
  <2>1. Latest \in Connections
    BY ConnectionTypes DEF TypeOK, Latest
  <2>2. lines' = lines \/ lines' = [lines EXCEPT ![Latest] = Append(@, m)]
    BY DEF NodeSays, m
  <2>3. Append(lines[Latest], m) \in Seq(Message)
    BY <1>3, <2>1, QueueTypes DEF TypeOK
  <2>. QED
    BY <2>1, <2>2, <2>3 DEF TypeOK
<1>5. registry' \in [Nodes -> Entries \cup {NoMessage}] /\ onTak' \subseteq Registered'
  <2>1. CASE type # "registration" /\ n \notin Registered
    BY <2>1 DEF NodeSays, TypeOK, Registered
  <2>2. CASE type = "registration"
    <3>1. [registration |-> m, status |-> NoMessage] \in Entries
      BY <1>3, <2>2 DEF Entries
    <3>2. registry' = [registry EXCEPT ![n] = [registration |-> m, status |-> NoMessage]]
          /\ onTak' = onTak \ {n}
      BY <2>2 DEF NodeSays, m
    <3>. QED
      BY <3>1, <3>2 DEF TypeOK, Registered
  <2>3. CASE type = "status" /\ n \in Registered
    <3>1. registry[n] \in Entries
      BY <2>3 DEF TypeOK, Registered
    <3>2. [registry[n] EXCEPT !.status = m] \in Entries
      BY <1>3, <2>3, <3>1 DEF Entries
    <3>3. registry' = [registry EXCEPT ![n].status = m] /\ onTak' = onTak
      BY <2>3 DEF NodeSays, m
    <3>4. registry' = [registry EXCEPT ![n] = [registry[n] EXCEPT !.status = m]]
      BY <3>3 DEF TypeOK
    <3>. QED
      BY <3>1, <3>2, <3>3, <3>4, NoMessageAssumption DEF TypeOK, Registered
  <2>4. CASE type \notin {"registration", "status"} /\ n \in Registered
    BY <2>4 DEF NodeSays, TypeOK, Registered
  <2>. QED
    BY <2>1, <2>2, <2>3, <2>4
<1>. QED
  BY <1>1, <1>4, <1>5 DEF NodeSays, TypeOK

LEMMA ShownType ==
  ASSUME TypeOK, NEW c \in Connections, NEW m \in Message, Shown(c, m), registry' = registry
  PROVE  onTak' \subseteq Registered' /\ shown' \subseteq [node: Nodes, n: Nat, over: Connections]
<1>1. [node |-> m.node, n |-> m.n, over |-> c] \in [node: Nodes, n: Nat, over: Connections]
  BY DEF Message
<1>. QED
  BY <1>1 DEF TypeOK, Shown, Registered

LEMMA TypeStep == TypeOK /\ [Next]_vars => TypeOK'
<1>. SUFFICES ASSUME TypeOK, [Next]_vars PROVE TypeOK'
  OBVIOUS
<1>0. <<>> \in Seq(Message) /\ Latest \in Connections
  BY EmptySeq, ConnectionTypes DEF TypeOK, Latest
<1>1. ASSUME NEW n \in Nodes, NEW type \in Types, NEW says \in Says[type],
             NodeSays(n, type, says)
      PROVE  TypeOK'
  BY <1>1, SaysType
<1>2. ASSUME NEW n \in Nodes, NodeLeaves(n) PROVE TypeOK'
  BY <1>2 DEF NodeLeaves, TypeOK, Registered
<1>3. CASE FeedConnects
  <2>1. PICK s \in Replays : lines' = [lines EXCEPT ![Latest] = s]
    BY <1>3 DEF FeedConnects
  <2>2. s \in Seq(Message)
    BY ReplaysType DEF TypeOK
  <2>3. lines' \in [Connections -> Seq(Message)]
    BY <2>1, <2>2 DEF TypeOK
  <2>. QED
    BY <1>3, <2>3 DEF FeedConnects, TypeOK, Registered
<1>4. ASSUME breaks < MaxBreaks, breaks' = breaks + 1 PROVE breaks' \in 0..MaxBreaks
  BY <1>4, SendsAssumption DEF TypeOK
<1>5. CASE FeedBreaks
  <2>1. PICK got \in 0..Len(lines[Latest]) :
          lines' = [lines EXCEPT ![Latest] = SubSeq(@, 1, got)]
    BY <1>5 DEF FeedBreaks
  <2>2. SubSeq(lines[Latest], 1, got) \in Seq(Message)
    BY <1>0, PrefixType DEF TypeOK
  <2>3. lines' \in [Connections -> Seq(Message)]
    BY <2>1, <2>2 DEF TypeOK
  <2>. QED
    BY <1>4, <1>5, <2>3 DEF FeedBreaks, TypeOK, Registered
<1>6. CASE BridgeRestarts
  BY <1>0, <1>4, <1>6 DEF BridgeRestarts, TypeOK, Registered
<1>7. ASSUME NEW c \in Connections, BridgeReads(c) PROVE TypeOK'
  <2>1. Head(lines[c]) \in Message /\ Tail(lines[c]) \in Seq(Message)
    <3>1. lines[c] \in Seq(Message) /\ lines[c] # <<>>
      BY <1>7 DEF TypeOK, BridgeReads, Converts, Skips, SendFails, Raises, NextSays
    <3>. QED
      BY <3>1, QueueTypes
  <2>2. TakesNext(c) => lines' \in [Connections -> Seq(Message)]
    BY <2>1 DEF TakesNext, TypeOK
  <2>3. CASE Converts(c)
    BY <2>1, <2>2, <2>3, ShownType DEF Converts, TypeOK
  <2>4. CASE Skips(c) \/ SendFails(c)
    BY <2>2, <2>4 DEF Skips, SendFails, TypeOK, Registered
  <2>5. CASE Raises(c)
    BY <1>0, <2>5 DEF Raises, TypeOK, Registered
  <2>. QED
    BY <1>7, <2>3, <2>4, <2>5 DEF BridgeReads
<1>8. CASE UNCHANGED vars
  BY <1>8 DEF vars, TypeOK, Registered
<1>. QED
  BY <1>1, <1>2, <1>3, <1>5, <1>6, <1>7, <1>8 DEF Next

\* The state of the path to TAK keeps its types: a replay holds messages only,
\* never the report a node has not sent (ParentConnection.__init__).
THEOREM BridgeTypeCorrect == Spec => []TypeOK
  BY TypeInit, TypeStep, PTL DEF Spec

-----------------------------------------------------------------------------
(* Detections *)

\* No detection that waits to be read or is shown is newer than what its node
\* has sent, and there is nothing of connections yet to come.
Sent ==
  \A c \in Connections : \A i \in DOMAIN lines[c] :
    IsDetection(c, i) => lines[c][i].n <= count[lines[c][i].node]
ShownSent == \A s \in shown : s.n <= count[s.node] /\ s.over <= Latest
NoneAhead == \A c \in Connections : c > Latest => lines[c] = <<>>

DInv == TypeOK /\ Sent /\ ShownSent /\ NoneAhead /\ DetectionsOnceInOrder

LEMMA DInvInit == Init => DInv
<1>. SUFFICES ASSUME Init PROVE DInv
  OBVIOUS
<1>1. TypeOK /\ shown = {} /\ \A c \in Connections : lines[c] = <<>> /\ DOMAIN lines[c] = {}
  BY TypeInit DEF Init
<1>. QED
  BY <1>1 DEF DInv, Sent, ShownSent, NoneAhead, DetectionsOnceInOrder

\* The elements of the lines are messages, whose parts have their types.
LEMMA LineElements ==
  ASSUME TypeOK, NEW c \in Connections
  PROVE  /\ DOMAIN lines[c] = 1..Len(lines[c]) /\ Len(lines[c]) \in Nat
         /\ \A i \in DOMAIN lines[c] : /\ lines[c][i] \in Message
                                      /\ lines[c][i].node \in Nodes /\ lines[c][i].n \in Nat
<1>1. lines[c] \in Seq(Message)
  BY DEF TypeOK
<1>2. DOMAIN lines[c] = 1..Len(lines[c]) /\ Len(lines[c]) \in Nat
      /\ \A i \in DOMAIN lines[c] : lines[c][i] \in Message
  BY <1>1, ElementOfSeq, LenProperties
<1>. QED
  BY <1>2 DEF Message

LEMMA EarlierConnection ==
  ASSUME NEW c \in Connections, NEW d \in 1..c
  PROVE  d \in Connections
  BY SendsAssumption DEF Connections

\* A lost connection's successor is the next one.
LEMMA LatestGrows ==
  ASSUME TypeOK, TypeOK', breaks <= breaks'
  PROVE  /\ breaks \in Nat /\ breaks' \in Nat /\ Latest <= Latest'
         /\ Latest \in Nat /\ Latest' \in Nat /\ \A c \in Connections : c \in Nat
<1>1. breaks \in 0..MaxBreaks /\ breaks' \in 0..MaxBreaks /\ MaxBreaks \in Nat
  BY SendsAssumption DEF TypeOK
<1>2. Latest = breaks + 1 /\ Latest' = breaks' + 1
  BY DEF Latest
<1>3. breaks \in Nat /\ breaks' \in Nat
  BY <1>1
<1>4. \A c \in Connections : c \in Nat
  BY <1>1 DEF Connections
<1>. DEFINE old == breaks  new == breaks'
<1>5. old \in Nat /\ new \in Nat /\ old <= new
  BY <1>3
<1>. HIDE DEF old, new
<1>6. old + 1 \in Nat /\ new + 1 \in Nat /\ old + 1 <= new + 1
  BY <1>5
<1>. QED
  BY <1>2, <1>3, <1>4, <1>6 DEF old, new

\* The detections that are left are those there were, each line moved up by one
\* place or not at all, and what is newly shown is older than what is left of
\* its line and of later ones, and not among what is left of the others.
LEMMA Shrinks ==
  ASSUME DInv, TypeOK', UNCHANGED count, breaks <= breaks', NEW o \in [Connections -> {0, 1}],
         \A c \in Connections : c > Latest' => lines'[c] = <<>>,
         \A c \in Connections : \A i \in DOMAIN lines'[c] : lines'[c][i].type = "detection" =>
           i + o[c] \in DOMAIN lines[c] /\ lines'[c][i] = lines[c][i + o[c]],
         \A s \in shown' \ shown :
           /\ s.n <= count[s.node] /\ s.over <= Latest
           /\ \A c \in Connections : \A i \in DOMAIN lines'[c] :
                lines'[c][i].type = "detection" /\ lines'[c][i].node = s.node =>
                  s.n # lines'[c][i].n /\ (s.over <= c => s.n < lines'[c][i].n)
  PROVE  Sent' /\ ShownSent' /\ NoneAhead' /\ DetectionsOnceInOrder'
<1>1. breaks \in Nat /\ breaks' \in Nat /\ Latest <= Latest'
      /\ Latest \in Nat /\ Latest' \in Nat /\ \A c \in Connections : c \in Nat
  BY LatestGrows DEF DInv
<1>2. Sent'
  BY DEF DInv, Sent, IsDetection
<1>3. NoneAhead'
  BY DEF NoneAhead
<1>4. ShownSent'
  <2>. SUFFICES ASSUME NEW s \in shown' PROVE s.n <= count'[s.node] /\ s.over <= Latest'
    BY DEF ShownSent
  <2>1. s.n <= count[s.node] /\ s.over <= Latest
    BY DEF DInv, ShownSent
  <2>2. s.over \in Nat
    BY <1>1 DEF TypeOK
  <2>. QED
    BY <1>1, <2>1, <2>2
<1>5. DetectionsOnceInOrder'
  <2>. SUFFICES ASSUME NEW c \in Connections, NEW i \in DOMAIN lines'[c], IsDetection(c, i)'
                PROVE  /\ \A s \in shown' : s.node = lines'[c][i].node =>
                            s.n # lines'[c][i].n /\ (s.over <= c => s.n < lines'[c][i].n)
                       /\ \A d \in 1..c : \A j \in DOMAIN lines'[d] :
                            IsDetection(d, j)' /\ lines'[d][j].node = lines'[c][i].node
                            /\ (d < c \/ j < i) => lines'[d][j].n < lines'[c][i].n
    BY DEF DetectionsOnceInOrder
  <2>1. PICK k \in DOMAIN lines[c] : k = i + o[c] /\ lines'[c][i] = lines[c][k]
    BY DEF IsDetection
  <2>2. IsDetection(c, k)
    BY <2>1 DEF IsDetection
  <2>3. ASSUME NEW s \in shown', s.node = lines'[c][i].node
        PROVE  s.n # lines'[c][i].n /\ (s.over <= c => s.n < lines'[c][i].n)
    BY <2>1, <2>2, <2>3 DEF DInv, DetectionsOnceInOrder, IsDetection
  <2>4. ASSUME NEW d \in 1..c, NEW j \in DOMAIN lines'[d],
               IsDetection(d, j)', lines'[d][j].node = lines'[c][i].node, d < c \/ j < i
        PROVE  lines'[d][j].n < lines'[c][i].n
    <3>1. d \in Connections
      BY EarlierConnection
    <3>2. PICK l \in DOMAIN lines[d] : l = j + o[d] /\ lines'[d][j] = lines[d][l]
      BY <2>4, <3>1 DEF IsDetection
    <3>3. IsDetection(d, l)
      BY <2>4, <3>2 DEF IsDetection
    <3>4. j \in Nat /\ i \in Nat
      BY <3>1, LineElements, LenProperties DEF TypeOK
    <3>5. d < c \/ l < k
      <4>1. o[c] \in {0, 1} /\ o[d] \in {0, 1}
        BY <3>1
      <4>2. CASE d = c
        BY <2>1, <2>4, <3>2, <3>4, <4>1, <4>2
      <4>3. CASE d # c
        BY <1>1, <4>3
      <4>. QED
        BY <4>2, <4>3
    <3>. QED
      BY <2>1, <2>2, <2>4, <3>2, <3>3, <3>5 DEF DInv, DetectionsOnceInOrder
  <2>. QED
    BY <2>3, <2>4
<1>. QED
  BY <1>2, <1>3, <1>4, <1>5

\* A step of one line only, which shows nothing.
LEMMA LineShrinks ==
  ASSUME DInv, TypeOK', UNCHANGED <<count, shown, breaks>>, NEW c \in Connections, NEW s,
         lines' = [lines EXCEPT ![c] = s], s = <<>> \/ c <= Latest,
         NEW k \in {0, 1},
         \A i \in DOMAIN s : s[i].type = "detection" =>
           i + k \in DOMAIN lines[c] /\ s[i] = lines[c][i + k]
  PROVE  Sent' /\ ShownSent' /\ NoneAhead' /\ DetectionsOnceInOrder'
<1>. DEFINE o == [d \in Connections |-> IF d = c THEN k ELSE 0]
<1>1. o \in [Connections -> {0, 1}] /\ o[c] = k /\ \A d \in Connections : d # c => o[d] = 0
  OBVIOUS
<1>2. lines \in [Connections -> Seq(Message)] /\ breaks \in Nat
  BY SendsAssumption DEF DInv, TypeOK
<1>3. lines'[c] = s /\ \A d \in Connections : d # c => lines'[d] = lines[d]
  BY <1>2
<1>4. \A d \in Connections : d > Latest' => lines'[d] = <<>>
  <2>1. Latest' = Latest /\ Latest \in Nat /\ c \in Nat
    BY <1>2 DEF Latest, Connections
  <2>. QED
    BY <1>3, <2>1 DEF DInv, NoneAhead
<1>5. \A d \in Connections : \A i \in DOMAIN lines[d] : i + 0 \in DOMAIN lines[d] /\ i + 0 = i
  <2>. SUFFICES ASSUME NEW d \in Connections, NEW i \in DOMAIN lines[d]
                PROVE  i + 0 \in DOMAIN lines[d] /\ i + 0 = i
    OBVIOUS
  <2>1. i \in Nat
    BY LineElements DEF DInv
  <2>. QED
    BY <2>1
<1>. HIDE DEF o
<1>6. \A d \in Connections : \A i \in DOMAIN lines'[d] : lines'[d][i].type = "detection" =>
        i + o[d] \in DOMAIN lines[d] /\ lines'[d][i] = lines[d][i + o[d]]
  <2>. SUFFICES ASSUME NEW d \in Connections, NEW i \in DOMAIN lines'[d],
                       lines'[d][i].type = "detection"
                PROVE  i + o[d] \in DOMAIN lines[d] /\ lines'[d][i] = lines[d][i + o[d]]
    OBVIOUS
  <2>1. CASE d = c
    BY <1>1, <1>3, <2>1
  <2>2. CASE d # c
    BY <1>1, <1>3, <1>5, <2>2
  <2>. QED
    BY <2>1, <2>2
<1>7. breaks <= breaks' /\ shown' \ shown = {}
  BY <1>2
<1>. QED
  BY <1>1, <1>4, <1>6, <1>7, Shrinks

\* What the tail of a line holds.
LEMMA TailElements ==
  ASSUME TypeOK, NEW c \in Connections, lines[c] # <<>>
  PROVE  /\ 1 \in DOMAIN lines[c] /\ Head(lines[c]) = lines[c][1]
         /\ \A i \in DOMAIN Tail(lines[c]) :
              i \in Nat /\ i >= 1 /\ i + 1 \in DOMAIN lines[c] /\ Tail(lines[c])[i] = lines[c][i + 1]
<1>1. lines[c] \in Seq(Message) /\ Len(lines[c]) \in Nat \ {0} /\ DOMAIN lines[c] = 1..Len(lines[c])
  BY LenProperties, EmptySeq DEF TypeOK
<1>2. Len(Tail(lines[c])) = Len(lines[c]) - 1 /\ Tail(lines[c]) \in Seq(Message)
  BY <1>1, HeadTailProperties
<1>3. DOMAIN Tail(lines[c]) = 1..(Len(lines[c]) - 1)
  BY <1>2, LenProperties
<1>4. \A i \in 1..(Len(lines[c]) - 1) : Tail(lines[c])[i] = lines[c][i + 1]
  BY <1>1, HeadTailProperties
<1>. QED
  BY <1>1, <1>3, <1>4

\* There is only something to read of connections there have been.
LEMMA ReadOfPast ==
  ASSUME DInv, NEW c \in Connections, lines[c] # <<>>
  PROVE  c <= Latest /\ c \in Nat /\ Latest \in Nat
<1>1. c \in Nat /\ Latest \in Nat
  BY SendsAssumption DEF Connections, DInv, TypeOK, Latest
<1>. QED
  BY <1>1 DEF DInv, NoneAhead

LEMMA ReadsKeepOrder ==
  ASSUME DInv, TypeOK', NEW c \in Connections, BridgeReads(c)
  PROVE  Sent' /\ ShownSent' /\ NoneAhead' /\ DetectionsOnceInOrder'
<1>1. lines[c] # <<>> /\ UNCHANGED <<count, breaks>>
  BY DEF BridgeReads, Converts, Skips, SendFails, Raises, NextSays
<1>2. c <= Latest /\ c \in Nat /\ Latest \in Nat
  BY <1>1, ReadOfPast
<1>3. /\ 1 \in DOMAIN lines[c] /\ Head(lines[c]) = lines[c][1]
      /\ \A i \in DOMAIN Tail(lines[c]) :
           i \in Nat /\ i >= 1 /\ i + 1 \in DOMAIN lines[c] /\ Tail(lines[c])[i] = lines[c][i + 1]
  BY <1>1, TailElements DEF DInv
<1>4. CASE Raises(c)
  <2>1. lines' = [lines EXCEPT ![c] = <<>>] /\ shown' = shown /\ 0 \in {0, 1}
    BY <1>4 DEF Raises
  <2>2. DOMAIN <<>> = {}
    OBVIOUS
  <2>. QED
    BY <1>1, <2>1, <2>2, LineShrinks
<1>5. CASE TakesNext(c) /\ shown' = shown
  <2>1. lines' = [lines EXCEPT ![c] = Tail(lines[c])] /\ 1 \in {0, 1}
    BY <1>5 DEF TakesNext
  <2>. QED
    BY <1>1, <1>2, <1>3, <1>5, <2>1, LineShrinks
<1>6. CASE /\ TakesNext(c) /\ lines[c][1].type = "detection"
           /\ shown' = shown \cup {[node |-> lines[c][1].node, n |-> lines[c][1].n, over |-> c]}
  <2>. DEFINE o == [d \in Connections |-> IF d = c THEN 1 ELSE 0]
  <2>1. o \in [Connections -> {0, 1}] /\ o[c] = 1 /\ \A d \in Connections : d # c => o[d] = 0
    OBVIOUS
  <2>. HIDE DEF o
  <2>2. lines \in [Connections -> Seq(Message)] /\ breaks \in Nat
    BY SendsAssumption DEF DInv, TypeOK
  <2>3. lines'[c] = Tail(lines[c]) /\ \A d \in Connections : d # c => lines'[d] = lines[d]
    BY <1>6, <2>2 DEF TakesNext
  <2>4. \A d \in Connections : \A i \in DOMAIN lines'[d] :
          i + o[d] \in DOMAIN lines[d] /\ lines'[d][i] = lines[d][i + o[d]]
    <3>. SUFFICES ASSUME NEW d \in Connections, NEW i \in DOMAIN lines'[d]
                  PROVE  i + o[d] \in DOMAIN lines[d] /\ lines'[d][i] = lines[d][i + o[d]]
      OBVIOUS
    <3>1. CASE d = c
      BY <1>3, <2>1, <2>3, <3>1
    <3>2. CASE d # c
      <4>1. i \in Nat /\ i \in DOMAIN lines[d]
        BY <2>3, <3>2, LineElements DEF DInv
      <4>. QED
        BY <2>1, <2>3, <3>2, <4>1
    <3>. QED
      BY <3>1, <3>2
  <2>5. \A d \in Connections : d > Latest' => lines'[d] = <<>>
    <3>1. Latest' = Latest /\ \A d \in Connections : d > Latest => d # c
      BY <1>1, <1>2 DEF Latest
    <3>. QED
      BY <2>3, <3>1 DEF DInv, NoneAhead
  <2>6. PICK s : s = [node |-> lines[c][1].node, n |-> lines[c][1].n, over |-> c]
    OBVIOUS
  <2>7. s.node = lines[c][1].node /\ s.n = lines[c][1].n /\ s.over = c /\ s.n \in Nat
    BY <1>3, <2>6, LineElements DEF DInv
  <2>8. s.n <= count[s.node] /\ s.over <= Latest
    BY <1>2, <1>3, <1>6, <2>7 DEF DInv, Sent, IsDetection
  <2>9. ASSUME NEW d \in Connections, NEW i \in DOMAIN lines'[d],
               lines'[d][i].type = "detection", lines'[d][i].node = s.node
        PROVE  s.n # lines'[d][i].n /\ (s.over <= d => s.n < lines'[d][i].n)
    <3>1. PICK k \in DOMAIN lines[d] : k = i + o[d] /\ lines'[d][i] = lines[d][k]
      BY <2>4
    <3>2. lines[d][k].n \in Nat /\ k \in Nat /\ d \in Nat /\ IsDetection(d, k) /\ IsDetection(c, 1)
      BY <1>6, <2>9, <3>1, LineElements DEF DInv, Connections, IsDetection
    <3>3. CASE d < c
      <4>1. d \in 1..c
        BY <1>2, <3>2, <3>3 DEF Connections
      <4>2. lines[d][k].n < lines[c][1].n
        BY <1>3, <2>7, <2>9, <3>1, <3>2, <3>3, <4>1 DEF DInv, DetectionsOnceInOrder
      <4>. QED
        BY <1>2, <2>7, <3>1, <3>2, <3>3, <4>2
    <3>4. CASE c < d \/ (c = d /\ 1 < k)
      <4>1. c \in 1..d
        BY <1>2, <3>2, <3>4 DEF Connections
      <4>2. lines[c][1].n < lines[d][k].n
        BY <1>3, <2>7, <2>9, <3>1, <3>2, <3>4, <4>1 DEF DInv, DetectionsOnceInOrder
      <4>. QED
        BY <2>7, <3>1, <3>2, <4>2
    <3>5. c = d => 1 < k
      <4>1. SUFFICES ASSUME c = d PROVE 1 < k
        OBVIOUS
      <4>2. i \in DOMAIN Tail(lines[c]) /\ k = i + 1
        BY <2>1, <2>3, <3>1, <4>1
      <4>3. i \in Nat /\ i >= 1
        BY <1>3, <4>2
      <4>. QED
        BY <4>2, <4>3
    <3>. QED
      BY <1>2, <3>2, <3>3, <3>4, <3>5
  <2>10. \A t \in shown' \ shown : t = s
    BY <1>6, <2>6
  <2>11. breaks <= breaks' /\ count' = count
    BY <1>1, <2>2
  <2>. QED
    BY <2>1, <2>4, <2>5, <2>8, <2>9, <2>10, <2>11, Shrinks
<1>. QED
  BY <1>3, <1>4, <1>5, <1>6 DEF BridgeReads, Converts, Skips, SendFails, Shown

\* A message Apex handles is newer than all of its node that went before.
LEMMA SaysKeepsOrder ==
  ASSUME DInv, TypeOK', NEW n \in Nodes, NEW type \in Types, NEW says \in Says[type],
         NodeSays(n, type, says)
  PROVE  Sent' /\ ShownSent' /\ NoneAhead' /\ DetectionsOnceInOrder'
<1>. DEFINE m == [node |-> n, type |-> type, says |-> says, n |-> count[n] + 1]
<1>1. /\ count' = [count EXCEPT ![n] = @ + 1] /\ shown' = shown /\ breaks' = breaks
      /\ lines' = lines \/ lines' = [lines EXCEPT ![Latest] = Append(@, m)]
  BY DEF NodeSays
<1>2. /\ count \in [Nodes -> Nat] /\ lines \in [Connections -> Seq(Message)]
      /\ shown \subseteq [node: Nodes, n: Nat, over: Connections]
      /\ Latest \in Connections /\ Latest' = Latest /\ \A c \in Connections : c \in Nat
  BY <1>1, ConnectionTypes DEF DInv, TypeOK, Latest, Connections
<1>3. /\ \A o \in Nodes : count[o] <= count'[o] /\ count'[o] \in Nat
      /\ count'[n] = count[n] + 1
  BY <1>1, <1>2
<1>4. ShownSent'
  <2>. SUFFICES ASSUME NEW s \in shown PROVE s.n <= count'[s.node] /\ s.over <= Latest
    BY <1>1, <1>2 DEF ShownSent
  <2>1. s.n <= count[s.node] /\ s.over <= Latest /\ s.n \in Nat /\ s.node \in Nodes
    BY <1>2 DEF DInv, ShownSent
  <2>2. count[s.node] \in Nat /\ count'[s.node] \in Nat /\ count[s.node] <= count'[s.node]
    BY <1>2, <1>3, <2>1
  <2>. QED
    BY <2>1, <2>2
<1>5. \A c \in Connections : \A i \in DOMAIN lines[c] : IsDetection(c, i) =>
        /\ lines[c][i].n <= count'[lines[c][i].node]
        /\ lines[c][i].node = n => lines[c][i].n < count'[n]
  <2>. SUFFICES ASSUME NEW c \in Connections, NEW i \in DOMAIN lines[c], IsDetection(c, i)
                PROVE  /\ lines[c][i].n <= count'[lines[c][i].node]
                       /\ lines[c][i].node = n => lines[c][i].n < count'[n]
    OBVIOUS
  <2>1. /\ lines[c][i].n \in Nat /\ lines[c][i].node \in Nodes
        /\ lines[c][i].n <= count[lines[c][i].node]
    BY LineElements DEF DInv, Sent
  <2>2. count[lines[c][i].node] \in Nat
    BY <1>2, <2>1
  <2>. QED
    BY <1>3, <2>1, <2>2
<1>6. CASE lines' = lines
  <2>1. Sent' /\ NoneAhead'
    BY <1>2, <1>5, <1>6 DEF DInv, Sent, NoneAhead, IsDetection
  <2>2. DetectionsOnceInOrder'
    BY <1>1, <1>6 DEF DInv, DetectionsOnceInOrder, IsDetection
  <2>. QED
    BY <1>4, <2>1, <2>2
<1>7. CASE lines' = [lines EXCEPT ![Latest] = Append(@, m)]
  <2>1. m \in Message /\ m.node = n /\ m.n = count'[n]
    <3>1. Says[type] \in Range(Says)
      BY DEF Types, Range
    <3>. QED
      BY <1>2, <1>3, <3>1 DEF Message
  <2>. HIDE DEF m
  <2>. DEFINE l == Len(lines[Latest])
  <2>2. /\ DOMAIN lines[Latest] = 1..l /\ l \in Nat
        /\ DOMAIN lines'[Latest] = 1..(l + 1)
        /\ lines'[Latest][l + 1] = m
        /\ \A i \in DOMAIN lines[Latest] : lines'[Latest][i] = lines[Latest][i]
    BY <1>2, <1>7, <2>1, AppendProperties, LenProperties
  <2>. HIDE DEF l
  <2>3. \A c \in Connections : c # Latest => lines'[c] = lines[c]
    BY <1>2, <1>7
  <2>4. \A c \in Connections : \A i \in DOMAIN lines'[c] :
          \/ c = Latest /\ i = l + 1 /\ lines'[c][i] = m
          \/ i \in DOMAIN lines[c] /\ lines'[c][i] = lines[c][i]
    BY <2>2, <2>3
  <2>5. Sent'
    <3>. SUFFICES ASSUME NEW c \in Connections, NEW i \in DOMAIN lines'[c], IsDetection(c, i)'
                  PROVE  lines'[c][i].n <= count'[lines'[c][i].node]
      BY DEF Sent
    <3>1. CASE lines'[c][i] = m
      BY <1>3, <2>1, <3>1
    <3>2. CASE i \in DOMAIN lines[c] /\ lines'[c][i] = lines[c][i]
      BY <1>5, <3>2 DEF IsDetection
    <3>. QED
      BY <2>4, <3>1, <3>2
  <2>6. NoneAhead'
    <3>1. \A c \in Connections : c > Latest => c # Latest
      BY <1>2
    <3>. QED
      BY <1>2, <2>3, <3>1 DEF DInv, NoneAhead
  <2>7. DetectionsOnceInOrder'
    <3>. SUFFICES ASSUME NEW c \in Connections, NEW i \in DOMAIN lines'[c], IsDetection(c, i)'
                  PROVE  /\ \A s \in shown : s.node = lines'[c][i].node =>
                              s.n # lines'[c][i].n /\ (s.over <= c => s.n < lines'[c][i].n)
                         /\ \A d \in 1..c : \A j \in DOMAIN lines'[d] :
                              IsDetection(d, j)' /\ lines'[d][j].node = lines'[c][i].node
                              /\ (d < c \/ j < i) => lines'[d][j].n < lines'[c][i].n
      BY <1>1 DEF DetectionsOnceInOrder
    <3>1. \A d \in 1..c : d \in Connections
      BY EarlierConnection
    <3>2. CASE c = Latest /\ i = l + 1 /\ lines'[c][i] = m
      <4>1. ASSUME NEW s \in shown, s.node = n PROVE s.n < m.n
        <5>1. s.n <= count[n] /\ s.n \in Nat /\ count[n] \in Nat
          BY <1>2, <4>1 DEF DInv, ShownSent
        <5>. QED
          BY <1>3, <2>1, <5>1
      <4>2. ASSUME NEW s \in shown, s.node = lines'[c][i].node
            PROVE  s.n # lines'[c][i].n /\ (s.over <= c => s.n < lines'[c][i].n)
        <5>1. s.n < m.n /\ s.n \in Nat /\ m.n \in Nat
          BY <1>2, <1>3, <2>1, <3>2, <4>1, <4>2
        <5>. QED
          BY <3>2, <5>1
      <4>3. ASSUME NEW d \in 1..c, NEW j \in DOMAIN lines'[d],
                   IsDetection(d, j)', lines'[d][j].node = lines'[c][i].node, d < c \/ j < i
            PROVE  lines'[d][j].n < lines'[c][i].n
        <5>1. d \in Connections /\ d \in Nat /\ c \in Nat
          BY <1>2, <3>1
        <5>2. ~(d = Latest /\ j = l + 1)
          BY <2>2, <3>2, <4>3, <5>1
        <5>3. j \in DOMAIN lines[d] /\ lines'[d][j] = lines[d][j]
          BY <2>4, <5>1, <5>2
        <5>. QED
          BY <1>5, <2>1, <3>2, <4>3, <5>1, <5>3 DEF IsDetection
      <4>. QED
        BY <4>2, <4>3
    <3>3. CASE i \in DOMAIN lines[c] /\ lines'[c][i] = lines[c][i]
      <4>1. IsDetection(c, i) /\ c <= Latest /\ c \in Nat /\ Latest \in Nat
        <5>1. lines[c] # <<>>
          BY <3>3
        <5>. QED
          BY <3>3, <5>1, ReadOfPast DEF IsDetection
      <4>2. ASSUME NEW d \in 1..c, NEW j \in DOMAIN lines'[d],
                   IsDetection(d, j)', lines'[d][j].node = lines'[c][i].node, d < c \/ j < i
            PROVE  lines'[d][j].n < lines'[c][i].n
        <5>1. d \in Connections /\ d \in Nat
          BY <1>2, <3>1
        <5>2. ~(d = Latest /\ j = l + 1)
          BY <2>2, <3>3, <4>1, <4>2, <5>1
        <5>3. j \in DOMAIN lines[d] /\ lines'[d][j] = lines[d][j]
          BY <2>4, <5>1, <5>2
        <5>. QED
          BY <3>3, <4>1, <4>2, <5>3 DEF DInv, DetectionsOnceInOrder, IsDetection
      <4>. QED
        BY <3>3, <4>1, <4>2 DEF DInv, DetectionsOnceInOrder
    <3>. QED
      BY <2>4, <3>2, <3>3
  <2>. QED
    BY <1>4, <2>5, <2>6, <2>7
<1>. QED
  BY <1>1, <1>6, <1>7

LEMMA DInvStep == DInv /\ [Next]_vars => DInv'
<1>. SUFFICES ASSUME DInv, [Next]_vars PROVE DInv'
  OBVIOUS
<1>1. TypeOK'
  BY TypeStep DEF DInv
<1>2. SUFFICES Sent' /\ ShownSent' /\ NoneAhead' /\ DetectionsOnceInOrder'
  BY <1>1 DEF DInv
<1>3. /\ Latest \in Connections /\ Latest \in Nat /\ breaks \in Nat
      /\ lines \in [Connections -> Seq(Message)]
  BY SendsAssumption, ConnectionTypes DEF DInv, TypeOK, Latest
<1>4. ASSUME NEW n \in Nodes, NEW type \in Types, NEW says \in Says[type],
             NodeSays(n, type, says)
      PROVE  Sent' /\ ShownSent' /\ NoneAhead' /\ DetectionsOnceInOrder'
  BY <1>1, <1>4, SaysKeepsOrder
<1>5. CASE FeedConnects
  <2>1. PICK s \in Replays : lines' = [lines EXCEPT ![Latest] = s]
    BY <1>5 DEF FeedConnects
  <2>2. \A i \in DOMAIN s : s[i].type # "detection"
    BY ReplaysType DEF DInv, TypeOK, Kept
  <2>3. UNCHANGED <<count, shown, breaks>> /\ Latest <= Latest /\ 0 \in {0, 1}
    BY <1>3, <1>5 DEF FeedConnects
  <2>. QED
    BY <1>1, <1>3, <2>1, <2>2, <2>3, LineShrinks
<1>6. CASE FeedBreaks \/ BridgeRestarts
  <2>. DEFINE o == [c \in Connections |-> 0]
  <2>1. UNCHANGED <<count, shown>> /\ breaks' = breaks + 1
    BY <1>6 DEF FeedBreaks, BridgeRestarts
  <2>2. ASSUME NEW c \in Connections, NEW i \in DOMAIN lines'[c]
        PROVE  i \in DOMAIN lines[c] /\ i \in Nat /\ lines'[c][i] = lines[c][i]
    <3>1. CASE BridgeRestarts
      BY <3>1 DEF BridgeRestarts
    <3>2. CASE FeedBreaks
      <4>1. PICK got \in 0..Len(lines[Latest]) :
              lines' = [lines EXCEPT ![Latest] = SubSeq(@, 1, got)]
        BY <3>2 DEF FeedBreaks
      <4>2. CASE c = Latest
        <5>1. lines'[c] = SubSeq(lines[c], 1, got) /\ lines[c] \in Seq(Message)
          BY <1>3, <4>1, <4>2
        <5>. QED
          BY <4>1, <4>2, <5>1, <2>2, PrefixType, LineElements DEF DInv
      <4>3. CASE c # Latest
        <5>1. lines'[c] = lines[c]
          BY <1>3, <4>1, <4>3
        <5>. QED
          BY <2>2, <5>1, LineElements DEF DInv
      <4>. QED
        BY <4>2, <4>3
    <3>. QED
      BY <1>6, <3>1, <3>2
  <2>3. \A c \in Connections : c > Latest' => lines'[c] = <<>>
    <3>. SUFFICES ASSUME NEW c \in Connections, c > Latest' PROVE lines'[c] = <<>>
      OBVIOUS
    <3>1. c \in Nat /\ c > Latest
      BY <1>3, <2>1 DEF Latest, Connections
    <3>2. lines[c] = <<>> /\ c # Latest
      BY <1>3, <3>1 DEF DInv, NoneAhead
    <3>. QED
      BY <1>3, <1>6, <3>2 DEF FeedBreaks, BridgeRestarts
  <2>4. o \in [Connections -> {0, 1}] /\ \A c \in Connections : o[c] = 0
    OBVIOUS
  <2>. HIDE DEF o
  <2>5. \A c \in Connections : \A i \in DOMAIN lines'[c] :
          i + o[c] \in DOMAIN lines[c] /\ lines'[c][i] = lines[c][i + o[c]]
    <3>. SUFFICES ASSUME NEW c \in Connections, NEW i \in DOMAIN lines'[c]
                  PROVE  i + o[c] \in DOMAIN lines[c] /\ lines'[c][i] = lines[c][i + o[c]]
      OBVIOUS
    <3>1. i \in DOMAIN lines[c] /\ i \in Nat /\ lines'[c][i] = lines[c][i] /\ i + o[c] = i
      BY <2>2, <2>4
    <3>. QED
      BY <3>1
  <2>6. breaks <= breaks' /\ shown' \ shown = {} /\ count' = count
    BY <1>3, <2>1
  <2>. QED
    BY <1>1, <2>3, <2>4, <2>5, <2>6, Shrinks
<1>7. ASSUME NEW c \in Connections, BridgeReads(c)
      PROVE  Sent' /\ ShownSent' /\ NoneAhead' /\ DetectionsOnceInOrder'
  BY <1>1, <1>7, ReadsKeepOrder
<1>8. CASE UNCHANGED <<count, lines, shown, breaks>>
  BY <1>8 DEF DInv, Sent, ShownSent, NoneAhead, DetectionsOnceInOrder, IsDetection, Latest
<1>9. ASSUME NEW n \in Nodes, NodeLeaves(n)
      PROVE  Sent' /\ ShownSent' /\ NoneAhead' /\ DetectionsOnceInOrder'
  BY <1>8, <1>9 DEF NodeLeaves
<1>. QED
  BY <1>4, <1>5, <1>6, <1>7, <1>8, <1>9 DEF Next, vars

\* However often the connection breaks and is replayed while the bridge still
\* reads earlier ones, TAK gets a detection at most once, and after a newer one
\* of its node only if that came over a later connection (handle_client, lines
\* 105-130, one task per connection; connect_tcp_repeatedly).
THEOREM DetectionsOnce == Spec => []DetectionsOnceInOrder
<1>1. DInv => DetectionsOnceInOrder
  BY DEF DInv
<1>. QED
  BY <1>1, DInvInit, DInvStep, PTL DEF Spec
=============================================================================
