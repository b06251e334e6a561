-------------------------- MODULE SqliteArchiveProofs --------------------------
(***************************************************************************)
(* Theorems about SqliteArchive: for any number of connections, messages   *)
(* and rollovers, and any size of the chunks.                              *)
(***************************************************************************)
EXTENDS SqliteArchive, SequenceTheorems, FiniteSetTheorems, InductionLemmas

-----------------------------------------------------------------------------
(* Types *)

\* TypeOK part by part, with two facts more: what is inserted are messages, and
\* they are finitely many.
Rows == [Conns -> Row \cup {None}]
Database == [rows: Rows, messages: SUBSET Ids, complete: BOOLEAN]
OldFile == [messages: SUBSET Ids, exported: BOOLEAN, names: SUBSET {"RolloverFilename"}]
ServerOK ==
  /\ link \in [Conns -> {"new", "connected", "gone"}]
  /\ phase \in {"running", "stopping", "stopped"}
  /\ pending \in Seq(Item)
  /\ recorded \subseteq Message /\ IsFiniteSet(recorded)
BatchOK ==
  /\ batch \in Seq(Item)
  /\ at \in {"waiting", "writing", "exited", "dead"}
  /\ inserted \in 0..Chunk /\ inserted <= Len(batch)
  /\ at = "waiting" => batch = <<>> /\ inserted = 0
  /\ at = "writing" => batch # <<>>
  /\ \A i \in 1..inserted : batch[i].type = "message"
FilesOK ==
  /\ db \in Database
  /\ closed \in Seq(OldFile) /\ Len(closed) <= MaxRollovers
TInv == ServerOK /\ BatchOK /\ FilesOK

LEMMA TInvType == TInv => TypeOK
  BY DEF TInv, TypeOK, ServerOK, BatchOK, FilesOK, Rows, Database, OldFile

LEMMA AppendItem ==
  ASSUME NEW s \in Seq(Item), NEW item \in Item
  PROVE  Append(s, item) \in Seq(Item)
  BY AppendProperties

\* What a batch is cut down to.
LEMMA RestOfBatch ==
  ASSUME BatchOK, NEW n \in 0..Len(batch)
  PROVE  LET rest == SubSeq(batch, n + 1, Len(batch))
         IN  /\ rest \in Seq(Item)
             /\ Len(rest) = Len(batch) - n
             /\ \A i \in 1..Len(rest) : rest[i] = batch[i + n]
<1>1. batch \in Seq(Item) /\ Len(batch) \in Nat
  BY LenProperties DEF BatchOK
<1>2. \A i \in n + 1..Len(batch) : batch[i] \in Item
  BY <1>1, ElementOfSeq
<1>. QED
  BY <1>1, <1>2, SubSeqProperties

LEMMA NextItem ==
  ASSUME BatchOK, at = "writing"
  PROVE  /\ Len(batch) \in Nat \ {0}
         /\ DOMAIN batch = 1..Len(batch)
         /\ \A i \in 1..Len(batch) : batch[i] \in Item
         /\ Head(batch) = batch[1]
<1>1. batch \in Seq(Item) /\ batch # <<>>
  BY DEF BatchOK
<1>. QED
  BY <1>1, EmptySeq, LenProperties, ElementOfSeq

LEMMA Shapes ==
  ASSUME NEW item \in Item
  PROVE  /\ item.type \in {"connection", "disconnection", "message", "stop"}
         /\ item.type # "stop" => item.conn \in Conns
         /\ item.type = "message" =>
              /\ item.id \in Ids /\ item.kind \in Kinds
              /\ [conn |-> item.conn, id |-> item.id, kind |-> item.kind] \in Message
  BY DEF Item, Stop, Message

LEMMA RecordIsItem ==
  ASSUME NEW c \in Conns, NEW type \in {"connection", "disconnection"}
  PROVE  Record(type, c) \in Item
  BY DEF Record, Item

\* A chunk is a beginning of the batch that holds messages only, and at least
\* one where the batch begins with a message.
LEMMA ChunkIsPrefix ==
  ASSUME BatchOK, IsNext("message")
  PROVE  \E n \in 1..Len(batch) :
           /\ n <= Chunk
           /\ ChunkOf(batch) = SubSeq(batch, 1, n)
           /\ \A i \in 1..n : batch[i].type = "message"
<1>. DEFINE I == {i \in 1..Len(batch) : batch[i].type # "message"}
            next == SelectInSeq(batch, LAMBDA i : i.type # "message")
            group == IF next = 0 THEN batch ELSE SubSeq(batch, 1, next - 1)
            g == IF next = 0 THEN Len(batch) ELSE next - 1
<1>0. /\ Len(batch) \in Nat \ {0} /\ batch[1].type = "message"
      /\ batch \in Seq(Item) /\ \A i \in 1..Len(batch) : batch[i] \in Item
  BY NextItem DEF IsNext, BatchOK
<1>1. /\ I = {} => next = 0
      /\ I # {} => next \in I /\ \A i \in I : next <= i
  <2>1. next = IF I # {} THEN Min(I) ELSE 0
    BY DEF SelectInSeq
  <2>2. I # {} => \E x \in I : \A y \in I : x <= y
    <3>1. I \subseteq Nat
      BY <1>0
    <3>. HIDE DEF I
    <3>. QED
      BY <3>1, LeastNatural
  <2>. HIDE DEF I, next
  <2>. QED
    BY <2>1, <2>2 DEF Min
<1>2. /\ g \in 1..Len(batch) /\ \A i \in 1..g : batch[i].type = "message"
  <2>1. CASE I = {}
    BY <2>1, <1>0, <1>1
  <2>2. CASE I # {}
    <3>1. next \in 2..Len(batch)
      BY <2>2, <1>0, <1>1
    <3>2. \A i \in 1..(next - 1) : i \notin I
      BY <2>2, <3>1, <1>1
    <3>. QED
      BY <3>1, <3>2, <1>0
  <2>. QED
    BY <2>1, <2>2
<1>3. /\ group = SubSeq(batch, 1, g) /\ Len(group) = g
      /\ group \in Seq(Item)
  <2>1. group = SubSeq(batch, 1, g)
    BY <1>0, <1>1, SubSeqFull
  <2>2. Len(SubSeq(batch, 1, g)) = g /\ SubSeq(batch, 1, g) \in Seq(Item)
    <3>1. \A i \in 1..g : batch[i] \in Item
      BY <1>0, <1>2
    <3>. HIDE DEF g
    <3>. QED
      BY <1>0, <1>2, <3>1, SubSeqProperties
  <2>. QED
    BY <2>1, <2>2
<1>. DEFINE n == IF Chunk <= g THEN Chunk ELSE g
<1>4. n \in 1..g /\ n <= Chunk
  BY <1>0, <1>2, ChunkAssumption
<1>5. ChunkOf(batch) = SubSeq(SubSeq(batch, 1, g), 1, n)
  <2>1. ChunkOf(batch) = Slice(group, 1, Chunk)
    BY DEF ChunkOf
  <2>. HIDE DEF group, g
  <2>. QED
    BY <2>1, <1>3 DEF Slice
<1>6. SubSeq(SubSeq(batch, 1, g), 1, n) = SubSeq(batch, 1, n)
  <2>. HIDE DEF g, n
  <2>1. 1 \in 1..Len(batch) /\ g \in 1..Len(batch) /\ g - 1 + 1 = g
    BY <1>0, <1>2
  <2>2. 1 \in 1..(g - 1 + 1) /\ n \in 1..(g - 1 + 1)
    BY <2>1, <1>4
  <2>3. 1 + 1 - 1 = 1 /\ 1 + n - 1 = n
    BY <1>4, <1>0, <1>2
  <2>. QED
    BY <2>1, <2>2, <2>3, <1>0, SubSeqOfSubSeq
<1>. HIDE DEF g, n
<1>. QED
  BY <1>0, <1>2, <1>4, <1>5, <1>6

\* RowsAfter by its values on the beginnings of the messages.
Updates(f, rows, messages) ==
  /\ f \in [0..Len(messages) -> Rows]
  /\ f[0] = rows
  /\ \A n \in 1..Len(messages) : f[n] = UpdateRow(f[n - 1], messages[n])

LEMMA UpdateRowType ==
  ASSUME NEW rows \in Rows, NEW m \in Item, m.type = "message"
  PROVE  UpdateRow(rows, m) \in Rows
<1>. USE DEF Rows
<1>1. m.conn \in Conns /\ m.id \in Ids
  BY Shapes
<1>2. ASSUME NEW row \in Row PROVE After(row, m) \in Row
  BY <1>1 DEF After, Row
<1>3. CASE rows[m.conn] = None
  BY <1>3 DEF UpdateRow
<1>4. CASE rows[m.conn] # None
  <2>1. rows[m.conn] \in Row
    BY <1>1, <1>4
  <2>2. After(rows[m.conn], m) \in Row
    BY <1>2, <2>1
  <2>. QED
    BY <1>1, <1>4, <2>2 DEF UpdateRow
<1>. QED
  BY <1>3, <1>4

LEMMA RowsAfterUpdates ==
  ASSUME NEW rows \in Rows, NEW messages \in Seq(Item),
         \A i \in 1..Len(messages) : messages[i].type = "message"
  PROVE  \E f : Updates(f, rows, messages) /\ RowsAfter(rows, messages) = f[Len(messages)]
<1>. DEFINE N == Len(messages)
            Begins(f, k) == /\ f \in [0..k -> Rows]
                            /\ f[0] = rows
                            /\ \A n \in 1..k : f[n] = UpdateRow(f[n - 1], messages[n])
            T == {k \in 0..N : \E f : Begins(f, k)}
<1>0. N \in Nat /\ \A i \in 1..N : messages[i] \in Item
  BY LenProperties, ElementOfSeq
<1>1. 0 \in T
  <2>1. Begins([i \in 0..0 |-> rows], 0)
    OBVIOUS
  <2>. HIDE DEF Begins
  <2>. QED
    BY <2>1, <1>0
<1>2. ASSUME NEW k \in 0..(N - 1), k \in T PROVE k + 1 \in T
  <2>1. PICK f : Begins(f, k)
    BY <1>2
  <2>. DEFINE g == [i \in 0..(k + 1) |->
                      IF i = k + 1 THEN UpdateRow(f[k], messages[k + 1]) ELSE f[i]]
  <2>2. UpdateRow(f[k], messages[k + 1]) \in Rows
    <3>1. f[k] \in Rows /\ messages[k + 1] \in Item /\ messages[k + 1].type = "message"
      BY <2>1, <1>0
    <3>. QED
      BY <3>1, UpdateRowType
  <2>3. g \in [0..(k + 1) -> Rows] /\ g[0] = rows
    BY <2>1, <2>2, <1>0
  <2>4. ASSUME NEW n \in 1..(k + 1) PROVE g[n] = UpdateRow(g[n - 1], messages[n])
    <3>1. CASE n = k + 1
      BY <3>1, <1>0
    <3>2. CASE n \in 1..k
      <4>1. g[n] = f[n] /\ g[n - 1] = f[n - 1]
        BY <3>2, <1>0
      <4>. QED
        BY <3>2, <4>1, <2>1
    <3>. QED
      BY <3>1, <3>2, <1>0
  <2>5. Begins(g, k + 1)
    <3>. HIDE DEF g
    <3>. QED
      BY <2>3, <2>4
  <2>6. k + 1 \in 0..N
    BY <1>0
  <2>. HIDE DEF Begins, g
  <2>. QED
    BY <2>5, <2>6
<1>3. N \in T
  <2>. HIDE DEF T
  <2>1. \A k \in 0..N : k \in T
    BY <1>0, <1>1, <1>2, BoundedInduction
  <2>. QED
    BY <2>1, <1>0
<1>4. PICK f : Begins(f, N)
  BY <1>3
<1>5. f = [n \in 0..N |-> IF n = 0 THEN rows ELSE UpdateRow(f[n - 1], messages[n])]
  <2>1. \A n \in 0..N : f[n] = IF n = 0 THEN rows ELSE UpdateRow(f[n - 1], messages[n])
    BY <1>4, <1>0
  <2>. QED
    BY <2>1, <1>4
<1>. DEFINE after == CHOOSE a : a = [n \in 0..N |->
                        IF n = 0 THEN rows ELSE UpdateRow(a[n - 1], messages[n])]
<1>6. after = [n \in 0..N |-> IF n = 0 THEN rows ELSE UpdateRow(after[n - 1], messages[n])]
  <2>. DEFINE Is(a) == a = [n \in 0..N |->
                        IF n = 0 THEN rows ELSE UpdateRow(a[n - 1], messages[n])]
  <2>1. \E a : Is(a)
    BY <1>5
  <2>2. Is(CHOOSE a : Is(a))
    <3>. HIDE DEF Is
    <3>. QED
      BY <2>1
  <2>. QED
    BY <2>2
<1>7. RowsAfter(rows, messages) = after[N]
  BY DEF RowsAfter
<1>. HIDE DEF after
<1>. DEFINE S == {k \in 0..N : after[k] = f[k]}
<1>8. 0 \in S
  BY <1>0, <1>4, <1>6
<1>9. ASSUME NEW k \in 0..(N - 1), k \in S PROVE k + 1 \in S
  <2>1. k + 1 \in 1..N /\ k + 1 - 1 = k
    BY <1>0
  <2>2. f[k + 1] = UpdateRow(f[k], messages[k + 1])
    BY <2>1, <1>4
  <2>3. after[k + 1] = UpdateRow(after[k], messages[k + 1])
    BY <2>1, <1>6, <1>0
  <2>. QED
    BY <2>1, <2>2, <2>3, <1>9, <1>0
<1>10. after[N] = f[N]
  <2>. HIDE DEF S
  <2>1. \A k \in 0..N : k \in S
    BY <1>0, <1>8, <1>9, BoundedInduction
  <2>. QED
    BY <2>1, <1>0 DEF S
<1>. QED
  BY <1>4, <1>7, <1>10 DEF Updates

LEMMA RowsAfterType ==
  ASSUME NEW rows \in Rows, NEW messages \in Seq(Item),
         \A i \in 1..Len(messages) : messages[i].type = "message"
  PROVE  RowsAfter(rows, messages) \in Rows
<1>1. PICK f : Updates(f, rows, messages) /\ RowsAfter(rows, messages) = f[Len(messages)]
  BY RowsAfterUpdates
<1>. QED
  BY <1>1, LenProperties DEF Updates

LEMMA TypeInit == Init => TInv
<1>. SUFFICES ASSUME Init PROVE TInv
  OBVIOUS
<1>1. ServerOK
  BY EmptySeq, FS_EmptySet DEF Init, ServerOK
<1>2. BatchOK
  BY EmptySeq, ChunkAssumption DEF Init, BatchOK
<1>3. FilesOK
  BY EmptySeq, BoundsAssumption DEF Init, FilesOK, EmptyDatabase, Database, Rows
<1>. QED
  BY <1>1, <1>2, <1>3 DEF TInv

LEMMA ServerType == ASSUME TInv, ServerNext PROVE TInv'
<1>1. ServerOK'
  <2>. USE DEF TInv, ServerOK
  <2>1. ASSUME NEW c \in Conns, Connect(c) PROVE ServerOK'
    BY <2>1, RecordIsItem, AppendItem DEF Connect, Add
  <2>2. ASSUME NEW c \in Conns, Disconnect(c) PROVE ServerOK'
    BY <2>2, RecordIsItem, AppendItem DEF Disconnect, Add
  <2>3. ASSUME NEW c \in Conns, NEW k \in Kinds, RecordMessage(c, k) PROVE ServerOK'
    <3>. DEFINE id == Cardinality(recorded) + 1
                m == [conn |-> c, id |-> id, kind |-> k]
    <3>1. id \in Ids
      BY <2>3, FS_CardinalityType, BoundsAssumption DEF RecordMessage, Ids
    <3>2. recorded' = recorded \cup {m} /\ m \in Message
      BY <2>3, <3>1 DEF RecordMessage, Message
    <3>3. IsFiniteSet(recorded')
      <4>. HIDE DEF m
      <4>. QED
        BY <3>2, FS_AddElement
    <3>4. pending' \in Seq(Item)
      <4>1. [type |-> "message", conn |-> c, id |-> id, kind |-> k] \in Item
        BY <3>1 DEF Item
      <4>. QED
        BY <2>3, <4>1, AppendItem DEF RecordMessage, Add
    <3>. QED
      BY <2>3, <3>2, <3>3, <3>4 DEF RecordMessage, server
  <2>4. CASE StopServer
    BY <2>4 DEF StopServer
  <2>5. CASE StopArchive
    BY <2>5, AppendItem DEF StopArchive, Add, Item
  <2>. QED
    BY <2>1, <2>2, <2>3, <2>4, <2>5 DEF ServerNext
<1>2. UNCHANGED <<thread, db, closed>>
  BY DEF ServerNext, Connect, Disconnect, RecordMessage, StopServer, StopArchive
<1>3. BatchOK'
  BY <1>2 DEF thread, TInv, BatchOK
<1>4. FilesOK'
  BY <1>2 DEF TInv, FilesOK
<1>. QED
  BY <1>1, <1>3, <1>4 DEF TInv

\* A record of a connection comes when no chunk is half written.
LEMMA NextRecord ==
  ASSUME BatchOK, NEW type \in {"connection", "disconnection", "stop"}, IsNext(type)
  PROVE  /\ at = "writing" /\ inserted = 0
         /\ Len(batch) \in Nat \ {0} /\ 1 \in 1..Len(batch)
         /\ batch[1] \in Item /\ Head(batch) = batch[1] /\ batch[1].type = type
         /\ type # "stop" => Head(batch).conn \in Conns
<1>1. /\ at = "writing"
      /\ Len(batch) \in Nat \ {0} /\ 1 \in 1..Len(batch)
      /\ batch[1] \in Item /\ Head(batch) = batch[1] /\ batch[1].type = type
  BY NextItem DEF IsNext
<1>2. inserted = 0
  BY <1>1 DEF BatchOK
<1>. QED
  BY <1>1, <1>2, Shapes

\* The thread is done with n items, and those of them that it had inserted.
LEMMA HandledType ==
  ASSUME BatchOK, at = "writing", NEW n \in 1..Len(batch), Handled(n), inserted' = 0
  PROVE  BatchOK'
<1>1. Len(batch) \in Nat \ {0}
  BY NextItem
<1>2. batch' \in Seq(Item) /\ Len(batch') = Len(batch) - n
  BY <1>1, RestOfBatch DEF Handled
<1>3. batch' = <<>> <=> Len(batch') = 0
  BY <1>2, EmptySeq
<1>. QED
  BY <1>1, <1>2, <1>3, ChunkAssumption DEF Handled, BatchOK

\* What a transaction of messages takes from the batch.
LEMMA ChunkInserted ==
  ASSUME BatchOK, InsertMessages
  PROVE  /\ inserted' \in 1..Len(batch) /\ inserted' <= Chunk
         /\ \A i \in 1..inserted' : batch[i].type = "message" /\ batch[i] \in Item
         /\ db' = [db EXCEPT !.messages = @ \cup {batch[i].id : i \in 1..inserted'}]
<1>1. PICK n \in 1..Len(batch) :
         /\ n <= Chunk
         /\ ChunkOf(batch) = SubSeq(batch, 1, n)
         /\ \A i \in 1..n : batch[i].type = "message"
  BY ChunkIsPrefix DEF InsertMessages
<1>2. Len(batch) \in Nat \ {0} /\ \A i \in 1..n : batch[i] \in Item
  BY NextItem DEF InsertMessages, IsNext
<1>3. /\ DOMAIN ChunkOf(batch) = 1..n
      /\ Len(ChunkOf(batch)) = n
      /\ \A i \in 1..n : ChunkOf(batch)[i] = batch[i]
  <2>1. n - 1 + 1 = n
    BY <1>2
  <2>. QED
    BY <1>1, <1>2, <2>1, SubSeqProperties, LenProperties
<1>4. inserted' = n
  BY <1>3 DEF InsertMessages
<1>5. {ChunkOf(batch)[i].id : i \in DOMAIN ChunkOf(batch)} = {batch[i].id : i \in 1..n}
  BY <1>3
<1>. QED
  BY <1>1, <1>2, <1>4, <1>5 DEF InsertMessages

\* The chunk whose rows are updated.
LEMMA ChunkUpdated ==
  ASSUME BatchOK, UpdateConnections
  PROVE  LET chunk == SubSeq(batch, 1, inserted)
         IN  /\ inserted \in 1..Len(batch)
             /\ chunk \in Seq(Item) /\ Len(chunk) = inserted
             /\ \A i \in 1..inserted :
                  chunk[i] = batch[i] /\ chunk[i].type = "message" /\ chunk[i] \in Item
<1>1. inserted \in 1..Len(batch) /\ Len(batch) \in Nat /\ \A i \in 1..inserted : batch[i] \in Item
  BY NextItem, ChunkAssumption DEF UpdateConnections, IsNext, BatchOK
<1>2. inserted - 1 + 1 = inserted
  BY <1>1
<1>3. /\ SubSeq(batch, 1, inserted) \in Seq(Item)
      /\ Len(SubSeq(batch, 1, inserted)) = inserted
      /\ \A i \in 1..inserted : SubSeq(batch, 1, inserted)[i] = batch[i]
  BY <1>1, <1>2, SubSeqProperties
<1>. QED
  BY <1>1, <1>3 DEF BatchOK

LEMMA BatchStep == ASSUME TInv, Writes PROVE BatchOK'
<1>. USE DEF TInv
<1>1. CASE Take
  BY <1>1, LenProperties, EmptySeq DEF Take, ServerOK, BatchOK
<1>2. CASE InsertConnection
  BY <1>2, NextRecord, HandledType DEF InsertConnection
<1>3. CASE UpdateDisconnection
  BY <1>3, NextRecord, HandledType DEF UpdateDisconnection
<1>4. CASE InsertMessages
  <2>1. Len(batch) \in Nat /\ UNCHANGED <<at, batch>>
    BY <1>4, NextItem DEF InsertMessages, IsNext
  <2>. QED
    BY <1>4, <2>1, ChunkInserted, ChunkAssumption DEF InsertMessages, IsNext, BatchOK
<1>5. CASE UpdateConnections
  BY <1>5, ChunkUpdated, HandledType DEF UpdateConnections, IsNext
<1>6. CASE Exit
  BY <1>6, NextRecord, EmptySeq DEF Exit, BatchOK
<1>. QED
  BY <1>1, <1>2, <1>3, <1>4, <1>5, <1>6 DEF Writes

LEMMA FilesStep == ASSUME TInv, Writes PROVE FilesOK'
<1>. USE DEF TInv
<1>1. CASE Take \/ Exit
  BY <1>1 DEF Take, Exit, FilesOK
<1>2. CASE InsertConnection
  <2>1. Head(batch).conn \in Conns
    BY <1>2, NextRecord DEF InsertConnection
  <2>2. [active |-> TRUE, registration |-> NoId, statusNew |-> NoId,
         statusUnchanged |-> NoId, detection |-> NoId] \in Row
    BY DEF Row
  <2>3. db' \in Database
    BY <1>2, <2>1, <2>2 DEF InsertConnection, FilesOK, Database, Rows
  <2>. QED
    BY <1>2, <2>3 DEF InsertConnection, FilesOK
<1>3. CASE UpdateDisconnection
  <2>. DEFINE c == Head(batch).conn
  <2>1. c \in Conns
    BY <1>3, NextRecord DEF UpdateDisconnection
  <2>2. db.rows[c] # None => [db.rows[c] EXCEPT !.active = FALSE] \in Row
    <3>1. db.rows[c] \in Row \cup {None}
      BY <2>1 DEF FilesOK, Database, Rows
    <3>. QED
      BY <3>1 DEF Row
  <2>3. db' \in Database
    BY <1>3, <2>1, <2>2 DEF UpdateDisconnection, FilesOK, Database, Rows
  <2>. QED
    BY <1>3, <2>3 DEF UpdateDisconnection, FilesOK
<1>4. CASE InsertMessages
  <2>1. \A i \in 1..inserted' : batch[i].id \in Ids
    BY <1>4, ChunkInserted, Shapes
  <2>2. db' \in Database
    BY <1>4, <2>1, ChunkInserted DEF FilesOK, Database
  <2>. QED
    BY <1>4, <2>2 DEF InsertMessages, FilesOK
<1>5. CASE UpdateConnections
  <2>1. RowsAfter(db.rows, SubSeq(batch, 1, inserted)) \in Rows
    <3>1. db.rows \in Rows
      BY DEF FilesOK, Database
    <3>. QED
      BY <1>5, <3>1, ChunkUpdated, RowsAfterType
  <2>2. db' \in Database
    BY <1>5, <2>1 DEF UpdateConnections, FilesOK, Database
  <2>. QED
    BY <1>5, <2>2 DEF UpdateConnections, FilesOK
<1>. QED
  BY <1>1, <1>2, <1>3, <1>4, <1>5 DEF Writes

LEMMA RolloverType == ASSUME FilesOK, NEW ok \in BOOLEAN, Rollover(ok) PROVE FilesOK'
<1>. DEFINE old == [messages |-> db.messages, exported |-> ok,
                    names |-> IF ok THEN ExportWrites ELSE {}]
<1>1. old \in OldFile
  BY DEF FilesOK, Database, OldFile, ExportWrites
<1>2. closed' = Append(closed, old)
  BY DEF Rollover
<1>3. closed' \in Seq(OldFile) /\ Len(closed') = Len(closed) + 1 /\ Len(closed) \in Nat
  <2>. HIDE DEF old
  <2>. QED
    BY <1>1, <1>2, AppendProperties, LenProperties DEF FilesOK
<1>4. db' \in Database
  BY DEF Rollover, Export, EmptyDatabase, FilesOK, Database, Rows
<1>5. Len(closed') <= MaxRollovers
  <2>1. Len(closed) < MaxRollovers
    BY DEF Rollover
  <2>. QED
    BY <2>1, <1>3, BoundsAssumption
<1>. QED
  BY <1>3, <1>4, <1>5 DEF FilesOK

LEMMA TypeStep == TInv /\ [Next]_vars => TInv'
<1>. SUFFICES ASSUME TInv, [Next]_vars PROVE TInv'
  OBVIOUS
<1>. USE DEF TInv
<1>1. CASE ServerNext
  BY <1>1, ServerType
<1>2. CASE Writes
  <2>1. ServerOK'
    <3>1. CASE Take
      BY <3>1, EmptySeq DEF Take, server, ServerOK
    <3>2. CASE UNCHANGED <<server, pending, recorded>>
      BY <3>2 DEF server, ServerOK
    <3>. QED
      BY <1>2, <3>1, <3>2 DEF Writes, InsertConnection, UpdateDisconnection,
        InsertMessages, UpdateConnections, Exit
  <2>. QED
    BY <1>2, <2>1, BatchStep, FilesStep
<1>3. CASE SqlError \/ RolloverDies
  BY <1>3 DEF SqlError, RolloverDies, server, ServerOK, BatchOK, FilesOK
<1>4. ASSUME NEW ok \in BOOLEAN, Rollover(ok) PROVE TInv'
  <2>1. FilesOK'
    BY <1>4, RolloverType
  <2>. QED
    BY <1>4, <2>1 DEF Rollover, server, thread, ServerOK, BatchOK
<1>5. CASE UNCHANGED vars
  BY <1>5 DEF vars, ServerOK, BatchOK, FilesOK
<1>. QED
  BY <1>1, <1>2, <1>3, <1>4, <1>5 DEF Next

\* The server's list, the thread's batch and the files keep their types; in
\* particular the thread never waits with items in its batch, and never counts
\* more messages as inserted than it holds (sqlite_thread.run).
THEOREM ArchiveTypeCorrect == Spec => []TypeOK
  BY TInvType, TypeInit, TypeStep, PTL DEF Spec

-----------------------------------------------------------------------------
(* The queue of what the archive has still to do, in order *)

Queue == batch \o pending
IsMessage(i) == Queue[i].type = "message"
InQueue(id) == \E i \in 1..Len(Queue) : IsMessage(i) /\ Queue[i].id = id

\* What a step does to the queue.
Adds(item) ==
  /\ item \in Item
  /\ Len(Queue') = Len(Queue) + 1
  /\ \A i \in 1..Len(Queue) : Queue'[i] = Queue[i]
  /\ Queue'[Len(Queue) + 1] = item
Drops(n) ==
  /\ n \in 1..Len(Queue)
  /\ Len(Queue') = Len(Queue) - n
  /\ \A i \in 1..Len(Queue') : Queue'[i] = Queue[i + n]

LEMMA BatchBeforePending ==
  ASSUME NEW b \in Seq(Item), NEW p \in Seq(Item)
  PROVE  /\ b \o p \in Seq(Item)
         /\ Len(b) \in Nat /\ Len(p) \in Nat /\ Len(b \o p) = Len(b) + Len(p)
         /\ \A i \in 1..Len(b) : (b \o p)[i] = b[i]
         /\ \A i \in 1..Len(p) : (b \o p)[Len(b) + i] = p[i]
         /\ \A i \in 1..Len(b \o p) : (b \o p)[i] \in Item
<1>1. b \o p \in Seq(Item) /\ Len(b) \in Nat /\ Len(p) \in Nat /\ Len(b \o p) = Len(b) + Len(p)
  BY ConcatProperties, LenProperties
<1>2. \A i \in 1..Len(b) + Len(p) : (b \o p)[i] = IF i <= Len(b) THEN b[i] ELSE p[i - Len(b)]
  BY ConcatProperties
<1>3. \A i \in 1..Len(b) : (b \o p)[i] = b[i]
  BY <1>1, <1>2
<1>4. ASSUME NEW i \in 1..Len(p) PROVE (b \o p)[Len(b) + i] = p[i]
  <2>1. Len(b) + i \in 1..Len(b) + Len(p) /\ ~(Len(b) + i <= Len(b)) /\ Len(b) + i - Len(b) = i
    BY <1>1
  <2>. QED
    BY <2>1, <1>2
<1>. QED
  BY <1>1, <1>3, <1>4, ElementOfSeq

LEMMA QueueType ==
  ASSUME TInv
  PROVE  /\ Queue \in Seq(Item) /\ Len(Queue) \in Nat
         /\ Len(batch) \in Nat /\ Len(batch) <= Len(Queue)
         /\ \A i \in 1..Len(Queue) : Queue[i] \in Item
         /\ \A i \in 1..Len(batch) : Queue[i] = batch[i]
<1>1. batch \in Seq(Item) /\ pending \in Seq(Item)
  BY DEF TInv, ServerOK, BatchOK
<1>. QED
  BY <1>1, BatchBeforePending DEF Queue

\* Queued, said of the queue.
LEMMA QueuedIsInQueue == ASSUME TInv, NEW id PROVE id \in Queued <=> InQueue(id)
<1>1. batch \in Seq(Item) /\ pending \in Seq(Item)
  BY DEF TInv, ServerOK, BatchOK
<1>2. /\ DOMAIN batch = 1..Len(batch) /\ DOMAIN pending = 1..Len(pending)
      /\ Len(batch) \in Nat /\ Len(pending) \in Nat
      /\ Len(Queue) = Len(batch) + Len(pending)
      /\ \A i \in 1..Len(batch) : Queue[i] = batch[i]
      /\ \A i \in 1..Len(pending) : Queue[Len(batch) + i] = pending[i]
  BY <1>1, LenProperties, BatchBeforePending DEF Queue
<1>3. id \in MessagesIn(batch)
        <=> \E i \in 1..Len(batch) : batch[i].type = "message" /\ batch[i].id = id
  BY <1>2 DEF MessagesIn, InSeq
<1>4. id \in MessagesIn(pending)
        <=> \E i \in 1..Len(pending) : pending[i].type = "message" /\ pending[i].id = id
  BY <1>2 DEF MessagesIn, InSeq
<1>5. ASSUME id \in Queued PROVE InQueue(id)
  <2>1. CASE id \in MessagesIn(batch)
    <3>1. PICK i \in 1..Len(batch) : batch[i].type = "message" /\ batch[i].id = id
      BY <2>1, <1>3
    <3>2. i \in 1..Len(Queue) /\ Queue[i] = batch[i]
      BY <3>1, <1>2
    <3>. QED
      BY <3>1, <3>2 DEF InQueue, IsMessage
  <2>2. CASE id \in MessagesIn(pending)
    <3>1. PICK i \in 1..Len(pending) : pending[i].type = "message" /\ pending[i].id = id
      BY <2>2, <1>4
    <3>2. Len(batch) + i \in 1..Len(Queue) /\ Queue[Len(batch) + i] = pending[i]
      BY <3>1, <1>2
    <3>. QED
      BY <3>1, <3>2 DEF InQueue, IsMessage
  <2>. QED
    BY <1>5, <2>1, <2>2 DEF Queued
<1>6. ASSUME InQueue(id) PROVE id \in Queued
  <2>1. PICK i \in 1..Len(Queue) : Queue[i].type = "message" /\ Queue[i].id = id
    BY <1>6 DEF InQueue, IsMessage
  <2>2. CASE i <= Len(batch)
    BY <2>1, <2>2, <1>2, <1>3 DEF Queued
  <2>3. CASE i > Len(batch)
    <3>1. i - Len(batch) \in 1..Len(pending) /\ i = Len(batch) + (i - Len(batch))
      BY <2>1, <2>3, <1>2
    <3>2. Queue[i] = pending[i - Len(batch)]
      BY <3>1, <1>2
    <3>. QED
      BY <2>1, <3>1, <3>2, <1>4 DEF Queued
  <2>. QED
    BY <2>1, <2>2, <2>3, <1>2
<1>. QED
  BY <1>5, <1>6

LEMMA AddIsLast ==
  ASSUME TInv, NEW item \in Item, Add(item), batch' = batch
  PROVE  Adds(item)
<1>1. batch \in Seq(Item) /\ pending \in Seq(Item)
  BY DEF TInv, ServerOK, BatchOK
<1>2. /\ pending' \in Seq(Item) /\ Len(pending') = Len(pending) + 1
      /\ \A i \in 1..Len(pending) : pending'[i] = pending[i]
      /\ pending'[Len(pending) + 1] = item
  BY <1>1, AppendProperties DEF Add
<1>3. /\ Len(batch) \in Nat /\ Len(pending) \in Nat
      /\ Len(Queue) = Len(batch) + Len(pending)
      /\ \A i \in 1..Len(batch) : Queue[i] = batch[i]
      /\ \A i \in 1..Len(pending) : Queue[Len(batch) + i] = pending[i]
  BY <1>1, BatchBeforePending DEF Queue
<1>4. /\ Len(Queue') = Len(batch) + Len(pending')
      /\ \A i \in 1..Len(batch) : Queue'[i] = batch[i]
      /\ \A i \in 1..Len(pending') : Queue'[Len(batch) + i] = pending'[i]
  BY <1>1, <1>2, BatchBeforePending DEF Queue
<1>5. ASSUME NEW i \in 1..Len(Queue) PROVE Queue'[i] = Queue[i]
  <2>1. CASE i <= Len(batch)
    BY <2>1, <1>3, <1>4
  <2>2. CASE i > Len(batch)
    <3>. DEFINE j == i - Len(batch)
    <3>1. j \in 1..Len(pending) /\ i = Len(batch) + j
      BY <2>2, <1>3
    <3>2. j \in 1..Len(pending')
      BY <3>1, <1>2, <1>3
    <3>. HIDE DEF j
    <3>3. Queue[i] = pending[j]
      BY <3>1, <1>3
    <3>4. Queue'[i] = pending'[j]
      BY <3>1, <3>2, <1>4
    <3>. QED
      BY <3>1, <3>3, <3>4, <1>2
  <2>. QED
    BY <2>1, <2>2, <1>3
<1>6. Queue'[Len(Queue) + 1] = item
  <2>. DEFINE k == Len(pending) + 1
  <2>1. /\ k \in 1..Len(pending') /\ Len(Queue) + 1 = Len(batch) + k
        /\ pending'[k] = item
    BY <1>2, <1>3
  <2>2. Queue'[Len(batch) + k] = pending'[k]
    <3>. HIDE DEF k
    <3>. QED
      BY <2>1, <1>4
  <2>. QED
    BY <2>1, <2>2
<1>. QED
  BY <1>2, <1>3, <1>4, <1>5, <1>6 DEF Adds

LEMMA TakeKeepsQueue == ASSUME TInv, Take PROVE Queue' = Queue
<1>1. batch = <<>> /\ pending \in Seq(Item)
  BY DEF Take, TInv, ServerOK, BatchOK
<1>. QED
  BY <1>1, ConcatEmptySeq DEF Take, Queue

LEMMA HandledDrops ==
  ASSUME TInv, NEW n \in 1..Len(batch), Handled(n), pending' = pending
  PROVE  Drops(n)
<1>1. batch \in Seq(Item) /\ pending \in Seq(Item)
  BY DEF TInv, ServerOK, BatchOK
<1>2. /\ Len(batch) \in Nat /\ Len(pending) \in Nat
      /\ Len(Queue) = Len(batch) + Len(pending)
      /\ \A i \in 1..Len(batch) : Queue[i] = batch[i]
      /\ \A i \in 1..Len(pending) : Queue[Len(batch) + i] = pending[i]
  BY <1>1, BatchBeforePending DEF Queue
<1>3. /\ batch' \in Seq(Item) /\ Len(batch') = Len(batch) - n
      /\ \A i \in 1..Len(batch') : batch'[i] = batch[i + n]
  BY <1>2, RestOfBatch DEF Handled, TInv
<1>4. /\ Len(Queue') = Len(batch') + Len(pending)
      /\ \A i \in 1..Len(batch') : Queue'[i] = batch'[i]
      /\ \A i \in 1..Len(pending) : Queue'[Len(batch') + i] = pending[i]
  <2>1. PICK b \in Seq(Item) : b = batch'
    BY <1>3
  <2>2. Queue' = b \o pending
    BY <2>1 DEF Queue
  <2>. QED
    BY <1>1, <2>1, <2>2, BatchBeforePending
<1>5. ASSUME NEW i \in 1..Len(Queue') PROVE Queue'[i] = Queue[i + n]
  <2>1. CASE i <= Len(batch')
    <3>1. i \in 1..Len(batch') /\ i + n \in 1..Len(batch)
      BY <2>1, <1>2, <1>3
    <3>. QED
      BY <3>1, <1>2, <1>3, <1>4
  <2>2. CASE i > Len(batch')
    <3>. DEFINE j == i - Len(batch')
    <3>1. j \in 1..Len(pending) /\ i = Len(batch') + j /\ i + n = Len(batch) + j
      BY <2>2, <1>2, <1>3, <1>4
    <3>. HIDE DEF j
    <3>. QED
      BY <3>1, <1>2, <1>4
  <2>3. i \in Nat /\ Len(batch') \in Int
    BY <1>2, <1>3
  <2>. QED
    BY <2>1, <2>2, <2>3
<1>. QED
  BY <1>2, <1>3, <1>4, <1>5 DEF Drops

-----------------------------------------------------------------------------
(* What is stored and what is queued *)

\* The sentinel ends the queue, and nobody adds to it after that.
StopIsLast ==
  /\ phase = "stopped" => \A c \in Conns : link[c] # "connected"
  /\ \A i \in 1..Len(Queue) :
       Queue[i].type = "stop" => i = Len(Queue) /\ phase = "stopped"
  /\ at = "exited" => Len(Queue) = 0 /\ phase = "stopped"

\* Messages are numbered as they are recorded.
Numbered ==
  /\ \A m \in recorded : m.id <= Cardinality(recorded)
  /\ \A m, n \in recorded : m.id = n.id => m = n
  /\ \A s \in Stored : s <= Cardinality(recorded)

\* The queue holds the newest of them, in that order.
RecordAt(i) == [conn |-> Queue[i].conn, id |-> Queue[i].id, kind |-> Queue[i].kind]
NewestQueued ==
  /\ \A i \in 1..Len(Queue) : IsMessage(i) => RecordAt(i) \in recorded
  /\ \A i, j \in 1..Len(Queue) :
       i < j /\ IsMessage(i) /\ IsMessage(j) => Queue[i].id < Queue[j].id
  /\ \A m \in recorded : ~InQueue(m.id) =>
       \A i \in 1..Len(Queue) : IsMessage(i) => m.id < Queue[i].id

\* What has left the queue is stored, and what is stored comes before the
\* messages that are not inserted yet.
Frontier ==
  /\ \A m \in recorded : ~InQueue(m.id) => m.id \in Stored
  /\ \A i \in 1..inserted : Queue[i].id \in db.messages
  /\ \A i \in 1..Len(Queue) : i > inserted /\ IsMessage(i) =>
       \A s \in Stored : s < Queue[i].id

LEMMA ExitIsLast ==
  ASSUME TInv, StopIsLast, Exit
  PROVE  Len(Queue) = 1 /\ Drops(1)
<1>1. Queue[1].type = "stop" /\ 1 \in 1..Len(batch) /\ Len(batch) <= Len(Queue) /\ Len(Queue) \in Nat
  <2>1. batch[1].type = "stop" /\ 1 \in 1..Len(batch)
    BY NextRecord DEF Exit, TInv
  <2>. QED
    BY <2>1, QueueType
<1>2. Len(Queue) = 1
  <2>1. 1 \in 1..Len(Queue)
    BY <1>1
  <2>. QED
    BY <1>1, <2>1 DEF StopIsLast
<1>3. batch \in Seq(Item) /\ pending \in Seq(Item) /\ pending' = pending /\ batch' = <<>>
  BY DEF Exit, TInv, ServerOK, BatchOK
<1>4. Len(Queue) = Len(batch) + Len(pending) /\ Len(pending) \in Nat /\ Len(batch) \in Nat
  BY <1>3, BatchBeforePending DEF Queue
<1>5. Len(pending) = 0
  BY <1>1, <1>2, <1>4
<1>6. Queue' = pending
  BY <1>3, ConcatEmptySeq DEF Queue
<1>. QED
  BY <1>2, <1>5, <1>6 DEF Drops

\* A write leaves the queue, or drops what it is done with.
LEMMA WriteDrops ==
  ASSUME TInv, StopIsLast, Writes
  PROVE  \/ (Take \/ InsertMessages) /\ Queue' = Queue
         \/ /\ InsertConnection \/ UpdateDisconnection \/ Exit
            /\ Drops(1) /\ inserted = 0 /\ inserted' = 0 /\ ~IsMessage(1)
            /\ Queue[1] = Head(batch)
         \/ UpdateConnections /\ Drops(inserted) /\ inserted' = 0
<1>1. CASE Take
  BY <1>1, TakeKeepsQueue
<1>2. CASE InsertMessages
  BY <1>2 DEF InsertMessages, Queue
<1>3. CASE InsertConnection
  <2>1. /\ inserted = 0 /\ 1 \in 1..Len(batch) /\ Head(batch) = batch[1]
        /\ batch[1].type = "connection" /\ Queue[1] = batch[1]
    BY <1>3, NextRecord, QueueType DEF InsertConnection, TInv
  <2>. QED
    BY <1>3, <2>1, HandledDrops DEF InsertConnection, IsMessage
<1>4. CASE UpdateDisconnection
  <2>1. /\ inserted = 0 /\ 1 \in 1..Len(batch) /\ Head(batch) = batch[1]
        /\ batch[1].type = "disconnection" /\ Queue[1] = batch[1]
    BY <1>4, NextRecord, QueueType DEF UpdateDisconnection, TInv
  <2>. QED
    BY <1>4, <2>1, HandledDrops DEF UpdateDisconnection, IsMessage
<1>5. CASE Exit
  <2>1. /\ inserted = 0 /\ 1 \in 1..Len(batch) /\ Head(batch) = batch[1]
        /\ batch[1].type = "stop" /\ Queue[1] = batch[1]
    BY <1>5, NextRecord, QueueType DEF Exit, TInv
  <2>. QED
    BY <1>5, <2>1, ExitIsLast DEF Exit, IsMessage
<1>6. CASE UpdateConnections
  BY <1>6, ChunkUpdated, HandledDrops DEF UpdateConnections, TInv
<1>. QED
  BY <1>1, <1>2, <1>3, <1>4, <1>5, <1>6 DEF Writes

\* The other steps of the thread, and stopping the server, leave the queue.
LEMMA OthersKeepQueue ==
  ASSUME StopServer \/ SqlError \/ RolloverDies
           \/ (\E ok \in BOOLEAN : Rollover(ok)) \/ UNCHANGED vars
  PROVE  Queue' = Queue /\ UNCHANGED <<link, recorded, inserted, batch>>
  BY DEF StopServer, SqlError, RolloverDies, Rollover, vars, Queue, server, thread

LEMMA StopIsLastStep == ASSUME TInv, StopIsLast, [Next]_vars PROVE StopIsLast'
<1>. USE DEF StopIsLast
<1>0. Len(Queue) \in Nat /\ \A c \in Conns : link[c] \in {"new", "connected", "gone"}
  BY QueueType DEF TInv, ServerOK
<1>1. ASSUME NEW c \in Conns, Connect(c) PROVE StopIsLast'
  <2>1. Adds(Record("connection", c))
    BY <1>1, RecordIsItem, AddIsLast DEF Connect, thread
  <2>2. Record("connection", c).type # "stop"
    BY DEF Record
  <2>. QED
    BY <1>0, <1>1, <2>1, <2>2 DEF Connect, thread, Adds
<1>2. ASSUME NEW c \in Conns, Disconnect(c) PROVE StopIsLast'
  <2>1. Adds(Record("disconnection", c))
    BY <1>2, RecordIsItem, AddIsLast DEF Disconnect, thread
  <2>2. Record("disconnection", c).type # "stop"
    BY DEF Record
  <2>3. link \in [Conns -> {"new", "connected", "gone"}]
    BY DEF TInv, ServerOK
  <2>. QED
    BY <1>0, <1>2, <2>1, <2>2, <2>3 DEF Disconnect, thread, Adds
<1>3. ASSUME NEW c \in Conns, NEW k \in Kinds, RecordMessage(c, k) PROVE StopIsLast'
  <2>. DEFINE item == [type |-> "message", conn |-> c, id |-> Cardinality(recorded) + 1, kind |-> k]
  <2>1. item \in Item /\ Add(item) /\ batch' = batch
    <3>1. Cardinality(recorded) + 1 \in Ids
      BY <1>3, FS_CardinalityType, BoundsAssumption DEF RecordMessage, Ids, TInv, ServerOK
    <3>. QED
      BY <1>3, <3>1 DEF RecordMessage, thread, Item
  <2>2. Adds(item) /\ item.type # "stop"
    <3>1. item.type # "stop"
      OBVIOUS
    <3>. HIDE DEF item
    <3>. QED
      BY <2>1, <3>1, AddIsLast
  <2>. HIDE DEF item
  <2>. QED
    BY <1>0, <1>3, <2>2 DEF RecordMessage, server, thread, Adds
<1>4. CASE StopArchive
  <2>1. Adds(Stop)
    BY <1>4, AddIsLast DEF StopArchive, thread, Item
  <2>. QED
    BY <1>0, <1>4, <2>1 DEF StopArchive, thread, Adds
<1>5. CASE Writes
  <2>1. UNCHANGED <<link, phase>>
    BY <1>5 DEF Writes, Take, InsertConnection, UpdateDisconnection, InsertMessages,
      UpdateConnections, Exit, server
  <2>2. CASE Queue' = Queue
    <3>1. at' # "exited" \/ Exit
      BY <1>5 DEF Writes, Take, InsertConnection, UpdateDisconnection, InsertMessages,
        UpdateConnections, Handled, IsNext
    <3>. QED
      BY <1>0, <2>1, <2>2, <3>1, <1>5, ExitIsLast DEF Drops
  <2>3. ASSUME NEW n \in 1..Len(Queue), Drops(n) PROVE StopIsLast'
    <3>1. at' = "exited" => Exit
      BY <1>5 DEF Writes, Take, InsertConnection, UpdateDisconnection, InsertMessages,
        UpdateConnections, Handled, IsNext
    <3>2. Exit => Len(Queue') = 0 /\ phase = "stopped"
      <4>1. ASSUME Exit PROVE Len(Queue') = 0 /\ phase = "stopped"
        <5>1. Len(Queue) = 1 /\ Drops(1) /\ Queue[1].type = "stop"
          BY <4>1, ExitIsLast, NextRecord, QueueType DEF Exit, TInv
        <5>. QED
          BY <5>1 DEF Drops
      <4>. QED
        BY <4>1
    <3>3. \A i \in 1..Len(Queue') : i + n \in 1..Len(Queue)
      BY <1>0, <2>3 DEF Drops
    <3>. QED
      BY <1>0, <2>1, <2>3, <3>1, <3>2, <3>3 DEF Drops
  <2>. QED
    BY <1>5, <2>2, <2>3, WriteDrops DEF Drops
<1>6. CASE StopServer
  BY <1>6, OthersKeepQueue DEF StopServer, thread
<1>7. CASE SqlError \/ RolloverDies \/ (\E ok \in BOOLEAN : Rollover(ok)) \/ UNCHANGED vars
  BY <1>7, OthersKeepQueue DEF SqlError, RolloverDies, Rollover, vars, server, thread
<1>. QED
  BY <1>1, <1>2, <1>3, <1>4, <1>5, <1>6, <1>7 DEF Next, ServerNext

MInv == Numbered /\ NewestQueued /\ Frontier

LEMMA MessageAt ==
  ASSUME TInv, NEW i \in 1..Len(Queue), IsMessage(i)
  PROVE  Queue[i].id \in Ids /\ Queue[i].conn \in Conns /\ RecordAt(i) \in Message
  BY QueueType, Shapes DEF IsMessage, RecordAt

LEMMA StoredType == ASSUME TInv PROVE Stored \subseteq Ids
<1>1. db.messages \subseteq Ids
  BY DEF TInv, FilesOK, Database
<1>2. ASSUME NEW i \in DOMAIN closed PROVE closed[i].messages \subseteq Ids
  <2>1. closed[i] \in OldFile
    BY LenProperties, ElementOfSeq DEF TInv, FilesOK
  <2>. QED
    BY <2>1 DEF OldFile
<1>. QED
  BY <1>1, <1>2 DEF Stored

LEMMA RecordedType ==
  ASSUME TInv
  PROVE  /\ recorded \subseteq Message /\ IsFiniteSet(recorded)
         /\ Cardinality(recorded) \in Nat
         /\ \A m \in recorded : m.id \in Ids /\ m.conn \in Conns /\ m.kind \in Kinds
  BY FS_CardinalityType DEF TInv, ServerOK, Message

\* Recording a message adds the newest to the queue.
LEMMA RecordAdds ==
  ASSUME TInv, Numbered, NEW c \in Conns, NEW k \in Kinds, RecordMessage(c, k)
  PROVE  LET id == Cardinality(recorded) + 1
             m == [conn |-> c, id |-> id, kind |-> k]
             item == [type |-> "message", conn |-> c, id |-> id, kind |-> k]
         IN  /\ Adds(item) /\ recorded' = recorded \cup {m}
             /\ Cardinality(recorded') = id /\ id \in Ids
             /\ UNCHANGED <<server, thread, db, closed>>
<1>. DEFINE id == Cardinality(recorded) + 1
            m == [conn |-> c, id |-> id, kind |-> k]
            item == [type |-> "message", conn |-> c, id |-> id, kind |-> k]
<1>1. id \in Ids
  BY RecordedType, BoundsAssumption DEF RecordMessage, Ids
<1>2. item \in Item /\ Add(item) /\ batch' = batch
  BY <1>1 DEF RecordMessage, thread, Item
<1>3. Adds(item)
  <2>. HIDE DEF item
  <2>. QED
    BY <1>2, AddIsLast
<1>4. m \notin recorded
  <2>1. m.id = id
    OBVIOUS
  <2>. HIDE DEF m
  <2>. QED
    BY <2>1, RecordedType DEF Numbered
<1>5. recorded' = recorded \cup {m}
  BY DEF RecordMessage
<1>6. Cardinality(recorded') = id
  <2>. HIDE DEF m
  <2>. QED
    BY <1>4, <1>5, RecordedType, FS_AddElement
<1>. QED
  BY <1>1, <1>3, <1>5, <1>6 DEF RecordMessage

LEMMA MInvRecord ==
  ASSUME TInv, MInv, NEW c \in Conns, NEW k \in Kinds, RecordMessage(c, k)
  PROVE  MInv'
<1>0. PICK id \in Nat : id = Cardinality(recorded) + 1
  BY RecordedType
<1>. DEFINE m == [conn |-> c, id |-> id, kind |-> k]
            item == [type |-> "message", conn |-> c, id |-> id, kind |-> k]
            N == Len(Queue)
<1>. USE DEF MInv
<1>1. /\ Adds(item) /\ recorded' = recorded \cup {m} /\ Cardinality(recorded') = id
      /\ UNCHANGED <<server, thread, db, closed>>
  BY <1>0, RecordAdds
<1>2. /\ m.id = id /\ m.conn = c /\ m.kind = k
      /\ item.type = "message" /\ item.id = id /\ item.conn = c /\ item.kind = k
  OBVIOUS
<1>3. Stored' = Stored /\ inserted' = inserted
  BY <1>1 DEF Stored, thread
<1>4. /\ N \in Nat /\ Cardinality(recorded) \in Nat
      /\ \A x \in recorded : x.id \in Nat /\ x.id < id
      /\ \A x \in Stored : x \in Nat /\ x < id
      /\ inserted \in Nat /\ inserted <= N
  <2>1. inserted \in Nat /\ inserted <= N
    BY QueueType, ChunkAssumption DEF TInv, BatchOK
  <2>2. \A x \in Stored : x \in Nat /\ x <= Cardinality(recorded)
    BY StoredType DEF Ids, Numbered
  <2>3. \A x \in recorded : x.id \in Nat /\ x.id <= Cardinality(recorded)
    BY RecordedType DEF Ids, Numbered
  <2>4. N \in Nat /\ Cardinality(recorded) \in Nat
    BY QueueType, RecordedType
  <2>. QED
    BY <2>1, <2>2, <2>3, <2>4, <1>0
<1>. HIDE DEF m, item
<1>5. Numbered'
  <2>1. \A x \in recorded' : x.id <= id
    BY <1>1, <1>2, <1>4
  <2>2. \A x \in Stored' : x <= id
    BY <1>3, <1>4
  <2>3. \A x, y \in recorded' : x.id = y.id => x = y
    BY <1>1, <1>2, <1>4 DEF Numbered
  <2>. QED
    BY <2>1, <2>2, <2>3, <1>1 DEF Numbered
<1>6. /\ Len(Queue') = N + 1 /\ \A i \in 1..N : Queue'[i] = Queue[i]
      /\ Queue'[N + 1] = item
  BY <1>1 DEF Adds
<1>7. \A x : InQueue(x)' <=> InQueue(x) \/ x = id
  <2>1. ASSUME NEW x, InQueue(x) PROVE InQueue(x)'
    <3>1. PICK i \in 1..N : IsMessage(i) /\ Queue[i].id = x
      BY <2>1 DEF InQueue
    <3>2. i \in 1..Len(Queue') /\ Queue'[i] = Queue[i]
      BY <1>4, <1>6
    <3>. QED
      BY <3>1, <3>2 DEF InQueue, IsMessage
  <2>2. InQueue(id)'
    <3>1. N + 1 \in 1..Len(Queue')
      BY <1>4, <1>6
    <3>. QED
      BY <3>1, <1>2, <1>6 DEF InQueue, IsMessage
  <2>3. ASSUME NEW x, InQueue(x)' PROVE InQueue(x) \/ x = id
    <3>1. PICK i \in 1..Len(Queue') : Queue'[i].type = "message" /\ Queue'[i].id = x
      BY <2>3 DEF InQueue, IsMessage
    <3>2. i \in 1..N \/ i = N + 1
      BY <3>1, <1>4, <1>6
    <3>. QED
      BY <3>1, <3>2, <1>2, <1>6 DEF InQueue, IsMessage
  <2>. QED
    BY <2>1, <2>2, <2>3
<1>8. NewestQueued'
  <2>1. ASSUME NEW i \in 1..Len(Queue'), IsMessage(i)' PROVE RecordAt(i)' \in recorded'
    <3>1. CASE i \in 1..N
      BY <2>1, <3>1, <1>1, <1>6 DEF NewestQueued, IsMessage, RecordAt
    <3>2. CASE i = N + 1
      BY <3>2, <1>1, <1>2, <1>6 DEF RecordAt, m
    <3>. QED
      BY <3>1, <3>2, <1>4, <1>6
  <2>2. ASSUME NEW i \in 1..N, IsMessage(i) PROVE Queue[i].id < id
    <3>1. RecordAt(i) \in recorded /\ RecordAt(i).id = Queue[i].id
      BY <2>2 DEF NewestQueued, RecordAt
    <3>. QED
      BY <3>1, <1>4
  <2>3. ASSUME NEW i \in 1..Len(Queue'), NEW j \in 1..Len(Queue'), i < j,
               IsMessage(i)', IsMessage(j)'
        PROVE  Queue'[i].id < Queue'[j].id
    <3>1. i \in 1..N
      BY <2>3, <1>4, <1>6
    <3>2. CASE j \in 1..N
      BY <2>3, <3>1, <3>2, <1>6 DEF NewestQueued, IsMessage
    <3>3. CASE j = N + 1
      BY <2>2, <2>3, <3>1, <3>3, <1>2, <1>6 DEF IsMessage
    <3>. QED
      BY <3>2, <3>3, <1>4, <1>6
  <2>4. ASSUME NEW x \in recorded', ~InQueue(x.id)', NEW i \in 1..Len(Queue'), IsMessage(i)'
        PROVE  x.id < Queue'[i].id
    <3>1. x \in recorded /\ ~InQueue(x.id)
      BY <2>4, <1>1, <1>2, <1>7
    <3>2. CASE i \in 1..N
      BY <2>4, <3>1, <3>2, <1>6 DEF NewestQueued, IsMessage
    <3>3. CASE i = N + 1
      BY <3>1, <3>3, <1>2, <1>4, <1>6
    <3>. QED
      BY <3>2, <3>3, <1>4, <1>6
  <2>. QED
    BY <2>1, <2>3, <2>4 DEF NewestQueued
<1>9. Frontier'
  <2>1. \A x \in recorded' : ~InQueue(x.id)' => x.id \in Stored'
    BY <1>1, <1>2, <1>3, <1>7 DEF Frontier
  <2>2. \A i \in 1..inserted' : Queue'[i].id \in db'.messages
    BY <1>1, <1>3, <1>4, <1>6 DEF Frontier
  <2>3. ASSUME NEW i \in 1..Len(Queue'), i > inserted', IsMessage(i)', NEW x \in Stored'
        PROVE  x < Queue'[i].id
    <3>1. CASE i \in 1..N
      BY <2>3, <3>1, <1>3, <1>6 DEF Frontier, IsMessage
    <3>2. CASE i = N + 1
      BY <2>3, <3>2, <1>2, <1>3, <1>4, <1>6
    <3>. QED
      BY <3>1, <3>2, <1>4, <1>6
  <2>. QED
    BY <2>1, <2>2, <2>3 DEF Frontier
<1>. QED
  BY <1>5, <1>8, <1>9

\* The queue with a record more, of a connection or of the stop.
LEMMA MInvAdds ==
  ASSUME TInv, MInv, NEW item \in Item, item.type # "message", Adds(item),
         UNCHANGED <<recorded, inserted, db, closed>>
  PROVE  MInv'
<1>. DEFINE N == Len(Queue)
<1>. USE DEF MInv
<1>1. N \in Nat /\ inserted \in Nat /\ inserted <= N
  BY QueueType DEF TInv, BatchOK
<1>2. /\ Len(Queue') = N + 1 /\ \A i \in 1..N : Queue'[i] = Queue[i]
      /\ Queue'[N + 1] = item
  BY DEF Adds
<1>3. ASSUME NEW i \in 1..Len(Queue'), IsMessage(i)'
      PROVE  i \in 1..N /\ IsMessage(i) /\ Queue'[i] = Queue[i]
  <2>1. i \in 1..N \/ i = N + 1
    BY <1>1, <1>2
  <2>. QED
    BY <1>2, <1>3, <2>1 DEF IsMessage
<1>4. \A i \in 1..N : i \in 1..Len(Queue')
  BY <1>1, <1>2
<1>5. \A x : InQueue(x)' <=> InQueue(x)
  BY <1>2, <1>3, <1>4 DEF InQueue, IsMessage
<1>6. Stored' = Stored
  BY DEF Stored
<1>7. Numbered'
  BY <1>6 DEF Numbered
<1>8. NewestQueued'
  BY <1>3, <1>5 DEF NewestQueued, RecordAt
<1>9. Frontier'
  <2>1. \A i \in 1..inserted' : i \in 1..N
    BY <1>1
  <2>. QED
    BY <1>2, <1>3, <1>5, <1>6, <2>1 DEF Frontier
<1>. QED
  BY <1>7, <1>8, <1>9

LEMMA MInvKeeps ==
  ASSUME MInv, Queue' = Queue, UNCHANGED <<recorded, inserted>>, Stored' = Stored,
         \A i \in 1..inserted : Queue[i].id \in db'.messages
  PROVE  MInv'
  BY DEF MInv, Numbered, NewestQueued, Frontier, InQueue, IsMessage, RecordAt

\* What is dropped are the messages of a chunk, which are stored, or a record.
LEMMA MInvDrops ==
  ASSUME TInv, MInv, NEW n \in 1..Len(Queue), Drops(n), inserted <= n, inserted' = 0,
         recorded' = recorded, Stored' = Stored,
         \A i \in 1..n : IsMessage(i) => Queue[i].id \in Stored
  PROVE  MInv'
<1>. USE DEF MInv
<1>1. Len(Queue) \in Nat /\ n \in Nat /\ inserted \in Nat
  BY QueueType DEF TInv, BatchOK
<1>2. \A i \in 1..Len(Queue') : i + n \in 1..Len(Queue) /\ Queue'[i] = Queue[i + n]
  BY <1>1 DEF Drops
<1>3. \A i \in 1..Len(Queue') : IsMessage(i)' <=> IsMessage(i + n)
  BY <1>2 DEF IsMessage
<1>4. ASSUME NEW x, InQueue(x), ~InQueue(x)'
      PROVE  \E i \in 1..n : IsMessage(i) /\ Queue[i].id = x
  <2>1. PICK i \in 1..Len(Queue) : IsMessage(i) /\ Queue[i].id = x
    BY <1>4 DEF InQueue
  <2>2. ASSUME i > n PROVE FALSE
    <3>1. i - n \in 1..Len(Queue') /\ i - n + n = i
      BY <1>1, <2>2 DEF Drops
    <3>2. IsMessage(i - n)' /\ Queue'[i - n].id = x
      BY <3>1, <2>1, <1>2, <1>3
    <3>. QED
      BY <3>1, <3>2, <1>4 DEF InQueue
  <2>3. i \in 1..n
    BY <1>1, <2>2
  <2>. QED
    BY <2>1, <2>3
<1>5. Numbered'
  BY DEF Numbered
<1>6. NewestQueued'
  <2>1. \A i \in 1..Len(Queue') : IsMessage(i)' => RecordAt(i)' \in recorded'
    BY <1>2, <1>3 DEF NewestQueued, RecordAt
  <2>2. ASSUME NEW i \in 1..Len(Queue'), NEW j \in 1..Len(Queue'), i < j,
               IsMessage(i)', IsMessage(j)'
        PROVE  Queue'[i].id < Queue'[j].id
    <3>1. i + n < j + n
      BY <1>1, <2>2
    <3>. QED
      BY <2>2, <3>1, <1>2, <1>3 DEF NewestQueued
  <2>3. ASSUME NEW m \in recorded, ~InQueue(m.id)', NEW i \in 1..Len(Queue'), IsMessage(i)'
        PROVE  m.id < Queue'[i].id
    <3>1. CASE ~InQueue(m.id)
      BY <2>3, <3>1, <1>2, <1>3 DEF NewestQueued
    <3>2. CASE InQueue(m.id)
      <4>1. PICK k \in 1..n : IsMessage(k) /\ Queue[k].id = m.id
        BY <2>3, <3>2, <1>4
      <4>2. k \in 1..Len(Queue) /\ k < i + n
        BY <4>1, <1>1
      <4>. QED
        BY <2>3, <4>1, <4>2, <1>2, <1>3 DEF NewestQueued
    <3>. QED
      BY <3>1, <3>2
  <2>. QED
    BY <2>1, <2>2, <2>3 DEF NewestQueued
<1>7. Frontier'
  <2>1. ASSUME NEW m \in recorded, ~InQueue(m.id)' PROVE m.id \in Stored
    BY <2>1, <1>4 DEF Frontier
  <2>2. ASSUME NEW i \in 1..Len(Queue'), IsMessage(i)', NEW x \in Stored
        PROVE  x < Queue'[i].id
    <3>1. i + n > inserted
      BY <1>1
    <3>. QED
      BY <2>2, <3>1, <1>2, <1>3 DEF Frontier
  <2>. QED
    BY <2>1, <2>2 DEF Frontier
<1>. QED
  BY <1>5, <1>6, <1>7

\* What an insertion puts into the file: the messages the queue begins with.
LEMMA InsertedAtFrontier ==
  ASSUME TInv, InsertMessages
  PROVE  /\ inserted = 0 /\ inserted' \in 1..Len(batch) /\ inserted' \in 1..Len(Queue)
         /\ \A i \in 1..inserted' : IsMessage(i) /\ Queue[i] = batch[i] /\ i \in 1..Len(Queue)
         /\ db'.messages = db.messages \cup {Queue[i].id : i \in 1..inserted'}
         /\ Stored' = Stored \cup {Queue[i].id : i \in 1..inserted'}
         /\ Queue' = Queue /\ UNCHANGED <<recorded, closed>>
<1>1. /\ inserted = 0 /\ inserted' \in 1..Len(batch) /\ inserted' \in 1..Len(Queue)
      /\ \A i \in 1..inserted' : IsMessage(i) /\ Queue[i] = batch[i] /\ i \in 1..Len(Queue)
      /\ db'.messages = db.messages \cup {Queue[i].id : i \in 1..inserted'}
  <2>1. /\ inserted' \in 1..Len(batch)
        /\ \A i \in 1..inserted' : batch[i].type = "message"
        /\ db' = [db EXCEPT !.messages = @ \cup {batch[i].id : i \in 1..inserted'}]
    BY ChunkInserted DEF TInv
  <2>2. db \in Database
    BY DEF TInv, FilesOK
  <2>3. /\ Len(batch) \in Nat /\ Len(Queue) \in Nat /\ Len(batch) <= Len(Queue)
        /\ \A i \in 1..Len(batch) : Queue[i] = batch[i]
    BY QueueType
  <2>4. /\ inserted' \in 1..Len(Queue)
        /\ \A i \in 1..inserted' : i \in 1..Len(Queue) /\ Queue[i] = batch[i]
    BY <2>1, <2>3
  <2>5. {batch[i].id : i \in 1..inserted'} = {Queue[i].id : i \in 1..inserted'}
    BY <2>4
  <2>6. db'.messages = db.messages \cup {batch[i].id : i \in 1..inserted'}
    BY <2>1, <2>2 DEF Database
  <2>. QED
    BY <2>1, <2>4, <2>5, <2>6 DEF InsertMessages, IsMessage
<1>2. Queue' = Queue /\ UNCHANGED <<recorded, closed>>
  BY DEF InsertMessages, Queue
<1>3. Stored' = Stored \cup {Queue[i].id : i \in 1..inserted'}
  BY <1>1, <1>2 DEF Stored
<1>. QED
  BY <1>1, <1>2, <1>3

\* A chunk is inserted: the frontier moves behind it.
LEMMA MInvInsert == ASSUME TInv, MInv, InsertMessages PROVE MInv'
<1>. USE DEF MInv
<1>1. /\ inserted = 0 /\ inserted' \in 1..Len(batch) /\ inserted' \in 1..Len(Queue)
      /\ \A i \in 1..inserted' : IsMessage(i) /\ Queue[i] = batch[i] /\ i \in 1..Len(Queue)
      /\ db'.messages = db.messages \cup {Queue[i].id : i \in 1..inserted'}
  BY InsertedAtFrontier
<1>2. Queue' = Queue /\ UNCHANGED <<recorded, closed>>
  BY InsertedAtFrontier
<1>3. Stored' = Stored \cup {Queue[i].id : i \in 1..inserted'}
  BY InsertedAtFrontier
<1>4. Numbered'
  <2>1. ASSUME NEW i \in 1..inserted' PROVE Queue[i].id <= Cardinality(recorded)
    <3>1. RecordAt(i) \in recorded /\ RecordAt(i).id = Queue[i].id
      BY <1>1 DEF NewestQueued, RecordAt
    <3>. QED
      BY <3>1 DEF Numbered
  <2>. QED
    BY <1>2, <1>3, <2>1 DEF Numbered
<1>5. NewestQueued'
  BY <1>2 DEF NewestQueued, InQueue, IsMessage, RecordAt
<1>6. Frontier'
  <2>1. \A m \in recorded : ~InQueue(m.id) => m.id \in Stored'
    BY <1>3 DEF Frontier
  <2>2. \A i \in 1..inserted' : Queue[i].id \in db'.messages
    BY <1>1
  <2>3. ASSUME NEW i \in 1..Len(Queue), i > inserted', IsMessage(i), NEW x \in Stored'
        PROVE  x < Queue[i].id
    <3>1. CASE x \in Stored
      <4>1. i > inserted
        BY <1>1, <2>3
      <4>. QED
        BY <2>3, <3>1, <4>1 DEF Frontier
    <3>2. ASSUME NEW k \in 1..inserted', x = Queue[k].id PROVE x < Queue[i].id
      <4>1. k < i
        BY <1>1, <2>3
      <4>. QED
        BY <2>3, <3>2, <4>1, <1>1 DEF NewestQueued
    <3>. QED
      BY <2>3, <3>1, <3>2, <1>3
  <2>. QED
    BY <1>2, <2>1, <2>2, <2>3 DEF Frontier, InQueue, IsMessage
<1>. QED
  BY <1>4, <1>5, <1>6

\* A rollover stores nothing new and loses nothing.
LEMMA RolloverStores ==
  ASSUME TInv, NEW ok \in BOOLEAN, Rollover(ok)
  PROVE  Stored' = Stored
<1>. DEFINE old == [messages |-> db.messages, exported |-> ok,
                    names |-> IF ok THEN ExportWrites ELSE {}]
<1>1. closed \in Seq(OldFile) /\ Len(closed) \in Nat /\ DOMAIN closed = 1..Len(closed)
  BY LenProperties DEF TInv, FilesOK
<1>2. old \in OldFile /\ old.messages = db.messages
  BY DEF TInv, FilesOK, Database, OldFile, ExportWrites
<1>3. /\ DOMAIN closed' = 1..(Len(closed) + 1)
      /\ \A i \in 1..Len(closed) : closed'[i] = closed[i]
      /\ closed'[Len(closed) + 1].messages = db.messages
  <2>1. closed' = Append(closed, old)
    BY DEF Rollover
  <2>. HIDE DEF old
  <2>2. closed' \in Seq(OldFile) /\ Len(closed') = Len(closed) + 1
    BY <1>1, <1>2, <2>1, AppendProperties
  <2>3. DOMAIN closed' = 1..(Len(closed) + 1)
    BY <2>2, LenProperties
  <2>. QED
    BY <1>1, <1>2, <2>1, <2>3, AppendProperties
<1>4. db'.messages \subseteq db.messages
  BY DEF Rollover, Export, EmptyDatabase
<1>5. UNION {closed'[i].messages : i \in DOMAIN closed'}
        = db.messages \cup UNION {closed[i].messages : i \in DOMAIN closed}
  <2>1. \A x : (\E i \in 1..(Len(closed) + 1) : x \in closed'[i].messages)
          <=> x \in db.messages \/ \E i \in 1..Len(closed) : x \in closed[i].messages
    <3>1. \A i \in 1..(Len(closed) + 1) : i \in 1..Len(closed) \/ i = Len(closed) + 1
      BY <1>1
    <3>2. \A i \in 1..Len(closed) : i \in 1..(Len(closed) + 1)
      BY <1>1
    <3>3. Len(closed) + 1 \in 1..(Len(closed) + 1)
      BY <1>1
    <3>. QED
      BY <1>3, <3>1, <3>2, <3>3
  <2>. QED
    BY <1>1, <1>3, <2>1
<1>. QED
  BY <1>4, <1>5 DEF Stored

LEMMA MInvInit == Init => MInv
<1>. SUFFICES ASSUME Init PROVE MInv
  OBVIOUS
<1>1. Queue = <<>> /\ Len(Queue) = 0
  BY ConcatEmptySeq, EmptySeq DEF Init, Queue
<1>2. Stored = {} /\ recorded = {} /\ inserted = 0
  BY DEF Init, Stored, EmptyDatabase
<1>. QED
  BY <1>1, <1>2 DEF MInv, Numbered, NewestQueued, Frontier

LEMMA MInvStep == ASSUME TInv, StopIsLast, MInv, [Next]_vars PROVE MInv'
<1>1. ASSUME NEW c \in Conns, Connect(c) PROVE MInv'
  <2>1. /\ Record("connection", c) \in Item /\ Record("connection", c).type # "message"
        /\ UNCHANGED <<recorded, inserted, db, closed>>
    BY <1>1, RecordIsItem DEF Connect, thread, Record
  <2>. QED
    BY <1>1, <2>1, AddIsLast, MInvAdds DEF Connect, thread
<1>2. ASSUME NEW c \in Conns, Disconnect(c) PROVE MInv'
  <2>1. /\ Record("disconnection", c) \in Item /\ Record("disconnection", c).type # "message"
        /\ UNCHANGED <<recorded, inserted, db, closed>>
    BY <1>2, RecordIsItem DEF Disconnect, thread, Record
  <2>. QED
    BY <1>2, <2>1, AddIsLast, MInvAdds DEF Disconnect, thread
<1>3. ASSUME NEW c \in Conns, NEW k \in Kinds, RecordMessage(c, k) PROVE MInv'
  BY <1>3, MInvRecord
<1>4. CASE StopArchive
  <2>1. Stop \in Item /\ Stop.type # "message" /\ UNCHANGED <<recorded, inserted, db, closed>>
    BY <1>4 DEF StopArchive, thread, Item, Stop
  <2>. QED
    BY <1>4, <2>1, AddIsLast, MInvAdds DEF StopArchive, thread
<1>5. CASE Writes
  <2>0. /\ inserted \in Nat /\ recorded' = recorded /\ closed' = closed
        /\ \A i \in 1..inserted : Queue[i].id \in db.messages
    BY <1>5 DEF TInv, BatchOK, MInv, Frontier, Writes, Take, InsertConnection,
      UpdateDisconnection, InsertMessages, UpdateConnections, Exit
  <2>1. CASE Take /\ Queue' = Queue
    BY <2>0, <2>1, MInvKeeps DEF Take, Stored
  <2>2. CASE InsertMessages
    BY <2>2, MInvInsert
  <2>3. CASE /\ InsertConnection \/ UpdateDisconnection \/ Exit
             /\ Drops(1) /\ inserted = 0 /\ inserted' = 0 /\ ~IsMessage(1)
    <3>1. db \in Database
      BY DEF TInv, FilesOK
    <3>2. Stored' = Stored
      BY <2>0, <2>3, <3>1 DEF Stored, InsertConnection, UpdateDisconnection, Exit, Database
    <3>3. 1 \in 1..Len(Queue) /\ \A i \in 1..1 : ~IsMessage(i)
      BY <2>3 DEF Drops
    <3>. QED
      BY <2>0, <2>3, <3>2, <3>3, MInvDrops
  <2>4. CASE UpdateConnections /\ Drops(inserted) /\ inserted' = 0
    <3>1. db \in Database
      BY DEF TInv, FilesOK
    <3>2. Stored' = Stored
      BY <2>0, <2>4, <3>1 DEF Stored, UpdateConnections, Database
    <3>3. inserted \in 1..Len(Queue) /\ \A i \in 1..inserted : Queue[i].id \in Stored
      BY <2>0, <2>4 DEF Drops, Stored
    <3>. QED
      BY <2>0, <2>4, <3>2, <3>3, MInvDrops
  <2>. QED
    BY <1>5, <2>1, <2>2, <2>3, <2>4, WriteDrops
<1>6. CASE StopServer \/ SqlError \/ RolloverDies \/ UNCHANGED vars
  <2>1. UNCHANGED <<db, closed>>
    BY <1>6 DEF StopServer, SqlError, RolloverDies, vars
  <2>. QED
    BY <1>6, <2>1, OthersKeepQueue, MInvKeeps DEF Stored, MInv, Frontier
<1>7. ASSUME NEW ok \in BOOLEAN, Rollover(ok) PROVE MInv'
  <2>1. inserted = 0
    BY <1>7 DEF Rollover, TInv, BatchOK
  <2>. QED
    BY <1>7, <2>1, OthersKeepQueue, RolloverStores, MInvKeeps
<1>. QED
  BY <1>1, <1>2, <1>3, <1>4, <1>5, <1>6, <1>7 DEF Next, ServerNext

LEMMA StopIsLastInit == Init => StopIsLast
<1>. SUFFICES ASSUME Init PROVE StopIsLast
  OBVIOUS
<1>1. Len(Queue) = 0
  BY ConcatEmptySeq, EmptySeq DEF Init, Queue
<1>. QED
  BY <1>1 DEF Init, StopIsLast

\* The part of the invariant that is about the messages.
LEMMA MessagesCorrect == Spec => [](TInv /\ StopIsLast /\ MInv)
  BY TypeInit, TypeStep, StopIsLastInit, StopIsLastStep, MInvInit, MInvStep, PTL DEF Spec

\* Whenever Apex is killed, or the thread dies, what the files hold is a
\* beginning of what was recorded: no later message without the earlier ones.
PrefixStored ==
  \A i, j \in RecordedIds : i < j /\ j \in Stored => i \in Stored

\* Whenever Apex is killed, the files hold a beginning of what was recorded,
\* whatever chunks and rollovers there were (sqlite_thread.run).
THEOREM FilesHoldAPrefix == Spec => []PrefixStored
<1>1. TInv /\ MInv => PrefixStored
  <2>. SUFFICES ASSUME TInv, MInv, NEW i \in RecordedIds, NEW j \in RecordedIds,
                       i < j, j \in Stored, i \notin Stored
                PROVE  FALSE
    BY DEF PrefixStored
  <2>. USE DEF MInv
  <2>1. PICK m \in recorded : m.id = i
    BY DEF RecordedIds
  <2>2. PICK k \in 1..Len(Queue) : IsMessage(k) /\ Queue[k].id = i
    BY <2>1 DEF Frontier, InQueue
  <2>3. i \in Nat /\ j \in Nat /\ inserted \in Nat /\ k \in Nat
    BY RecordedType DEF RecordedIds, Ids, TInv, BatchOK
  <2>4. CASE k <= inserted
    BY <2>2, <2>3, <2>4 DEF Frontier, Stored
  <2>5. CASE k > inserted
    BY <2>2, <2>3, <2>5 DEF Frontier
  <2>. QED
    BY <2>3, <2>4, <2>5
<1>. QED
  BY <1>1, MessagesCorrect, PTL

\* A graceful shutdown writes everything that was recorded: nothing comes
\* after the sentinel (apex.shutdown, sqlite_thread.run).
THEOREM ShutdownLosesNothing == Spec => []NothingLost
<1>1. StopIsLast /\ MInv => NothingLost
  BY DEF StopIsLast, MInv, Frontier, InQueue, NothingLost, RecordedIds
<1>. QED
  BY <1>1, MessagesCorrect, PTL

-----------------------------------------------------------------------------
(* The records of a connection *)

Of(i, c) == Queue[i].type # "stop" /\ Queue[i].conn = c
Opens(i, c) == Queue[i].type = "connection" /\ Queue[i].conn = c
Closes(i, c) == Queue[i].type = "disconnection" /\ Queue[i].conn = c

\* First a connection opens, last it closes; while its opening is queued, so is
\* all that it has sent, and what is queued of one that is gone ends in its
\* closing.
Order(c) ==
  /\ link[c] = "new" =>
       /\ \A i \in 1..Len(Queue) : ~Of(i, c)
       /\ \A m \in recorded : m.conn # c
  /\ \A i \in 1..Len(Queue) : Opens(i, c) =>
       /\ \A j \in 1..Len(Queue) : Of(j, c) => i <= j
       /\ \A m \in recorded : m.conn = c => InQueue(m.id)
  /\ \A i \in 1..Len(Queue) : Closes(i, c) =>
       /\ \A j \in 1..Len(Queue) : Of(j, c) => j <= i
       /\ link[c] = "gone"
  /\ link[c] = "gone" /\ (\E i \in 1..Len(Queue) : Of(i, c)) =>
       \E j \in 1..Len(Queue) : Closes(j, c)
OpensAndCloses == \A c \in Conns : Order(c)

LEMMA AddedQueue ==
  ASSUME TInv, NEW item \in Item, Adds(item)
  PROVE  /\ Len(Queue) \in Nat /\ Len(Queue') = Len(Queue) + 1
         /\ \A i \in 1..Len(Queue) : i \in 1..Len(Queue') /\ Queue'[i] = Queue[i]
         /\ Len(Queue) + 1 \in 1..Len(Queue') /\ Queue'[Len(Queue) + 1] = item
         /\ \A i \in 1..Len(Queue') : i \in 1..Len(Queue) \/ i = Len(Queue) + 1
         /\ \A id : InQueue(id) => InQueue(id)'
<1>1. /\ Len(Queue) \in Nat /\ Len(Queue') = Len(Queue) + 1
      /\ \A i \in 1..Len(Queue) : Queue'[i] = Queue[i]
      /\ Queue'[Len(Queue) + 1] = item
  BY QueueType DEF Adds
<1>2. \A i \in 1..Len(Queue) : i \in 1..Len(Queue')
  BY <1>1
<1>3. Len(Queue) + 1 \in 1..Len(Queue')
  BY <1>1
<1>4. \A i \in 1..Len(Queue') : i \in 1..Len(Queue) \/ i = Len(Queue) + 1
  BY <1>1
<1>. QED
  BY <1>1, <1>2, <1>3, <1>4 DEF InQueue, IsMessage

\* A record of another connection, or the sentinel.
LEMMA OrderOther ==
  ASSUME TInv, NEW item \in Item, Adds(item), NEW c \in Conns, Order(c),
         item.type # "stop" => item.conn # c,
         link'[c] = link[c], \A m \in recorded' : m.conn = c => m \in recorded
  PROVE  Order(c)'
<1>. DEFINE N == Len(Queue)
<1>1. ASSUME NEW i \in 1..Len(Queue')
      PROVE  /\ Of(i, c)' => i \in 1..N /\ Of(i, c)
             /\ Opens(i, c)' => i \in 1..N /\ Opens(i, c)
             /\ Closes(i, c)' => i \in 1..N /\ Closes(i, c)
  BY AddedQueue DEF Of, Opens, Closes
<1>2. \A j \in 1..N : Closes(j, c) => j \in 1..Len(Queue') /\ Closes(j, c)'
  BY AddedQueue DEF Closes
<1>. QED
  BY <1>1, <1>2, AddedQueue DEF Order

LEMMA OrderConnect ==
  ASSUME TInv, OpensAndCloses, NEW c \in Conns, Connect(c)
  PROVE  OpensAndCloses'
<1>0. PICK N \in Nat : N = Len(Queue)
  BY QueueType
<1>. DEFINE item == Record("connection", c)
<1>1. /\ item \in Item /\ item.type = "connection" /\ item.conn = c
      /\ Adds(item) /\ recorded' = recorded
      /\ link' = [link EXCEPT ![c] = "connected"] /\ link[c] = "new"
  <2>1. item \in Item /\ item.type = "connection" /\ item.conn = c
    BY RecordIsItem DEF Record
  <2>. HIDE DEF item
  <2>2. Add(item) /\ batch' = batch
    BY DEF Connect, thread, item
  <2>. QED
    BY <2>1, <2>2, AddIsLast DEF Connect
<1>. HIDE DEF item
<1>2. link \in [Conns -> {"new", "connected", "gone"}]
  BY DEF TInv, ServerOK
<1>3. Order(c)'
  <2>1. (\A i \in 1..N : ~Of(i, c)) /\ \A m \in recorded : m.conn # c
    BY <1>0, <1>1 DEF OpensAndCloses, Order
  <2>2. \A i \in 1..Len(Queue') : Of(i, c)' => i = N + 1
    BY <1>0, <1>1, <2>1, AddedQueue DEF Of
  <2>3. \A i \in 1..Len(Queue') : Opens(i, c)' \/ Closes(i, c)' => Of(i, c)' /\ i = N + 1
    BY <2>2 DEF Opens, Closes, Of
  <2>4. ~Closes(N + 1, c)'
    BY <1>0, <1>1, AddedQueue DEF Closes
  <2>5. link'[c] = "connected"
    BY <1>1, <1>2
  <2>. QED
    BY <1>0, <1>1, <2>1, <2>2, <2>3, <2>4, <2>5 DEF Order
<1>4. ASSUME NEW d \in Conns, d # c PROVE Order(d)'
  BY <1>1, <1>2, <1>4, OrderOther DEF OpensAndCloses
<1>. QED
  BY <1>3, <1>4 DEF OpensAndCloses

LEMMA OrderDisconnect ==
  ASSUME TInv, OpensAndCloses, NEW c \in Conns, Disconnect(c)
  PROVE  OpensAndCloses'
<1>0. PICK N \in Nat : N = Len(Queue)
  BY QueueType
<1>. DEFINE item == Record("disconnection", c)
<1>1. /\ item \in Item /\ item.type = "disconnection" /\ item.conn = c
      /\ Adds(item) /\ recorded' = recorded
      /\ link' = [link EXCEPT ![c] = "gone"] /\ link[c] = "connected"
  <2>1. item \in Item /\ item.type = "disconnection" /\ item.conn = c
    BY RecordIsItem DEF Record
  <2>. HIDE DEF item
  <2>2. Add(item) /\ batch' = batch
    BY DEF Disconnect, thread, item
  <2>. QED
    BY <2>1, <2>2, AddIsLast DEF Disconnect
<1>. HIDE DEF item
<1>2. link \in [Conns -> {"new", "connected", "gone"}]
  BY DEF TInv, ServerOK
<1>3. Order(c)'
  <2>1. \A i \in 1..N : ~Closes(i, c)
    BY <1>0, <1>1 DEF OpensAndCloses, Order
  <2>2. link'[c] = "gone"
    BY <1>1, <1>2
  <2>3. N + 1 \in 1..Len(Queue') /\ Closes(N + 1, c)'
    BY <1>0, <1>1, AddedQueue DEF Closes
  <2>4. \A i \in 1..Len(Queue') : i <= N + 1
    BY <1>0, <1>1, <1>2, AddedQueue
  <2>5. ASSUME NEW i \in 1..Len(Queue'), Opens(i, c)'
        PROVE  /\ \A j \in 1..Len(Queue') : Of(j, c)' => i <= j
               /\ \A m \in recorded' : m.conn = c => InQueue(m.id)'
    <3>1. i \in 1..N /\ Opens(i, c)
      BY <1>0, <2>5, <1>1, AddedQueue DEF Opens
    <3>2. \A j \in 1..N : Of(j, c)' => Of(j, c)
      BY <1>0, <1>1, AddedQueue DEF Of
    <3>. QED
      BY <1>0, <1>1, <1>2, <3>1, <3>2, AddedQueue DEF OpensAndCloses, Order
  <2>6. \A i \in 1..Len(Queue') : Closes(i, c)' => i = N + 1
    BY <1>0, <1>1, <2>1, AddedQueue DEF Closes
  <2>. QED
    BY <2>2, <2>3, <2>4, <2>5, <2>6 DEF Order
<1>4. ASSUME NEW d \in Conns, d # c PROVE Order(d)'
  BY <1>1, <1>2, <1>4, OrderOther DEF OpensAndCloses
<1>. QED
  BY <1>3, <1>4 DEF OpensAndCloses

LEMMA OrderRecord ==
  ASSUME TInv, Numbered, OpensAndCloses, NEW c \in Conns, NEW k \in Kinds, RecordMessage(c, k)
  PROVE  OpensAndCloses'
<1>0. PICK N \in Nat : N = Len(Queue)
  BY QueueType
<1>1. PICK id \in Nat : id = Cardinality(recorded) + 1
  BY RecordedType
<1>. DEFINE m == [conn |-> c, id |-> id, kind |-> k]
            item == [type |-> "message", conn |-> c, id |-> id, kind |-> k]
<1>2. /\ Adds(item) /\ recorded' = recorded \cup {m} /\ link' = link
  BY <1>1, RecordAdds DEF server
<1>3. /\ item \in Item /\ item.type = "message" /\ item.conn = c /\ item.id = id
      /\ m.id = id /\ m.conn = c
  BY <1>2 DEF Adds
<1>4. link[c] = "connected"
  BY DEF RecordMessage
<1>. HIDE DEF m, item
<1>5. Order(c)'
  <2>1. \A i \in 1..N : ~Closes(i, c)
    BY <1>0, <1>4 DEF OpensAndCloses, Order
  <2>2. \A i \in 1..Len(Queue') : ~Closes(i, c)'
    BY <1>0, <1>2, <1>3, <2>1, AddedQueue DEF Closes
  <2>3. ASSUME NEW i \in 1..Len(Queue'), Opens(i, c)'
        PROVE  /\ \A j \in 1..Len(Queue') : Of(j, c)' => i <= j
               /\ \A x \in recorded' : x.conn = c => InQueue(x.id)'
    <3>1. i \in 1..N /\ Opens(i, c)
      BY <1>0, <2>3, <1>2, <1>3, AddedQueue DEF Opens
    <3>2. \A j \in 1..N : Of(j, c)' => Of(j, c)
      BY <1>0, <1>2, <1>3, AddedQueue DEF Of
    <3>3. \A j \in 1..Len(Queue') : Of(j, c)' => i <= j
      BY <1>0, <1>2, <1>3, <3>1, <3>2, AddedQueue DEF OpensAndCloses, Order
    <3>4. InQueue(id)'
      BY <1>0, <1>2, <1>3, AddedQueue DEF InQueue, IsMessage
    <3>5. \A x \in recorded : x.conn = c => InQueue(x.id)'
      BY <1>0, <1>2, <1>3, <3>1, AddedQueue DEF OpensAndCloses, Order
    <3>. QED
      BY <1>2, <1>3, <3>3, <3>4, <3>5
  <2>. QED
    BY <1>2, <1>4, <2>2, <2>3 DEF Order
<1>6. ASSUME NEW d \in Conns, d # c PROVE Order(d)'
  <2>1. item.conn # d /\ \A x \in recorded' : x.conn = d => x \in recorded
    BY <1>2, <1>3, <1>6
  <2>. QED
    BY <1>2, <1>3, <2>1, OrderOther DEF OpensAndCloses
<1>. QED
  BY <1>5, <1>6 DEF OpensAndCloses

LEMMA DroppedQueue ==
  ASSUME TInv, NEW n \in 1..Len(Queue), Drops(n)
  PROVE  /\ Len(Queue) \in Nat /\ n \in Nat
         /\ \A i \in 1..Len(Queue') : i + n \in 1..Len(Queue) /\ Queue'[i] = Queue[i + n]
         /\ \A i \in 1..Len(Queue) : i > n =>
              i - n \in 1..Len(Queue') /\ Queue'[i - n] = Queue[i]
<1>1. Len(Queue) \in Nat /\ n \in Nat
  BY QueueType
<1>2. \A i \in 1..Len(Queue') : i + n \in 1..Len(Queue) /\ Queue'[i] = Queue[i + n]
  BY <1>1 DEF Drops
<1>3. ASSUME NEW i \in 1..Len(Queue), i > n
      PROVE  i - n \in 1..Len(Queue') /\ Queue'[i - n] = Queue[i]
  <2>1. i - n \in 1..Len(Queue') /\ i - n + n = i
    BY <1>1, <1>3 DEF Drops
  <2>. QED
    BY <2>1, <1>2
<1>. QED
  BY <1>1, <1>2, <1>3

LEMMA OrderDrops ==
  ASSUME TInv, MInv, OpensAndCloses, NEW n \in 1..Len(Queue), Drops(n),
         UNCHANGED <<link, recorded>>
  PROVE  OpensAndCloses'
<1>. SUFFICES ASSUME NEW c \in Conns PROVE Order(c)'
  BY DEF OpensAndCloses
<1>0. Order(c)
  BY DEF OpensAndCloses
<1>1. ASSUME NEW i \in 1..Len(Queue')
      PROVE  /\ i + n \in 1..Len(Queue) /\ i + n > n
             /\ Of(i, c)' <=> Of(i + n, c)
             /\ Opens(i, c)' <=> Opens(i + n, c)
             /\ Closes(i, c)' <=> Closes(i + n, c)
  BY DroppedQueue DEF Of, Opens, Closes
<1>2. link[c] = "new" => (\A i \in 1..Len(Queue') : ~Of(i, c)') /\ \A m \in recorded : m.conn # c
  BY <1>0, <1>1 DEF Order
<1>3. ASSUME NEW i \in 1..Len(Queue'), Opens(i, c)'
      PROVE  /\ \A j \in 1..Len(Queue') : Of(j, c)' => i <= j
             /\ \A m \in recorded : m.conn = c => InQueue(m.id)'
  <2>1. \A j \in 1..Len(Queue') : Of(j, c)' => i <= j
    <3>1. n \in Nat /\ Len(Queue') \in Int
      BY DroppedQueue DEF Drops
    <3>2. ASSUME NEW j \in 1..Len(Queue'), Of(j, c)' PROVE i <= j
      <4>1. i + n <= j + n
        BY <1>0, <1>1, <1>3, <3>2 DEF Order
      <4>. QED
        BY <3>1, <4>1
    <3>. QED
      BY <3>2
  <2>2. ASSUME NEW m \in recorded, m.conn = c PROVE InQueue(m.id)'
    <3>1. PICK j \in 1..Len(Queue) : IsMessage(j) /\ Queue[j].id = m.id
      BY <1>0, <1>1, <1>3, <2>2 DEF Order, InQueue
    <3>2. RecordAt(j) \in recorded /\ RecordAt(j).id = m.id /\ RecordAt(j).conn = Queue[j].conn
      BY <3>1 DEF MInv, NewestQueued, RecordAt
    <3>3. Queue[j].conn = c
      BY <2>2, <3>2 DEF MInv, Numbered
    <3>4. Of(j, c)
      BY <3>1, <3>3 DEF IsMessage, Of
    <3>5. i + n <= j
      BY <1>0, <1>1, <1>3, <3>4 DEF Order
    <3>6. j > n
      <4>1. n \in Nat /\ Len(Queue') \in Int /\ Len(Queue) \in Nat
        BY DroppedQueue DEF Drops
      <4>. QED
        BY <4>1, <3>1, <3>5
    <3>7. j - n \in 1..Len(Queue') /\ Queue'[j - n] = Queue[j]
      BY <3>6, DroppedQueue
    <3>. QED
      BY <3>1, <3>7 DEF InQueue, IsMessage
  <2>. QED
    BY <2>1, <2>2
<1>4. ASSUME NEW i \in 1..Len(Queue'), Closes(i, c)'
      PROVE  (\A j \in 1..Len(Queue') : Of(j, c)' => j <= i) /\ link[c] = "gone"
  <2>1. \A j \in 1..Len(Queue') : Of(j, c)' => j + n <= i + n
    BY <1>0, <1>1, <1>4 DEF Order
  <2>2. n \in Nat
    BY DroppedQueue
  <2>. QED
    BY <1>0, <1>1, <1>4, <2>1, <2>2 DEF Order
<1>5. ASSUME link[c] = "gone", NEW i \in 1..Len(Queue'), Of(i, c)'
      PROVE  \E j \in 1..Len(Queue') : Closes(j, c)'
  <2>1. PICK j \in 1..Len(Queue) : Closes(j, c)
    BY <1>0, <1>1, <1>5 DEF Order
  <2>2. i + n <= j
    BY <1>0, <1>1, <1>5, <2>1 DEF Order
  <2>3. j > n
    BY <1>1, <2>2, DroppedQueue
  <2>4. j - n \in 1..Len(Queue') /\ Queue'[j - n] = Queue[j]
    BY <2>3, DroppedQueue
  <2>. QED
    BY <2>1, <2>4 DEF Closes
<1>. QED
  BY <1>2, <1>3, <1>4, <1>5 DEF Order

LEMMA OrderKeeps ==
  ASSUME OpensAndCloses, Queue' = Queue, UNCHANGED <<link, recorded>>
  PROVE  OpensAndCloses'
  BY DEF OpensAndCloses, Order, Of, Opens, Closes, InQueue, IsMessage

LEMMA OrderStep ==
  ASSUME TInv, StopIsLast, MInv, OpensAndCloses, [Next]_vars
  PROVE  OpensAndCloses'
<1>1. CASE StopArchive
  <2>1. Stop \in Item /\ Add(Stop) /\ batch' = batch /\ UNCHANGED <<link, recorded>>
    BY <1>1 DEF StopArchive, thread, Item
  <2>2. Stop.type = "stop" /\ Adds(Stop)
    BY <2>1, AddIsLast DEF Stop
  <2>. QED
    BY <2>1, <2>2, OrderOther DEF OpensAndCloses
<1>2. CASE Writes
  <2>1. UNCHANGED <<link, recorded>>
    BY <1>2 DEF Writes, Take, InsertConnection, UpdateDisconnection, InsertMessages,
      UpdateConnections, Exit, server
  <2>. QED
    BY <1>2, <2>1, WriteDrops, OrderKeeps, OrderDrops DEF Drops
<1>3. CASE StopServer \/ SqlError \/ RolloverDies
             \/ (\E ok \in BOOLEAN : Rollover(ok)) \/ UNCHANGED vars
  BY <1>3, OthersKeepQueue, OrderKeeps
<1>. QED
  BY <1>1, <1>2, <1>3, OrderConnect, OrderDisconnect, OrderRecord DEF Next, ServerNext, MInv

LEMMA OrderInit == Init => OpensAndCloses
<1>. SUFFICES ASSUME Init PROVE OpensAndCloses
  OBVIOUS
<1>1. Len(Queue) = 0
  BY ConcatEmptySeq, EmptySeq DEF Init, Queue
<1>. QED
  BY <1>1 DEF Init, OpensAndCloses, Order

-----------------------------------------------------------------------------
(* The rows of the open file *)

HasRow(c) == db.rows[c] # None
Ending(c) == link[c] = "connected" \/ \E i \in 1..Len(Queue) : Closes(i, c)
Announced(c) == link[c] # "new" /\ \A i \in 1..Len(Queue) : ~Opens(i, c)

\* A row names messages of its connection that are in the file; a connection
\* with a message in the file has a row; and the open rows are those of the
\* connections whose closing is still to come.
RowOK(c) ==
  /\ HasRow(c) => RecentIds(db.rows[c]) \subseteq db.messages
  /\ HasRow(c) => \A m \in recorded : m.id \in RecentIds(db.rows[c]) => m.conn = c
  /\ db.complete => \A m \in recorded : m.conn = c /\ m.id \in db.messages => HasRow(c)
  /\ HasRow(c) /\ db.rows[c].active => Ending(c)
  /\ db.complete /\ Announced(c) /\ Ending(c) => HasRow(c) /\ db.rows[c].active
RowsInv == \A c \in Conns : RowOK(c)

LEMMA RowKeeps ==
  ASSUME NEW c \in Conns, RowOK(c), UNCHANGED <<db, recorded>>,
         Ending(c)' <=> Ending(c), Announced(c)' <=> Announced(c)
  PROVE  RowOK(c)'
  BY DEF RowOK, HasRow

LEMMA AddKeepsEnds ==
  ASSUME TInv, NEW item \in Item, Adds(item), NEW c \in Conns, link'[c] = link[c],
         item.type \in {"connection", "disconnection"} => item.conn # c
  PROVE  (Ending(c)' <=> Ending(c)) /\ (Announced(c)' <=> Announced(c))
<1>1. ASSUME NEW i \in 1..Len(Queue')
      PROVE  /\ Closes(i, c)' => i \in 1..Len(Queue) /\ Closes(i, c)
             /\ Opens(i, c)' => i \in 1..Len(Queue) /\ Opens(i, c)
  BY AddedQueue DEF Closes, Opens
<1>2. ASSUME NEW i \in 1..Len(Queue)
      PROVE  /\ i \in 1..Len(Queue')
             /\ Closes(i, c) => Closes(i, c)'
             /\ Opens(i, c) => Opens(i, c)'
  BY AddedQueue DEF Closes, Opens
<1>. QED
  BY <1>1, <1>2 DEF Ending, Announced

LEMMA DropKeepsEnds ==
  ASSUME TInv, NEW n \in 1..Len(Queue), Drops(n), link' = link, NEW c \in Conns,
         \A i \in 1..n : ~Opens(i, c) /\ ~Closes(i, c)
  PROVE  (Ending(c)' <=> Ending(c)) /\ (Announced(c)' <=> Announced(c))
<1>1. ASSUME NEW i \in 1..Len(Queue')
      PROVE  /\ i + n \in 1..Len(Queue)
             /\ Closes(i, c)' <=> Closes(i + n, c)
             /\ Opens(i, c)' <=> Opens(i + n, c)
  BY DroppedQueue DEF Closes, Opens
<1>2. ASSUME NEW i \in 1..Len(Queue), Closes(i, c) \/ Opens(i, c)
      PROVE  /\ i - n \in 1..Len(Queue')
             /\ Closes(i, c) => Closes(i - n, c)'
             /\ Opens(i, c) => Opens(i - n, c)'
  <2>1. i > n
    <3>1. i \in Nat /\ n \in Nat
      BY DroppedQueue
    <3>. QED
      BY <1>2, <3>1
  <2>. QED
    BY <2>1, DroppedQueue DEF Closes, Opens
<1>. QED
  BY <1>1, <1>2 DEF Ending, Announced

LEMMA RowsConnect == ASSUME TInv, RowsInv, NEW c \in Conns, Connect(c) PROVE RowsInv'
<1>1. /\ link \in [Conns -> {"new", "connected", "gone"}]
      /\ link' = [link EXCEPT ![c] = "connected"] /\ UNCHANGED <<db, recorded>>
  BY DEF Connect, TInv, ServerOK
<1>2. PICK item \in Item : item.type = "connection" /\ item.conn = c /\ Adds(item)
  BY RecordIsItem, AddIsLast DEF Connect, thread, Record
<1>3. RowOK(c)'
  <2>1. Ending(c)'
    BY <1>1 DEF Ending
  <2>2. ~Announced(c)'
    BY <1>2, AddedQueue DEF Announced, Opens
  <2>. QED
    BY <1>1, <2>1, <2>2 DEF RowsInv, RowOK, HasRow
<1>4. ASSUME NEW d \in Conns, d # c PROVE RowOK(d)'
  <2>1. link'[d] = link[d]
    BY <1>1, <1>4
  <2>. QED
    BY <1>1, <1>2, <1>4, <2>1, AddKeepsEnds, RowKeeps DEF RowsInv
<1>. QED
  BY <1>3, <1>4 DEF RowsInv

LEMMA RowsDisconnect == ASSUME TInv, RowsInv, NEW c \in Conns, Disconnect(c) PROVE RowsInv'
<1>1. /\ link \in [Conns -> {"new", "connected", "gone"}] /\ link[c] = "connected"
      /\ link' = [link EXCEPT ![c] = "gone"] /\ UNCHANGED <<db, recorded>>
  BY DEF Disconnect, TInv, ServerOK
<1>2. PICK item \in Item : item.type = "disconnection" /\ item.conn = c /\ Adds(item)
  BY RecordIsItem, AddIsLast DEF Disconnect, thread, Record
<1>3. RowOK(c)'
  <2>1. Ending(c)'
    BY <1>2, AddedQueue DEF Ending, Closes
  <2>2. Ending(c)
    BY <1>1 DEF Ending
  <2>3. Announced(c)' => Announced(c)
    BY <1>1, AddedQueue, <1>2 DEF Announced, Opens
  <2>. QED
    BY <1>1, <2>1, <2>2, <2>3 DEF RowsInv, RowOK, HasRow
<1>4. ASSUME NEW d \in Conns, d # c PROVE RowOK(d)'
  <2>1. link'[d] = link[d]
    BY <1>1, <1>4
  <2>. QED
    BY <1>1, <1>2, <1>4, <2>1, AddKeepsEnds, RowKeeps DEF RowsInv
<1>. QED
  BY <1>3, <1>4 DEF RowsInv

\* The message that is recorded is in no file yet.
LEMMA RowsRecord ==
  ASSUME TInv, Numbered, RowsInv, NEW c \in Conns, NEW k \in Kinds, RecordMessage(c, k)
  PROVE  RowsInv'
<1>1. PICK id \in Nat : id = Cardinality(recorded) + 1
  BY RecordedType
<1>. DEFINE m == [conn |-> c, id |-> id, kind |-> k]
            item == [type |-> "message", conn |-> c, id |-> id, kind |-> k]
<1>2. /\ Adds(item) /\ recorded' = recorded \cup {m} /\ UNCHANGED <<link, db>>
      /\ item \in Item /\ item.type = "message" /\ m.id = id
  BY <1>1, RecordAdds DEF server, Adds
<1>. HIDE DEF m, item
<1>3. id \notin db.messages
  <2>1. \A x \in db.messages : x <= Cardinality(recorded)
    BY DEF Numbered, Stored
  <2>2. Cardinality(recorded) \in Nat
    BY RecordedType
  <2>. QED
    BY <1>1, <2>1, <2>2
<1>4. ASSUME NEW d \in Conns PROVE RowOK(d)'
  <2>1. (Ending(d)' <=> Ending(d)) /\ (Announced(d)' <=> Announced(d))
    BY <1>2, AddKeepsEnds
  <2>2. RowOK(d)
    BY DEF RowsInv
  <2>3. HasRow(d) => \A x \in recorded' : x.id \in RecentIds(db.rows[d]) => x.conn = d
    BY <1>2, <1>3, <2>2 DEF RowOK
  <2>4. db.complete => \A x \in recorded' : x.conn = d /\ x.id \in db.messages => HasRow(d)
    BY <1>2, <1>3, <2>2 DEF RowOK
  <2>. QED
    BY <1>2, <2>1, <2>2, <2>3, <2>4 DEF RowOK, HasRow
<1>. QED
  BY <1>4 DEF RowsInv

\* A row is added; it names no message yet.
LEMMA RowsInsertConnection ==
  ASSUME TInv, OpensAndCloses, RowsInv, InsertConnection, Drops(1), Queue[1] = Head(batch)
  PROVE  RowsInv'
<1>. DEFINE c == Queue[1].conn
            new == [active |-> TRUE, registration |-> NoId, statusNew |-> NoId,
                    statusUnchanged |-> NoId, detection |-> NoId]
<1>1. /\ Queue[1].type = "connection" /\ c \in Conns /\ 1 \in 1..Len(Queue)
      /\ UNCHANGED <<link, recorded>>
      /\ db' = [db EXCEPT !.rows[c] = new]
  BY NextRecord DEF InsertConnection, TInv, Drops, IsNext, server
<1>2. db'.rows = [db.rows EXCEPT ![c] = new] /\ db'.messages = db.messages
        /\ db'.complete = db.complete /\ db.rows \in Rows
  BY <1>1 DEF TInv, FilesOK, Database
<1>3. PICK d \in Conns : d = c
  BY <1>1
<1>. HIDE DEF c
<1>4. RowOK(d)'
  <2>1. db'.rows[d] = new
    BY <1>2, <1>3 DEF Rows
  <2>2. RecentIds(new) = {} /\ new \in Row
    BY DEF RecentIds, Row
  <2>3. new # None
    BY <2>2, NoneAssumption
  <2>4. Ending(d)'
    <3>1. Opens(1, d) /\ Of(1, d)
      BY <1>1, <1>3 DEF Opens, Of, c
    <3>2. link[d] = "connected" \/ link[d] = "gone"
      BY <1>1, <3>1 DEF OpensAndCloses, Order, TInv, ServerOK
    <3>3. ASSUME link[d] = "gone" PROVE Ending(d)'
      <4>1. PICK j \in 1..Len(Queue) : Closes(j, d)
        BY <1>1, <3>1, <3>3 DEF OpensAndCloses, Order
      <4>2. j # 1
        BY <3>1, <4>1 DEF Opens, Closes
      <4>3. j > 1
        BY <4>1, <4>2, DroppedQueue, <1>1
      <4>4. j - 1 \in 1..Len(Queue') /\ Queue'[j - 1] = Queue[j]
        BY <1>1, <4>3, DroppedQueue
      <4>. QED
        BY <4>1, <4>4 DEF Ending, Closes
    <3>. QED
      BY <1>1, <3>2, <3>3 DEF Ending
  <2>. HIDE DEF new
  <2>5. new.active
    BY DEF new
  <2>. QED
    BY <2>1, <2>2, <2>3, <2>4, <2>5 DEF RowOK, HasRow
<1>5. ASSUME NEW e \in Conns, e # d PROVE RowOK(e)'
  <2>1. db'.rows[e] = db.rows[e]
    BY <1>2, <1>3, <1>5 DEF Rows
  <2>2. \A i \in 1..1 : ~Opens(i, e) /\ ~Closes(i, e)
    BY <1>3, <1>5 DEF Opens, Closes, c
  <2>3. (Ending(e)' <=> Ending(e)) /\ (Announced(e)' <=> Announced(e))
    BY <1>1, <2>2, DropKeepsEnds
  <2>. QED
    BY <1>1, <1>2, <2>1, <2>3 DEF RowsInv, RowOK, HasRow
<1>. QED
  BY <1>4, <1>5 DEF RowsInv

\* A row is closed by the record that ends its connection.
LEMMA RowsUpdateDisconnection ==
  ASSUME TInv, OpensAndCloses, RowsInv, UpdateDisconnection, Drops(1), Queue[1] = Head(batch)
  PROVE  RowsInv'
<1>1. PICK d \in Conns : d = Queue[1].conn
  BY NextRecord DEF UpdateDisconnection, TInv
<1>2. /\ Closes(1, d) /\ 1 \in 1..Len(Queue) /\ UNCHANGED <<link, recorded>>
      /\ db' = IF db.rows[d] = None THEN db ELSE [db EXCEPT !.rows[d].active = FALSE]
  BY <1>1, NextRecord DEF UpdateDisconnection, TInv, Drops, IsNext, server, Closes
<1>3. /\ db'.messages = db.messages /\ db'.complete = db.complete
      /\ \A e \in Conns : e # d => db'.rows[e] = db.rows[e]
      /\ db'.rows[d] = IF db.rows[d] = None THEN None
                       ELSE [db.rows[d] EXCEPT !.active = FALSE]
  BY <1>2 DEF TInv, FilesOK, Database, Rows
<1>4. RowOK(d)'
  <2>1. link[d] = "gone" /\ \A j \in 1..Len(Queue) : ~(j > 1 /\ Of(j, d))
    BY <1>2, DroppedQueue DEF OpensAndCloses, Order
  <2>2. ~Ending(d)'
    <3>1. \A i \in 1..Len(Queue') :
             i + 1 \in 1..Len(Queue) /\ i + 1 > 1 /\ Queue'[i] = Queue[i + 1]
      BY <1>2, DroppedQueue
    <3>2. \A i \in 1..Len(Queue') : ~Closes(i, d)'
      BY <2>1, <3>1 DEF Of, Closes
    <3>. QED
      BY <1>2, <2>1, <3>2 DEF Ending
  <2>3. CASE db.rows[d] = None
    BY <1>2, <1>3, <2>2, <2>3 DEF RowsInv, RowOK, HasRow
  <2>4. CASE db.rows[d] # None
    <3>. DEFINE new == [db.rows[d] EXCEPT !.active = FALSE]
    <3>1. db.rows[d] \in Row
      BY <2>4 DEF TInv, FilesOK, Database, Rows
    <3>2. ~new.active /\ RecentIds(new) = RecentIds(db.rows[d]) /\ new \in Row
      BY <3>1 DEF Row, RecentIds
    <3>3. new # None
      BY <3>2, NoneAssumption
    <3>4. db'.rows[d] = new
      BY <1>3, <2>4
    <3>. HIDE DEF new
    <3>. QED
      BY <1>2, <1>3, <2>2, <2>4, <3>2, <3>3, <3>4 DEF RowsInv, RowOK, HasRow
  <2>. QED
    BY <2>3, <2>4
<1>5. ASSUME NEW e \in Conns, e # d PROVE RowOK(e)'
  <2>1. db'.rows[e] = db.rows[e]
    BY <1>3, <1>5
  <2>2. \A i \in 1..1 : ~Opens(i, e) /\ ~Closes(i, e)
    BY <1>1, <1>5 DEF Opens, Closes
  <2>3. (Ending(e)' <=> Ending(e)) /\ (Announced(e)' <=> Announced(e))
    BY <1>2, <2>2, DropKeepsEnds
  <2>. QED
    BY <1>2, <1>3, <2>1, <2>3 DEF RowsInv, RowOK, HasRow
<1>. QED
  BY <1>4, <1>5 DEF RowsInv

\* A chunk at the front of the queue: where it has a message of a connection,
\* that connection's row is there already.
LEMMA RowsInsertMessages ==
  ASSUME TInv, MInv, OpensAndCloses, RowsInv, InsertMessages
  PROVE  RowsInv'
<1>1. /\ \A i \in 1..inserted' : IsMessage(i) /\ i \in 1..Len(Queue)
      /\ db'.messages = db.messages \cup {Queue[i].id : i \in 1..inserted'}
      /\ db'.rows = db.rows /\ db'.complete = db.complete
      /\ inserted' \in Nat
  <2>1. /\ inserted' \in 1..Len(batch)
        /\ \A i \in 1..inserted' : batch[i].type = "message"
        /\ db' = [db EXCEPT !.messages = @ \cup {batch[i].id : i \in 1..inserted'}]
    BY ChunkInserted DEF TInv
  <2>2. db \in Database
    BY DEF TInv, FilesOK
  <2>3. /\ Len(batch) \in Nat /\ Len(Queue) \in Nat /\ Len(batch) <= Len(Queue)
        /\ \A i \in 1..Len(batch) : Queue[i] = batch[i]
    BY QueueType
  <2>4. \A i \in 1..inserted' : i \in 1..Len(Queue) /\ Queue[i] = batch[i]
    BY <2>1, <2>3
  <2>5. {batch[i].id : i \in 1..inserted'} = {Queue[i].id : i \in 1..inserted'}
    BY <2>4
  <2>6. /\ db'.messages = db.messages \cup {batch[i].id : i \in 1..inserted'}
        /\ db'.rows = db.rows /\ db'.complete = db.complete
    BY <2>1, <2>2 DEF Database
  <2>7. inserted' \in Nat
    BY <2>1, <2>3
  <2>. QED
    BY <2>1, <2>4, <2>5, <2>6, <2>7 DEF IsMessage
<1>2. Queue' = Queue /\ UNCHANGED <<link, recorded>>
  BY DEF InsertMessages, Queue, server
<1>3. ASSUME NEW c \in Conns PROVE RowOK(c)'
  <2>1. RowOK(c) /\ Order(c)
    BY DEF RowsInv, OpensAndCloses
  <2>2. (Ending(c)' <=> Ending(c)) /\ (Announced(c)' <=> Announced(c))
    BY <1>2 DEF Ending, Announced, Closes, Opens
  <2>3. ASSUME db.complete, NEW i \in 1..inserted', Queue[i].conn = c PROVE HasRow(c)
    <3>1. i \in 1..Len(Queue) /\ Of(i, c)
      BY <1>1, <2>3 DEF Of, IsMessage
    <3>2. link[c] # "new"
      BY <2>1, <3>1 DEF Order
    <3>3. ASSUME NEW j \in 1..Len(Queue), Opens(j, c) PROVE FALSE
      <4>1. j <= i
        BY <2>1, <3>1, <3>3 DEF Order
      <4>2. j \in 1..inserted'
        BY <1>1, <4>1
      <4>. QED
        BY <1>1, <3>3, <4>2 DEF Opens, IsMessage
    <3>4. link[c] = "connected" \/ link[c] = "gone"
      BY <3>2 DEF TInv, ServerOK
    <3>5. Ending(c)
      BY <2>1, <3>1, <3>4 DEF Ending, Order
    <3>. QED
      BY <2>1, <2>3, <3>2, <3>3, <3>5 DEF RowOK, Announced
  <2>4. ASSUME db.complete, NEW m \in recorded, m.conn = c, m.id \in db'.messages PROVE HasRow(c)
    <3>1. CASE m.id \in db.messages
      BY <2>1, <2>4, <3>1 DEF RowOK
    <3>2. ASSUME NEW i \in 1..inserted', m.id = Queue[i].id PROVE HasRow(c)
      <4>1. RecordAt(i) \in recorded /\ RecordAt(i).id = Queue[i].id
              /\ RecordAt(i).conn = Queue[i].conn
        BY <1>1 DEF MInv, NewestQueued, RecordAt
      <4>2. Queue[i].conn = c
        BY <2>4, <3>2, <4>1 DEF MInv, Numbered
      <4>. QED
        BY <2>3, <2>4, <4>2
    <3>. QED
      BY <1>1, <2>4, <3>1, <3>2
  <2>. QED
    BY <1>1, <1>2, <2>1, <2>2, <2>4 DEF RowOK, HasRow
<1>. QED
  BY <1>3 DEF RowsInv

\* What one message, and what a chunk of them, changes in a row.
RowFollows(new, old, ids) ==
  /\ new = None <=> old = None
  /\ old # None => new.active = old.active /\ RecentIds(new) \subseteq RecentIds(old) \cup ids

LEMMA UpdateRowFollows ==
  ASSUME NEW rows \in Rows, NEW m \in Item, m.type = "message", NEW c \in Conns
  PROVE  RowFollows(UpdateRow(rows, m)[c], rows[c], IF m.conn = c THEN {m.id} ELSE {})
<1>1. m.conn \in Conns /\ m.id \in Ids
  BY Shapes
<1>2. CASE rows[m.conn] = None
  BY <1>2 DEF UpdateRow, RowFollows
<1>3. CASE rows[m.conn] # None /\ m.conn # c
  BY <1>1, <1>3 DEF UpdateRow, RowFollows, Rows
<1>4. CASE rows[c] # None /\ m.conn = c
  <2>1. rows[c] \in Row
    BY <1>4 DEF Rows
  <2>2. /\ After(rows[c], m) \in Row
        /\ After(rows[c], m).active = rows[c].active
    BY <1>1, <2>1 DEF After, Row
  <2>3. RecentIds(After(rows[c], m)) \subseteq RecentIds(rows[c]) \cup {m.id}
    <3>1. CASE m.kind = "registration"
      BY <1>1, <2>1, <3>1 DEF After, Row, RecentIds
    <3>2. CASE m.kind = "statusNew"
      BY <1>1, <2>1, <3>2 DEF After, Row, RecentIds
    <3>3. CASE m.kind = "statusUnchanged"
      BY <1>1, <2>1, <3>3 DEF After, Row, RecentIds
    <3>4. CASE m.kind = "detection"
      BY <1>1, <2>1, <3>4 DEF After, Row, RecentIds
    <3>5. CASE m.kind \notin {"registration", "statusNew", "statusUnchanged", "detection"}
      <4>1. After(rows[c], m) = rows[c]
        BY <3>5 DEF After
      <4>. QED
        BY <4>1
    <3>. QED
      BY <3>1, <3>2, <3>3, <3>4, <3>5
  <2>4. UpdateRow(rows, m)[c] = After(rows[c], m)
    BY <1>4 DEF UpdateRow, Rows
  <2>5. After(rows[c], m) # None
    BY <2>2, NoneAssumption
  <2>. QED
    BY <1>4, <2>2, <2>3, <2>4, <2>5 DEF RowFollows
<1>. QED
  BY <1>2, <1>3, <1>4

LEMMA RowsAfterFollows ==
  ASSUME NEW rows \in Rows, NEW messages \in Seq(Item),
         \A i \in 1..Len(messages) : messages[i].type = "message", NEW c \in Conns
  PROVE  LET J == {j \in 1..Len(messages) : messages[j].conn = c}
         IN  RowFollows(RowsAfter(rows, messages)[c], rows[c], {messages[j].id : j \in J})
<1>. DEFINE N == Len(messages)
            Sent(k) == {messages[j].id : j \in {j \in 1..k : messages[j].conn = c}}
<1>0. N \in Nat /\ \A i \in 1..N : messages[i] \in Item
  BY LenProperties, ElementOfSeq
<1>1. PICK f : Updates(f, rows, messages) /\ RowsAfter(rows, messages) = f[N]
  BY RowsAfterUpdates
<1>. DEFINE T == {k \in 0..N : RowFollows(f[k][c], rows[c], Sent(k))}
<1>2. 0 \in T
  <2>1. f[0] = rows
    BY <1>1 DEF Updates
  <2>. QED
    BY <1>0, <2>1 DEF RowFollows
<1>3. ASSUME NEW k \in 0..(N - 1), k \in T PROVE k + 1 \in T
  <2>1. k + 1 \in 1..N /\ k + 1 - 1 = k /\ k \in 0..N /\ k + 1 \in 0..N
    BY <1>0
  <2>. DEFINE m == messages[k + 1]
  <2>2. f[k] \in Rows /\ f[k + 1] = UpdateRow(f[k], m) /\ m \in Item /\ m.type = "message"
    BY <1>0, <1>1, <2>1 DEF Updates
  <2>3. RowFollows(f[k + 1][c], f[k][c], IF m.conn = c THEN {m.id} ELSE {})
    <3>. HIDE DEF m
    <3>. QED
      BY <2>2, UpdateRowFollows
  <2>4. /\ Sent(k) \subseteq Sent(k + 1)
        /\ (IF m.conn = c THEN {m.id} ELSE {}) \subseteq Sent(k + 1)
    BY <2>1
  <2>5. RowFollows(f[k][c], rows[c], Sent(k))
    BY <1>3
  <2>6. RowFollows(f[k + 1][c], rows[c], Sent(k + 1))
    <3>. HIDE DEF m, Sent
    <3>. QED
      BY <2>3, <2>4, <2>5 DEF RowFollows
  <2>. QED
    BY <2>1, <2>6
<1>4. N \in T
  <2>. HIDE DEF T
  <2>1. \A k \in 0..N : k \in T
    BY <1>0, <1>2, <1>3, BoundedInduction
  <2>. QED
    BY <2>1, <1>0
<1>. QED
  BY <1>1, <1>4

\* The recent ids a chunk writes are of messages that were inserted before.
LEMMA RowsUpdateConnections ==
  ASSUME TInv, MInv, RowsInv, UpdateConnections, Drops(inserted)
  PROVE  RowsInv'
<1>. DEFINE chunk == SubSeq(batch, 1, inserted)
<1>1. /\ inserted \in 1..Len(Queue) /\ inserted \in Nat
      /\ chunk \in Seq(Item) /\ Len(chunk) = inserted
      /\ \A i \in 1..inserted :
           /\ i \in 1..Len(Queue) /\ chunk[i] = Queue[i] /\ IsMessage(i)
           /\ chunk[i].type = "message" /\ Queue[i].id \in db.messages
  <2>1. /\ inserted \in 1..Len(batch)
        /\ chunk \in Seq(Item) /\ Len(chunk) = inserted
        /\ \A i \in 1..inserted :
             chunk[i] = batch[i] /\ chunk[i].type = "message" /\ chunk[i] \in Item
    BY ChunkUpdated DEF TInv
  <2>2. /\ Len(batch) \in Nat /\ Len(Queue) \in Nat /\ Len(batch) <= Len(Queue)
        /\ \A i \in 1..Len(batch) : Queue[i] = batch[i]
    BY QueueType
  <2>. HIDE DEF chunk
  <2>3. inserted \in 1..Len(Queue) /\ inserted \in Nat
    BY <2>1, <2>2
  <2>4. \A i \in 1..inserted : i \in 1..Len(Queue) /\ chunk[i] = Queue[i]
    BY <2>1, <2>2
  <2>5. \A i \in 1..inserted : Queue[i].id \in db.messages
    BY DEF MInv, Frontier
  <2>. QED
    BY <2>1, <2>3, <2>4, <2>5 DEF IsMessage
<1>2. /\ db.rows \in Rows
      /\ db'.rows = RowsAfter(db.rows, chunk) /\ db'.messages = db.messages
      /\ db'.complete = db.complete /\ UNCHANGED <<link, recorded>>
  BY DEF UpdateConnections, server, TInv, FilesOK, Database
<1>3. ASSUME NEW c \in Conns PROVE RowOK(c)'
  <2>. DEFINE sent == {chunk[j].id : j \in {j \in 1..Len(chunk) : chunk[j].conn = c}}
  <2>1. RowFollows(db'.rows[c], db.rows[c], sent)
    <3>. HIDE DEF chunk
    <3>. QED
      BY <1>1, <1>2, RowsAfterFollows
  <2>2. RowOK(c)
    BY DEF RowsInv
  <2>3. sent \subseteq db.messages
    BY <1>1
  <2>4. \A m \in recorded : m.id \in sent => m.conn = c
    <3>. HIDE DEF chunk
    <3>1. ASSUME NEW m \in recorded, NEW j \in 1..inserted, chunk[j].conn = c, m.id = chunk[j].id
          PROVE  m.conn = c
      <4>1. RecordAt(j) \in recorded /\ RecordAt(j).id = m.id /\ RecordAt(j).conn = c
        BY <1>1, <3>1 DEF MInv, NewestQueued, RecordAt
      <4>. QED
        BY <3>1, <4>1 DEF MInv, Numbered
    <3>. QED
      BY <1>1, <3>1
  <2>5. (Ending(c)' <=> Ending(c)) /\ (Announced(c)' <=> Announced(c))
    <3>1. \A i \in 1..inserted : ~Opens(i, c) /\ ~Closes(i, c)
      BY <1>1 DEF Opens, Closes, IsMessage
    <3>. QED
      BY <1>1, <1>2, <3>1, DropKeepsEnds
  <2>. HIDE DEF sent
  <2>. QED
    BY <1>2, <2>1, <2>2, <2>3, <2>4, <2>5 DEF RowFollows, RowOK, HasRow
<1>. QED
  BY <1>3 DEF RowsInv

\* What a rollover copies are the open rows, with the messages they name; one
\* that fails leaves a file that is marked as incomplete.
LEMMA RowsRollover ==
  ASSUME TInv, MInv, RowsInv, NEW ok \in BOOLEAN, Rollover(ok)
  PROVE  RowsInv'
<1>1. Queue' = Queue /\ UNCHANGED <<link, recorded>>
  BY OthersKeepQueue
<1>2. db \in Database
  BY DEF TInv, FilesOK
<1>3. ASSUME NEW c \in Conns PROVE RowOK(c)'
  <2>1. RowOK(c)
    BY DEF RowsInv
  <2>2. (Ending(c)' <=> Ending(c)) /\ (Announced(c)' <=> Announced(c))
    BY <1>1 DEF Ending, Announced, Closes, Opens
  <2>3. CASE ok
    <3>1. /\ db'.rows[c] = IF c \in ActiveConns THEN db.rows[c] ELSE None
          /\ db'.messages = db.messages \cap UNION {RecentIds(db.rows[e]) : e \in ActiveConns}
          /\ db'.complete = db.complete
      BY <2>3 DEF Rollover, Export
    <3>2. c \in ActiveConns <=> HasRow(c) /\ db.rows[c].active
      BY DEF ActiveConns, HasRow
    <3>3. HasRow(c)' => RecentIds(db'.rows[c]) \subseteq db'.messages
      BY <2>1, <3>1, <3>2 DEF RowOK, HasRow
    <3>4. ASSUME db.complete, NEW m \in recorded, m.conn = c, m.id \in db'.messages PROVE HasRow(c)'
      <4>1. PICK e \in ActiveConns : m.id \in RecentIds(db.rows[e])
        BY <3>1, <3>4
      <4>2. e \in Conns /\ HasRow(e) /\ RowOK(e)
        BY <4>1 DEF ActiveConns, HasRow, RowsInv
      <4>3. e = c
        BY <3>4, <4>1, <4>2 DEF RowOK
      <4>. QED
        BY <3>1, <3>2, <4>1, <4>3 DEF HasRow
    <3>. QED
      BY <1>1, <2>1, <2>2, <3>1, <3>2, <3>3, <3>4 DEF RowOK, HasRow
  <2>4. CASE ~ok
    <3>1. db'.rows[c] = None /\ ~db'.complete
      BY <2>4 DEF Rollover, EmptyDatabase
    <3>. QED
      BY <3>1 DEF RowOK, HasRow
  <2>. QED
    BY <2>3, <2>4
<1>. QED
  BY <1>3 DEF RowsInv

LEMMA RowsInit == Init => RowsInv
  BY DEF Init, EmptyDatabase, RowsInv, RowOK, HasRow, Announced

LEMMA RowsStep ==
  ASSUME TInv, StopIsLast, MInv, OpensAndCloses, RowsInv, [Next]_vars
  PROVE  RowsInv'
<1>1. CASE StopArchive
  <2>1. /\ Stop \in Item /\ Add(Stop) /\ batch' = batch /\ Stop.type = "stop"
        /\ UNCHANGED <<link, db, recorded>>
    BY <1>1 DEF StopArchive, thread, Item, Stop
  <2>2. Adds(Stop)
    BY <2>1, AddIsLast
  <2>. QED
    BY <2>1, <2>2, AddKeepsEnds, RowKeeps DEF RowsInv
<1>2. CASE Exit
  <2>1. /\ Drops(1) /\ UNCHANGED <<link, db, recorded>>
    BY <1>2, ExitIsLast DEF Exit, server
  <2>2. Queue[1].type = "stop" /\ 1 \in 1..Len(Queue)
    BY <1>2, <2>1, WriteDrops, NextRecord DEF Exit, TInv, Drops, Writes, Take, IsNext,
      InsertConnection, UpdateDisconnection, InsertMessages, UpdateConnections
  <2>3. \A c \in Conns : \A i \in 1..1 : ~Opens(i, c) /\ ~Closes(i, c)
    BY <2>2 DEF Opens, Closes
  <2>. QED
    BY <2>1, <2>2, <2>3, DropKeepsEnds, RowKeeps DEF RowsInv
<1>3. CASE Writes /\ ~Exit
  BY <1>3, WriteDrops, RowsInsertConnection, RowsUpdateDisconnection, RowsInsertMessages,
     RowsUpdateConnections, RowKeeps
     DEF Writes, RowsInv, Take, server, Ending, Announced, Closes, Opens
<1>4. CASE StopServer \/ SqlError \/ RolloverDies \/ UNCHANGED vars
  <2>1. Queue' = Queue /\ UNCHANGED <<link, db, recorded>>
    BY <1>4, OthersKeepQueue DEF StopServer, SqlError, RolloverDies, vars
  <2>. QED
    BY <2>1, RowKeeps DEF RowsInv, Ending, Announced, Closes, Opens
<1>. QED
  BY <1>1, <1>2, <1>3, <1>4, RowsConnect, RowsDisconnect, RowsRecord, RowsRollover
     DEF Next, ServerNext, MInv

\* The part of the invariant that is about the rows.
LEMMA RowsCorrect == Spec => [](TInv /\ StopIsLast /\ MInv /\ OpensAndCloses /\ RowsInv)
<1>1. Init => OpensAndCloses /\ RowsInv
  BY OrderInit, RowsInit
<1>2. TInv /\ StopIsLast /\ MInv /\ OpensAndCloses /\ RowsInv /\ [Next]_vars
        => OpensAndCloses' /\ RowsInv'
  BY OrderStep, RowsStep
<1>. QED
  BY <1>1, <1>2, MessagesCorrect, PTL DEF Spec

\* The ids a row names are of messages in the same file, between any two
\* transactions and after any rollover (sqlite_saver._export_active_connections).
THEOREM RecentIdsAreInTheFile == Spec => []RecentAreStored
<1>1. RowsInv => RecentAreStored
  BY DEF RowsInv, RowOK, HasRow, RecentAreStored
<1>. QED
  BY <1>1, RowsCorrect, PTL

\* A message in the open file has its connection's row there, as long as no
\* rollover failed (the foreign key Message.connection_id).
THEOREM MessagesHaveConnections == Spec => []NoOrphans
<1>1. TInv /\ RowsInv => NoOrphans
  <2>. SUFFICES ASSUME TInv, RowsInv, db.complete, NEW m \in recorded, m.id \in db.messages
                PROVE  db.rows[m.conn] # None
    BY DEF NoOrphans
  <2>1. m.conn \in Conns
    BY RecordedType
  <2>. QED
    BY <2>1 DEF RowsInv, RowOK, HasRow
<1>. QED
  BY <1>1, RowsCorrect, PTL

\* After a graceful shutdown no row of the file is open: each connection's
\* disconnection was added before the sentinel (apex.shutdown).
THEOREM ShutdownClosesRows == Spec => []ConnectionsEndClosed
<1>1. StopIsLast /\ RowsInv => ConnectionsEndClosed
  <2>. SUFFICES ASSUME StopIsLast, RowsInv, at = "exited", NEW c \in Conns, HasRow(c)
                PROVE  ~db.rows[c].active
    BY DEF ConnectionsEndClosed, HasRow
  <2>1. ~Ending(c)
    BY DEF StopIsLast, Ending
  <2>. QED
    BY <2>1 DEF RowsInv, RowOK
<1>. QED
  BY <1>1, RowsCorrect, PTL

-----------------------------------------------------------------------------
(* What the rows say of the messages written so far *)

LEMMA LatestIsAnId ==
  ASSUME NEW S, S \subseteq Message, NEW kind, NEW since \in Nat
  PROVE  LET i == Latest(S, kind, since)
         IN  i = NoId \/ (i > since /\ \E m \in S : m.kind = kind /\ m.id = i)
<1>. DEFINE ids == {m.id : m \in {m \in S : m.kind = kind /\ m.id > since}}
<1>1. Latest(S, kind, since) =
        IF ids = {} THEN NoId ELSE CHOOSE i \in ids : \A j \in ids : j <= i
  BY DEF Latest
<1>2. ids \subseteq Nat /\ \A i \in ids : i <= MaxMessages
  BY DEF Message, Ids
<1>3. ids # {} => \E i \in ids : \A j \in ids : j <= i
  <2>. HIDE DEF ids
  <2>. QED
    BY <1>2, BoundsAssumption, GreatestNatural
<1>4. ids # {} => Latest(S, kind, since) \in ids
  <2>. HIDE DEF ids
  <2>. QED
    BY <1>1, <1>3
<1>5. \A i \in ids : i > since /\ \E m \in S : m.kind = kind /\ m.id = i
  OBVIOUS
<1>. QED
  BY <1>1, <1>4, <1>5

LEMMA LatestSince ==
  ASSUME NEW S, S \subseteq Message, NEW kind, NEW since \in Nat, \A x \in S : x.id <= since
  PROVE  Latest(S, kind, since) = NoId
<1>1. \A x \in S : ~(x.id > since)
  BY DEF Message, Ids
<1>. QED
  BY <1>1 DEF Latest

LEMMA LatestOfMore ==
  ASSUME NEW S, S \subseteq Message, NEW m \in Message, \A x \in S : x.id < m.id,
         NEW kind, NEW since \in Nat
  PROVE  Latest(S \cup {m}, kind, since) =
           IF m.kind = kind /\ m.id > since THEN m.id ELSE Latest(S, kind, since)
<1>. DEFINE Of2(T) == {x.id : x \in {x \in T : x.kind = kind /\ x.id > since}}
            U == S \cup {m}
<1>1. \A x \in U : x.id \in Nat /\ x.id <= m.id
  BY DEF Message, Ids
<1>2. CASE m.kind = kind /\ m.id > since
  <2>1. m.id \in Of2(U) /\ \A i \in Of2(U) : i \in Nat /\ i <= m.id
    BY <1>1, <1>2
  <2>2. (CHOOSE i \in Of2(U) : \A j \in Of2(U) : j <= i) = m.id
    <3>. HIDE DEF Of2
    <3>1. ASSUME NEW i \in Of2(U), \A j \in Of2(U) : j <= i PROVE i = m.id
      BY <2>1, <3>1
    <3>. QED
      BY <2>1, <3>1
  <2>. QED
    BY <1>2, <2>1, <2>2 DEF Latest
<1>3. CASE ~(m.kind = kind /\ m.id > since)
  <2>1. Of2(U) = Of2(S)
    BY <1>3
  <2>2. \A W : Latest(W, kind, since) =
                 IF Of2(W) = {} THEN NoId ELSE CHOOSE i \in Of2(W) : \A j \in Of2(W) : j <= i
    BY DEF Latest
  <2>3. Latest(U, kind, since) = Latest(S, kind, since)
    <3>. HIDE DEF Of2, U
    <3>. QED
      BY <2>1, <2>2
  <2>. QED
    BY <1>3, <2>3
<1>. QED
  BY <1>2, <1>3

\* The heart of it: one more message, later than all the others, and the row
\* after it.
LEMMA ReflectsAfter ==
  ASSUME NEW S, S \subseteq Message, NEW item \in Item, item.type = "message",
         NEW m \in Message, m.id = item.id, m.kind = item.kind,
         \A x \in S : x.id < m.id, NEW row \in Row, Reflects(row, S)
  PROVE  Reflects(After(row, item), S \cup {m})
<1>. DEFINE T == S \cup {m}
            r == Latest(S, "registration", NoId)
            n == Latest(S, "statusNew", r)
<1>1. /\ r \in Nat /\ n \in Nat /\ m.id \in Nat /\ m.id > NoId /\ NoId \in Nat
      /\ m.id > r /\ m.id > n /\ Later(r, n) \in Nat /\ m.id > Later(r, n)
      /\ \A x \in S : x.id \in Nat /\ x.id <= m.id
  <2>1. m.id \in Nat /\ m.id > 0 /\ \A x \in S : x.id \in Nat /\ x.id < m.id
    BY DEF Message, Ids
  <2>2. r = NoId \/ \E x \in S : x.id = r
    BY LatestIsAnId DEF NoId
  <2>3. r \in Nat
    BY <2>1, <2>2 DEF NoId
  <2>4. n = NoId \/ \E x \in S : x.id = n
    <3>. HIDE DEF r
    <3>. QED
      BY <2>3, LatestIsAnId
  <2>. HIDE DEF r, n
  <2>. QED
    BY <2>1, <2>2, <2>3, <2>4 DEF NoId, Later
<1>2. \A k : \A since \in Nat :
        Latest(T, k, since) = IF m.kind = k /\ m.id > since THEN m.id ELSE Latest(S, k, since)
  BY LatestOfMore
<1>3. \A k : Latest(S, k, m.id) = NoId
  BY <1>1, LatestSince
<1>4. /\ row.registration = r /\ row.statusNew = n
      /\ row.statusUnchanged = Latest(S, "statusUnchanged", Later(r, n))
      /\ row.detection = Latest(S, "detection", r)
  BY DEF Reflects
<1>5. Later(m.id, NoId) = m.id /\ Later(r, m.id) = m.id
  BY <1>1 DEF Later
<1>. HIDE DEF T, r, n
<1>. DEFINE new == After(row, item)
<1>6. CASE m.kind = "registration"
  <2>1. /\ new.registration = m.id /\ new.statusNew = NoId
        /\ new.statusUnchanged = NoId /\ new.detection = NoId
    BY <1>6 DEF After, Row
  <2>2. /\ Latest(T, "registration", NoId) = m.id
        /\ Latest(T, "statusNew", m.id) = NoId
        /\ Latest(T, "statusUnchanged", m.id) = NoId
        /\ Latest(T, "detection", m.id) = NoId
    BY <1>1, <1>2, <1>3, <1>6
  <2>. HIDE DEF new
  <2>. QED
    BY <2>1, <2>2, <1>5 DEF Reflects, T, new
<1>7. CASE m.kind = "statusNew"
  <2>1. /\ new.registration = r /\ new.statusNew = m.id
        /\ new.statusUnchanged = NoId /\ new.detection = row.detection
    BY <1>4, <1>7 DEF After, Row
  <2>2. /\ Latest(T, "registration", NoId) = r
        /\ Latest(T, "statusNew", r) = m.id
        /\ Latest(T, "statusUnchanged", m.id) = NoId
        /\ Latest(T, "detection", r) = row.detection
    BY <1>1, <1>2, <1>3, <1>4, <1>7 DEF r
  <2>. HIDE DEF new
  <2>. QED
    BY <2>1, <2>2, <1>5 DEF Reflects, T, new
<1>8. CASE m.kind = "statusUnchanged"
  <2>1. /\ new.registration = r /\ new.statusNew = n
        /\ new.statusUnchanged = m.id /\ new.detection = row.detection
    BY <1>4, <1>8 DEF After, Row
  <2>2. /\ Latest(T, "registration", NoId) = r
        /\ Latest(T, "statusNew", r) = n
        /\ Latest(T, "statusUnchanged", Later(r, n)) = m.id
        /\ Latest(T, "detection", r) = row.detection
    BY <1>1, <1>2, <1>4, <1>8 DEF r, n
  <2>. HIDE DEF new
  <2>. QED
    BY <2>1, <2>2 DEF Reflects, T, new
<1>9. CASE m.kind = "detection"
  <2>1. /\ new.registration = r /\ new.statusNew = n
        /\ new.statusUnchanged = row.statusUnchanged /\ new.detection = m.id
    BY <1>4, <1>9 DEF After, Row
  <2>2. /\ Latest(T, "registration", NoId) = r
        /\ Latest(T, "statusNew", r) = n
        /\ Latest(T, "statusUnchanged", Later(r, n)) = row.statusUnchanged
        /\ Latest(T, "detection", r) = m.id
    BY <1>1, <1>2, <1>4, <1>9 DEF r, n
  <2>. HIDE DEF new
  <2>. QED
    BY <2>1, <2>2 DEF Reflects, T, new
<1>10. CASE m.kind \notin {"registration", "statusNew", "statusUnchanged", "detection"}
  <2>1. new = row
    BY <1>10 DEF After
  <2>2. /\ Latest(T, "registration", NoId) = r
        /\ Latest(T, "statusNew", r) = n
        /\ Latest(T, "statusUnchanged", Later(r, n)) = row.statusUnchanged
        /\ Latest(T, "detection", r) = row.detection
    BY <1>1, <1>2, <1>4, <1>10 DEF r, n
  <2>. HIDE DEF new
  <2>. QED
    BY <2>1, <2>2, <1>4 DEF Reflects, T, new
<1>. QED
  BY <1>6, <1>7, <1>8, <1>9, <1>10

\* Written, said of the queue.
Past(c) == {m \in recorded : m.conn = c /\ ~InQueue(m.id)}
PastInv == \A c \in Conns : HasRow(c) => Reflects(db.rows[c], Past(c))

LEMMA WrittenIsPast == ASSUME TInv, NEW c PROVE Written(c) = Past(c)
  BY QueuedIsInQueue DEF Written, Past

LEMMA PastIsMessages == ASSUME TInv, NEW c PROVE Past(c) \subseteq Message
  BY RecordedType DEF Past

LEMMA AddKeepsInQueue ==
  ASSUME TInv, NEW item \in Item, Adds(item), NEW x
  PROVE  InQueue(x)' <=> InQueue(x) \/ (item.type = "message" /\ item.id = x)
<1>1. ASSUME NEW i \in 1..Len(Queue'), Queue'[i].type = "message", Queue'[i].id = x
      PROVE  InQueue(x) \/ (item.type = "message" /\ item.id = x)
  BY <1>1, AddedQueue DEF InQueue, IsMessage
<1>2. ASSUME NEW i \in 1..Len(Queue), IsMessage(i), Queue[i].id = x PROVE InQueue(x)'
  BY <1>2, AddedQueue DEF InQueue, IsMessage
<1>3. ASSUME item.type = "message", item.id = x PROVE InQueue(x)'
  <2>1. PICK N \in Nat : N = Len(Queue)
    BY AddedQueue
  <2>2. N + 1 \in 1..Len(Queue') /\ Queue'[N + 1] = item
    BY <2>1, AddedQueue
  <2>. QED
    BY <1>3, <2>2 DEF InQueue, IsMessage
<1>. QED
  BY <1>1, <1>2, <1>3 DEF InQueue, IsMessage

LEMMA DropKeepsInQueue ==
  ASSUME TInv, NEW n \in 1..Len(Queue), Drops(n), NEW x
  PROVE  InQueue(x)' <=> \E i \in 1..Len(Queue) : i > n /\ IsMessage(i) /\ Queue[i].id = x
<1>1. ASSUME NEW i \in 1..Len(Queue'), Queue'[i].type = "message", Queue'[i].id = x
      PROVE  \E k \in 1..Len(Queue) : k > n /\ IsMessage(k) /\ Queue[k].id = x
  <2>1. i + n \in 1..Len(Queue) /\ i + n > n /\ Queue'[i] = Queue[i + n]
    BY DroppedQueue
  <2>. QED
    BY <1>1, <2>1 DEF IsMessage
<1>2. ASSUME NEW i \in 1..Len(Queue), i > n, IsMessage(i), Queue[i].id = x PROVE InQueue(x)'
  <2>1. i - n \in 1..Len(Queue') /\ Queue'[i - n] = Queue[i]
    BY <1>2, DroppedQueue
  <2>. QED
    BY <1>2, <2>1 DEF InQueue, IsMessage
<1>. QED
  BY <1>1, <1>2 DEF InQueue, IsMessage

\* Steps that neither write messages' rows nor open a row.
LEMMA PastKeeps ==
  ASSUME PastInv, UNCHANGED <<db, recorded>>, \A x : InQueue(x)' <=> InQueue(x)
  PROVE  PastInv'
  BY DEF PastInv, Past, HasRow

LEMMA PastRecord ==
  ASSUME TInv, Numbered, PastInv, NEW c \in Conns, NEW k \in Kinds, RecordMessage(c, k)
  PROVE  PastInv'
<1>1. PICK id \in Nat : id = Cardinality(recorded) + 1
  BY RecordedType
<1>. DEFINE m == [conn |-> c, id |-> id, kind |-> k]
            item == [type |-> "message", conn |-> c, id |-> id, kind |-> k]
<1>2. /\ Adds(item) /\ recorded' = recorded \cup {m} /\ db' = db
      /\ item \in Item /\ item.type = "message" /\ item.id = id /\ m.id = id
  BY <1>1, RecordAdds DEF Adds
<1>. HIDE DEF m, item
<1>3. \A x \in recorded : x.id # id
  <2>1. Cardinality(recorded) \in Nat /\ \A x \in recorded : x.id <= Cardinality(recorded)
    BY RecordedType DEF Numbered
  <2>. QED
    BY <1>1, <2>1
<1>4. \A x : InQueue(x)' <=> InQueue(x) \/ x = id
  BY <1>2, AddKeepsInQueue
<1>5. \A d \in Conns : Past(d)' = Past(d)
  BY <1>2, <1>3, <1>4 DEF Past
<1>. QED
  BY <1>2, <1>5 DEF PastInv, HasRow

\* All that a connection sent is still queued when its row is added.
LEMMA PastInsertConnection ==
  ASSUME TInv, OpensAndCloses, PastInv, InsertConnection, Drops(1), Queue[1] = Head(batch)
  PROVE  PastInv'
<1>. DEFINE new == [active |-> TRUE, registration |-> NoId, statusNew |-> NoId,
                    statusUnchanged |-> NoId, detection |-> NoId]
<1>1. PICK d \in Conns : d = Queue[1].conn
  BY NextRecord DEF InsertConnection, TInv
<1>2. /\ Opens(1, d) /\ ~IsMessage(1) /\ 1 \in 1..Len(Queue) /\ recorded' = recorded
      /\ db' = [db EXCEPT !.rows[d] = new]
  BY <1>1, NextRecord DEF InsertConnection, TInv, Drops, IsNext, Opens, IsMessage
<1>3. db'.rows = [db.rows EXCEPT ![d] = new] /\ db.rows \in Rows
  BY <1>2 DEF TInv, FilesOK, Database
<1>4. \A i \in 1..Len(Queue) : IsMessage(i) => i > 1
  <2>1. \A i \in 1..Len(Queue) : i = 1 \/ i > 1
    BY <1>2, DroppedQueue
  <2>. QED
    BY <1>2, <2>1
<1>5. \A x : InQueue(x)' <=> InQueue(x)
  BY <1>2, <1>4, DropKeepsInQueue DEF InQueue
<1>6. \A e \in Conns : Past(e)' = Past(e)
  BY <1>2, <1>5 DEF Past
<1>7. Past(d) = {}
  BY <1>2 DEF OpensAndCloses, Order, Past
<1>8. Reflects(new, Past(d))
  <2>1. \A kind : \A since \in Nat : Latest({}, kind, since) = NoId
    BY LatestSince
  <2>2. Later(NoId, NoId) = NoId /\ NoId \in Nat
    BY DEF Later, NoId
  <2>. QED
    BY <1>7, <2>1, <2>2 DEF Reflects
<1>9. ASSUME NEW e \in Conns, HasRow(e)' PROVE Reflects(db'.rows[e], Past(e))
  <2>1. CASE e = d
    BY <1>3, <1>8, <2>1 DEF Rows
  <2>2. CASE e # d
    BY <1>3, <1>9, <2>2 DEF PastInv, HasRow, Rows
  <2>. QED
    BY <2>1, <2>2
<1>. QED
  BY <1>6, <1>9 DEF PastInv

LEMMA PastUpdateDisconnection ==
  ASSUME TInv, PastInv, UpdateDisconnection, Drops(1), ~IsMessage(1)
  PROVE  PastInv'
<1>1. PICK d \in Conns : d = Head(batch).conn
  BY NextRecord DEF UpdateDisconnection, TInv
<1>2. /\ recorded' = recorded /\ 1 \in 1..Len(Queue)
      /\ db' = IF db.rows[d] = None THEN db ELSE [db EXCEPT !.rows[d].active = FALSE]
  BY <1>1 DEF UpdateDisconnection, Drops
<1>3. /\ \A e \in Conns : e # d => db'.rows[e] = db.rows[e]
      /\ db'.rows[d] = IF db.rows[d] = None THEN None
                       ELSE [db.rows[d] EXCEPT !.active = FALSE]
  BY <1>2 DEF TInv, FilesOK, Database, Rows
<1>4. \A i \in 1..Len(Queue) : IsMessage(i) => i > 1
  <2>1. \A i \in 1..Len(Queue) : i = 1 \/ i > 1
    BY <1>2, DroppedQueue
  <2>. QED
    BY <2>1
<1>5. \A x : InQueue(x)' <=> InQueue(x)
  BY <1>2, <1>4, DropKeepsInQueue DEF InQueue
<1>6. \A e \in Conns : Past(e)' = Past(e)
  BY <1>2, <1>5 DEF Past
<1>7. ASSUME NEW e \in Conns, HasRow(e)' PROVE Reflects(db'.rows[e], Past(e))
  <2>1. CASE e # d
    BY <1>3, <1>7, <2>1 DEF PastInv, HasRow
  <2>2. CASE e = d
    <3>1. db.rows[d] # None /\ db'.rows[d] = [db.rows[d] EXCEPT !.active = FALSE]
      BY <1>3, <1>7, <2>2 DEF HasRow
    <3>2. db.rows[d] \in Row
      BY <3>1 DEF TInv, FilesOK, Database, Rows
    <3>3. /\ db'.rows[d].registration = db.rows[d].registration
          /\ db'.rows[d].statusNew = db.rows[d].statusNew
          /\ db'.rows[d].statusUnchanged = db.rows[d].statusUnchanged
          /\ db'.rows[d].detection = db.rows[d].detection
      BY <3>1, <3>2 DEF Row
    <3>. QED
      BY <2>2, <3>1, <3>3 DEF PastInv, HasRow, Reflects
  <2>. QED
    BY <2>1, <2>2
<1>. QED
  BY <1>6, <1>7 DEF PastInv

LEMMA PastRollover ==
  ASSUME PastInv, NEW ok \in BOOLEAN, Rollover(ok)
  PROVE  PastInv'
<1>1. Queue' = Queue /\ recorded' = recorded
  BY OthersKeepQueue
<1>2. \A c \in Conns : db'.rows[c] = db.rows[c] \/ db'.rows[c] = None
  BY DEF Rollover, Export, EmptyDatabase
<1>3. \A c \in Conns : Past(c)' = Past(c)
  BY <1>1 DEF Past, InQueue, IsMessage
<1>. QED
  BY <1>2, <1>3 DEF PastInv, HasRow

\* The updates of a chunk, message by message: after k of them the rows reflect
\* what was written before and the first k messages.
LEMMA PastUpdateConnections ==
  ASSUME TInv, MInv, PastInv, UpdateConnections, Drops(inserted)
  PROVE  PastInv'
<1>. DEFINE chunk == SubSeq(batch, 1, inserted)
            Sent(k, c) == {RecordAt(i) : i \in {i \in 1..k : Queue[i].conn = c}}
            Reached(k, c) == Past(c) \cup Sent(k, c)
<1>1. /\ inserted \in 1..Len(Queue) /\ inserted \in Nat
      /\ chunk \in Seq(Item) /\ Len(chunk) = inserted
      /\ \A i \in 1..inserted :
           /\ i \in 1..Len(Queue) /\ chunk[i] = Queue[i] /\ IsMessage(i)
           /\ chunk[i].type = "message" /\ chunk[i] \in Item
  <2>1. /\ inserted \in 1..Len(batch)
        /\ chunk \in Seq(Item) /\ Len(chunk) = inserted
        /\ \A i \in 1..inserted :
             chunk[i] = batch[i] /\ chunk[i].type = "message" /\ chunk[i] \in Item
    BY ChunkUpdated DEF TInv
  <2>2. /\ Len(batch) \in Nat /\ Len(Queue) \in Nat /\ Len(batch) <= Len(Queue)
        /\ \A i \in 1..Len(batch) : Queue[i] = batch[i]
    BY QueueType
  <2>. HIDE DEF chunk
  <2>3. inserted \in 1..Len(Queue) /\ inserted \in Nat
    BY <2>1, <2>2
  <2>4. \A i \in 1..inserted : i \in 1..Len(Queue) /\ chunk[i] = Queue[i]
    BY <2>1, <2>2
  <2>. QED
    BY <2>1, <2>3, <2>4 DEF IsMessage
<1>2. /\ db.rows \in Rows /\ db'.rows = RowsAfter(db.rows, chunk)
      /\ recorded' = recorded
  BY DEF UpdateConnections, TInv, FilesOK, Database
<1>. HIDE DEF chunk
<1>3. \A i \in 1..inserted : RecordAt(i) \in recorded /\ RecordAt(i) \in Message
  BY <1>1, MessageAt DEF MInv, NewestQueued
<1>4. \A i \in 1..inserted :
        RecordAt(i).id = Queue[i].id /\ RecordAt(i).kind = Queue[i].kind
          /\ RecordAt(i).conn = Queue[i].conn
  BY DEF RecordAt
<1>5. PICK f : Updates(f, db.rows, chunk) /\ RowsAfter(db.rows, chunk) = f[inserted]
  <2>1. \A i \in 1..Len(chunk) : chunk[i].type = "message"
    BY <1>1
  <2>. QED
    BY <1>1, <1>2, <2>1, RowsAfterUpdates
<1>6. ASSUME NEW c \in Conns
      PROVE  Past(c)' = Reached(inserted, c)
  <2>1. ASSUME NEW m \in recorded, m.conn = c
        PROVE  ~InQueue(m.id)' <=> ~InQueue(m.id) \/ m \in Sent(inserted, c)
    <3>1. ASSUME InQueue(m.id), ~InQueue(m.id)' PROVE m \in Sent(inserted, c)
      <4>1. PICK i \in 1..Len(Queue) : IsMessage(i) /\ Queue[i].id = m.id
        BY <3>1 DEF InQueue
      <4>2. ~(i > inserted)
        BY <1>1, <3>1, <4>1, DropKeepsInQueue
      <4>3. i \in 1..inserted
        BY <1>1, <4>2
      <4>4. m = RecordAt(i)
        BY <1>3, <1>4, <4>1, <4>3 DEF MInv, Numbered
      <4>. QED
        BY <1>4, <2>1, <4>3, <4>4
    <3>2. ASSUME InQueue(m.id)' PROVE InQueue(m.id) /\ m \notin Sent(inserted, c)
      <4>1. PICK j \in 1..Len(Queue) : j > inserted /\ IsMessage(j) /\ Queue[j].id = m.id
        BY <1>1, <3>2, DropKeepsInQueue
      <4>2. ASSUME NEW i \in 1..inserted, m = RecordAt(i) PROVE FALSE
        <5>1. i < j /\ i \in 1..Len(Queue) /\ IsMessage(i)
          BY <1>1, <4>1, <4>2
        <5>2. Queue[i].id < Queue[j].id
          BY <4>1, <5>1 DEF MInv, NewestQueued
        <5>3. Queue[i].id = Queue[j].id /\ Queue[i].id \in Nat
          BY <1>3, <1>4, <4>1, <4>2 DEF Message, Ids
        <5>. QED
          BY <5>2, <5>3
      <4>. QED
        BY <4>1, <4>2 DEF InQueue
    <3>. QED
      BY <3>1, <3>2
  <2>2. \A m \in Sent(inserted, c) : m \in recorded /\ m.conn = c
    BY <1>3, <1>4
  <2>3. Past(c)' = {m \in recorded : m.conn = c /\ ~InQueue(m.id)'}
    BY <1>2 DEF Past
  <2>. HIDE DEF Sent
  <2>. QED
    BY <2>1, <2>2, <2>3 DEF Past
<1>7. ASSUME NEW c \in Conns, HasRow(c)'
      PROVE  Reflects(db'.rows[c], Reached(inserted, c))
  <2>. DEFINE T == {k \in 0..inserted : f[k][c] # None => Reflects(f[k][c], Reached(k, c))}
  <2>1. 0 \in T
    <3>1. f[0] = db.rows
      BY <1>5 DEF Updates
    <3>2. Sent(0, c) = {}
      OBVIOUS
    <3>3. Reached(0, c) = Past(c) /\ 0 \in 0..inserted
      BY <1>1, <3>2
    <3>. HIDE DEF Reached
    <3>. QED
      BY <3>1, <3>3 DEF PastInv, HasRow
  <2>2. ASSUME NEW k \in 0..(inserted - 1), k \in T PROVE k + 1 \in T
    <3>. DEFINE item == chunk[k + 1]
                m == RecordAt(k + 1)
    <3>1. k + 1 \in 1..inserted /\ k + 1 - 1 = k /\ k \in 0..inserted /\ k + 1 \in 0..inserted
      BY <1>1
    <3>2. f[k] \in Rows /\ f[k + 1] = UpdateRow(f[k], item)
      BY <1>1, <1>5, <3>1 DEF Updates
    <3>3. /\ item \in Item /\ item.type = "message" /\ m \in Message
          /\ m.id = item.id /\ m.kind = item.kind /\ m.conn = item.conn
      BY <1>1, <1>3, <1>4, <3>1
    <3>4. item.conn \in Conns
      <4>. HIDE DEF item, m
      <4>. QED
        BY <3>3, Shapes
    <3>5. CASE item.conn # c
      <4>1. f[k + 1][c] = f[k][c]
        BY <3>2, <3>4, <3>5 DEF UpdateRow, Rows
      <4>2. Queue[k + 1].conn # c
        BY <1>1, <3>1, <3>5
      <4>3. \A i \in 1..(k + 1) : i \in 1..k \/ i = k + 1
        BY <3>1
      <4>4. \A i \in 1..k : i \in 1..(k + 1)
        BY <3>1
      <4>5. Sent(k + 1, c) = Sent(k, c)
        BY <4>2, <4>3, <4>4
      <4>6. Reached(k + 1, c) = Reached(k, c)
        BY <4>5
      <4>. HIDE DEF Reached
      <4>. QED
        BY <2>2, <3>1, <4>1, <4>6
    <3>6. CASE item.conn = c /\ f[k][c] = None
      <4>1. f[k + 1][c] = None
        BY <3>2, <3>6 DEF UpdateRow
      <4>. QED
        BY <3>1, <4>1
    <3>7. CASE item.conn = c /\ f[k][c] # None
      <4>1. f[k][c] \in Row /\ Reflects(f[k][c], Reached(k, c))
        BY <2>2, <3>2, <3>7 DEF Rows
      <4>2. f[k + 1][c] = After(f[k][c], item)
        BY <3>2, <3>7 DEF UpdateRow, Rows
      <4>3. Reached(k, c) \subseteq Message
        <5>1. \A i \in 1..k : i \in 1..inserted
          BY <1>1
        <5>. QED
          BY <1>3, <5>1, PastIsMessages
      <4>4. \A x \in Reached(k, c) : x.id < m.id
        <5>1. k + 1 \in 1..Len(Queue) /\ IsMessage(k + 1) /\ m.id = Queue[k + 1].id
          BY <1>1, <1>4, <3>1
        <5>2. \A x \in Past(c) : x.id < m.id
          BY <5>1 DEF Past, MInv, NewestQueued
        <5>3. ASSUME NEW i \in 1..k PROVE RecordAt(i).id < m.id
          <6>1. i \in 1..inserted /\ i < k + 1
            BY <1>1, <3>1
          <6>2. i \in 1..Len(Queue) /\ IsMessage(i) /\ RecordAt(i).id = Queue[i].id
            BY <1>1, <1>4, <6>1
          <6>. QED
            BY <5>1, <6>1, <6>2 DEF MInv, NewestQueued
        <5>. HIDE DEF m
        <5>. QED
          BY <5>2, <5>3
      <4>5. Reached(k + 1, c) = Reached(k, c) \cup {m}
        <5>1. Queue[k + 1].conn = c
          BY <1>1, <3>1, <3>7
        <5>2. \A i \in 1..(k + 1) : i \in 1..k \/ i = k + 1
          BY <3>1
        <5>3. (\A i \in 1..k : i \in 1..(k + 1)) /\ k + 1 \in 1..(k + 1)
          BY <3>1
        <5>4. Sent(k + 1, c) = Sent(k, c) \cup {m}
          BY <5>1, <5>2, <5>3
        <5>. HIDE DEF Sent, m
        <5>. QED
          BY <5>4
      <4>6. Reflects(After(f[k][c], item), Reached(k, c) \cup {m})
        <5>. HIDE DEF Reached, m, item
        <5>. QED
          BY <3>3, <4>1, <4>3, <4>4, ReflectsAfter
      <4>. HIDE DEF Reached, m, item
      <4>. QED
        BY <3>1, <4>2, <4>5, <4>6
    <3>. QED
      BY <3>5, <3>6, <3>7
  <2>3. inserted \in T
    <3>. HIDE DEF T
    <3>1. \A k \in 0..inserted : k \in T
      BY <1>1, <2>1, <2>2, BoundedInduction
    <3>. QED
      BY <3>1, <1>1
  <2>. HIDE DEF Reached
  <2>. QED
    BY <1>2, <1>5, <1>7, <2>3 DEF HasRow
<1>. HIDE DEF Reached
<1>. QED
  BY <1>6, <1>7 DEF PastInv

LEMMA PastInit == Init => PastInv
  BY DEF Init, EmptyDatabase, PastInv, HasRow

LEMMA PastStep ==
  ASSUME TInv, StopIsLast, MInv, OpensAndCloses, PastInv, [Next]_vars
  PROVE  PastInv'
<1>1. ASSUME NEW item \in Item, item.type # "message", Add(item), batch' = batch,
             UNCHANGED <<db, recorded>>
      PROVE  PastInv'
  BY <1>1, AddIsLast, AddKeepsInQueue, PastKeeps
<1>2. ASSUME NEW c \in Conns, Connect(c) PROVE PastInv'
  <2>1. /\ Record("connection", c) \in Item /\ Record("connection", c).type # "message"
        /\ Add(Record("connection", c)) /\ batch' = batch /\ UNCHANGED <<db, recorded>>
    BY <1>2, RecordIsItem DEF Connect, thread, Record
  <2>. QED
    BY <1>1, <2>1
<1>3. ASSUME NEW c \in Conns, Disconnect(c) PROVE PastInv'
  <2>1. /\ Record("disconnection", c) \in Item /\ Record("disconnection", c).type # "message"
        /\ Add(Record("disconnection", c)) /\ batch' = batch /\ UNCHANGED <<db, recorded>>
    BY <1>3, RecordIsItem DEF Disconnect, thread, Record
  <2>. QED
    BY <1>1, <2>1
<1>4. CASE StopArchive
  <2>1. Stop \in Item /\ Stop.type # "message" /\ UNCHANGED <<db, recorded, batch>> /\ Add(Stop)
    BY <1>4 DEF StopArchive, thread, Item, Stop
  <2>. QED
    BY <1>1, <2>1
<1>5. CASE Exit
  <2>1. Drops(1) /\ Len(Queue) = 1 /\ UNCHANGED <<db, recorded>> /\ ~IsMessage(1)
    BY <1>5, ExitIsLast, NextRecord, QueueType DEF Exit, TInv, IsMessage
  <2>2. \A i \in 1..Len(Queue) : IsMessage(i) => i > 1
    BY <2>1
  <2>3. 1 \in 1..Len(Queue)
    BY <2>1
  <2>4. \A x : InQueue(x)' <=> InQueue(x)
    BY <2>1, <2>2, <2>3, DropKeepsInQueue DEF InQueue
  <2>. QED
    BY <2>1, <2>4, PastKeeps
<1>6. CASE InsertMessages
  <2>1. /\ Queue' = Queue /\ recorded' = recorded /\ db'.rows = db.rows
    BY <1>6 DEF InsertMessages, Queue, TInv, FilesOK, Database
  <2>2. \A c \in Conns : Past(c)' = Past(c)
    BY <2>1 DEF Past, InQueue, IsMessage
  <2>. QED
    BY <2>1, <2>2 DEF PastInv, HasRow
<1>7. CASE Take
  <2>1. Queue' = Queue /\ UNCHANGED <<db, recorded>>
    BY <1>7, TakeKeepsQueue DEF Take
  <2>. QED
    BY <2>1, PastKeeps DEF InQueue, IsMessage
<1>8. CASE InsertConnection \/ UpdateDisconnection \/ UpdateConnections
  <2>1. ~(Take \/ InsertMessages \/ Exit)
    BY <1>8 DEF Take, InsertMessages, Exit, InsertConnection, UpdateDisconnection,
      UpdateConnections, IsNext
  <2>. QED
    BY <1>8, <2>1, WriteDrops, PastInsertConnection, PastUpdateDisconnection,
       PastUpdateConnections DEF Writes
<1>9. CASE StopServer \/ SqlError \/ RolloverDies \/ UNCHANGED vars
  <2>1. Queue' = Queue /\ UNCHANGED <<db, recorded>>
    BY <1>9, OthersKeepQueue DEF StopServer, SqlError, RolloverDies, vars
  <2>. QED
    BY <2>1, PastKeeps DEF InQueue, IsMessage
<1>. QED
  BY <1>2, <1>3, <1>4, <1>5, <1>6, <1>7, <1>8, <1>9, PastRecord, PastRollover
     DEF Next, ServerNext, Writes, MInv

\* A row names the last registration, the last "New" and "Unchanged" reports
\* and the last detection among all that was written of its connection, across
\* chunks and rollovers (sqlite_saver._update_connection_multi).
THEOREM RowsNameTheLatest == Spec => []RowsReflectStored
<1>1. Init => PastInv
  BY PastInit
<1>2. TInv /\ StopIsLast /\ MInv /\ OpensAndCloses /\ PastInv /\ [Next]_vars => PastInv'
  BY PastStep
<1>3. TInv /\ PastInv => RowsReflectStored
  BY WrittenIsPast DEF PastInv, HasRow, RowsReflectStored
<1>. QED
  BY <1>1, <1>2, <1>3, RowsCorrect, PTL DEF Spec

-----------------------------------------------------------------------------
(* Refinement: the archive keeps what ArchiveLog promises *)

\* Nothing is in a file that was not recorded.
Known == Stored \subseteq RecordedIds

\* Only an insertion changes what the files hold.
LEMMA StoredKept == ASSUME TInv, [Next]_vars, ~InsertMessages PROVE Stored' = Stored
<1>0. db \in Database
  BY DEF TInv, FilesOK
<1>1. ASSUME ServerNext \/ SqlError \/ RolloverDies \/ Take \/ Exit \/ UNCHANGED vars
      PROVE  Stored' = Stored
  <2>1. UNCHANGED <<db, closed>>
    BY <1>1 DEF ServerNext, Connect, Disconnect, RecordMessage, StopServer, StopArchive,
      SqlError, RolloverDies, Take, Exit, vars
  <2>. QED
    BY <2>1 DEF Stored
<1>2. ASSUME InsertConnection \/ UpdateDisconnection \/ UpdateConnections
      PROVE  Stored' = Stored
  <2>1. db'.messages = db.messages /\ closed' = closed
    BY <1>0, <1>2 DEF InsertConnection, UpdateDisconnection, UpdateConnections, Database
  <2>. QED
    BY <2>1 DEF Stored
<1>3. ASSUME NEW ok \in BOOLEAN, Rollover(ok) PROVE Stored' = Stored
  BY <1>3, RolloverStores
<1>. QED
  BY <1>1, <1>2, <1>3 DEF Next, Writes

\* Only the server's record of a message changes what the archive was given.
LEMMA RecordedKept ==
  ASSUME [Next]_vars, ~\E c \in Conns, k \in Kinds : RecordMessage(c, k)
  PROVE  recorded' = recorded
  BY DEF Next, ServerNext, Connect, Disconnect, StopServer, StopArchive, Writes, Take,
    InsertConnection, UpdateDisconnection, InsertMessages, UpdateConnections, Exit,
    SqlError, RolloverDies, Rollover, vars

\* The thread ends in order by the sentinel alone.
LEMMA ExitedKept ==
  ASSUME TInv, [Next]_vars, ~Exit
  PROVE  at' = "exited" <=> at = "exited"
<1>1. ASSUME ServerNext \/ InsertMessages \/ UNCHANGED vars \/ \E ok \in BOOLEAN : Rollover(ok)
      PROVE  at' = at
  BY <1>1 DEF ServerNext, Connect, Disconnect, RecordMessage, StopServer, StopArchive,
    InsertMessages, Rollover, thread, vars
<1>2. ASSUME Take \/ SqlError \/ RolloverDies
      PROVE  at # "exited" /\ at' # "exited"
  BY <1>2 DEF Take, SqlError, RolloverDies
<1>3. ASSUME InsertConnection \/ UpdateDisconnection \/ UpdateConnections
      PROVE  at # "exited" /\ at' # "exited"
  BY <1>3 DEF InsertConnection, UpdateDisconnection, UpdateConnections, IsNext, Handled
<1>. QED
  BY <1>1, <1>2, <1>3 DEF Next, Writes

\* A chunk takes the files from one beginning of what was recorded to a longer one.
LEMMA InsertKeeps ==
  ASSUME TInv, MInv, Known, InsertMessages
  PROVE  \E n \in Ids :
           /\ n \in RecordedIds \ Stored
           /\ Stored' = {i \in RecordedIds : i <= n}
<1>. USE DEF MInv
<1>1. /\ inserted = 0 /\ inserted' \in 1..Len(Queue) /\ Len(Queue) \in Nat
      /\ \A i \in 1..inserted' : IsMessage(i) /\ i \in 1..Len(Queue)
      /\ Stored' = Stored \cup {Queue[i].id : i \in 1..inserted'}
  BY InsertedAtFrontier, QueueType
<1>2. PICK last \in 1..Len(Queue) : last = inserted'
  BY <1>1
<1>3. /\ IsMessage(last) /\ last \in Nat \ {0}
      /\ Stored' = Stored \cup {Queue[i].id : i \in 1..last}
      /\ \A i \in 1..last : IsMessage(i) /\ i \in 1..Len(Queue)
  BY <1>1, <1>2
<1>4. PICK n \in Ids : n = Queue[last].id
  BY <1>3, MessageAt
<1>5. ASSUME NEW i \in 1..Len(Queue), IsMessage(i) PROVE Queue[i].id \in RecordedIds
  <2>1. RecordAt(i) \in recorded /\ RecordAt(i).id = Queue[i].id
    BY <1>5 DEF NewestQueued, RecordAt
  <2>. QED
    BY <2>1 DEF RecordedIds
<1>6. \A s \in Stored : s < n
  <2>1. last > inserted
    BY <1>1, <1>3
  <2>. QED
    BY <2>1, <1>3, <1>4 DEF Frontier
<1>7. \A x \in RecordedIds : x \in Nat
  BY RecordedType DEF RecordedIds, Ids
<1>8. n \in RecordedIds \ Stored /\ n \in Nat
  <2>1. ~(n < n)
    BY DEF Ids
  <2>. QED
    BY <2>1, <1>3, <1>4, <1>5, <1>6 DEF Ids
<1>9. ASSUME NEW x \in Stored' PROVE x \in RecordedIds /\ x <= n
  <2>1. CASE x \in Stored
    BY <2>1, <1>6, <1>7, <1>8 DEF Known
  <2>2. ASSUME NEW i \in 1..last, x = Queue[i].id PROVE x \in RecordedIds /\ x <= n
    <3>1. x \in RecordedIds
      BY <2>2, <1>3, <1>5
    <3>2. i < last \/ i = last
      BY <1>3
    <3>3. i < last => Queue[i].id < n
      BY <1>3, <1>4 DEF NewestQueued
    <3>. QED
      BY <3>1, <3>2, <3>3, <2>2, <1>4, <1>7, <1>8
  <2>. QED
    BY <2>1, <2>2, <1>3
<1>10. ASSUME NEW x \in RecordedIds, x <= n PROVE x \in Stored'
  <2>1. PICK m \in recorded : m.id = x
    BY DEF RecordedIds
  <2>2. CASE ~InQueue(x)
    BY <2>1, <2>2, <1>3 DEF Frontier
  <2>3. CASE InQueue(x)
    <3>1. PICK k \in 1..Len(Queue) : IsMessage(k) /\ Queue[k].id = x
      BY <2>3 DEF InQueue
    <3>2. last < k => n < x
      BY <3>1, <1>3, <1>4 DEF NewestQueued
    <3>3. ~(last < k)
      BY <3>2, <1>7, <1>8, <1>10
    <3>4. k \in 1..last
      BY <3>3, <1>1, <1>3
    <3>. QED
      BY <3>1, <3>4, <1>3
  <2>. QED
    BY <2>2, <2>3
<1>. QED
  BY <1>8, <1>9, <1>10

LEMMA KnownStep == ASSUME TInv, MInv, Known, [Next]_vars PROVE Known'
<1>1. RecordedIds \subseteq RecordedIds'
  <2>1. recorded \subseteq recorded'
    BY RecordedKept DEF RecordMessage
  <2>. QED
    BY <2>1 DEF RecordedIds
<1>2. CASE InsertMessages
  <2>1. Stored' \subseteq RecordedIds
    BY <1>2, InsertKeeps
  <2>. QED
    BY <2>1, <1>1 DEF Known
<1>3. CASE ~InsertMessages
  BY <1>1, <1>3, StoredKept DEF Known
<1>. QED
  BY <1>2, <1>3

\* The invariant of both refinements.
LEMMA KnownCorrect == Spec => [](TInv /\ StopIsLast /\ MInv /\ Known)
<1>1. Init => Known
  BY DEF Init, Known, Stored, EmptyDatabase
<1>. QED
  BY <1>1, KnownStep, MessagesCorrect, PTL DEF Spec

LEMMA LogGiven ==
  ASSUME TInv, StopIsLast, MInv, NEW c \in Conns, NEW k \in Kinds, RecordMessage(c, k)
  PROVE  \E n \in Ids :
           /\ \A i \in RecordedIds : i < n
           /\ RecordedIds' = RecordedIds \cup {n}
           /\ at # "exited" /\ at' # "exited" /\ Stored' = Stored
<1>1. PICK n \in Nat : n = Cardinality(recorded) + 1
  BY RecordedType
<1>. DEFINE m == [conn |-> c, id |-> n, kind |-> k]
<1>2. /\ recorded' = recorded \cup {m} /\ n \in Ids
      /\ UNCHANGED <<thread, db, closed>>
  BY <1>1, RecordAdds DEF MInv
<1>3. m.id = n
  OBVIOUS
<1>4. RecordedIds' = RecordedIds \cup {n}
  <2>. HIDE DEF m
  <2>. QED
    BY <1>2, <1>3 DEF RecordedIds
<1>5. \A i \in RecordedIds : i < n
  <2>1. \A x \in recorded : x.id \in Nat /\ x.id <= Cardinality(recorded)
    BY RecordedType DEF MInv, Numbered, Ids
  <2>2. Cardinality(recorded) \in Nat
    BY RecordedType
  <2>. QED
    BY <2>1, <2>2, <1>1 DEF RecordedIds
<1>6. at # "exited" /\ at' = at
  BY <1>2 DEF StopIsLast, RecordMessage, thread
<1>7. Stored' = Stored
  BY <1>2 DEF Stored
<1>. QED
  BY <1>2, <1>4, <1>5, <1>6, <1>7

\* The archive implements ArchiveLog: its files hold, in every state, all that
\* was recorded up to some message, a step never takes a message from them, and
\* they hold everything when the thread has returned (run, rollover, shutdown).
THEOREM ImplementsLog == Spec => KeepsLog
<1>1. Init => Log!LogInit
  BY DEF Init, Log!LogInit, RecordedIds, Stored, EmptyDatabase
<1>2. TInv /\ StopIsLast /\ MInv /\ Known /\ [Next]_vars => [Log!LogNext]_(Log!logVars)
  <2>. SUFFICES ASSUME TInv, StopIsLast, MInv, Known, [Next]_vars
                PROVE  [Log!LogNext]_(Log!logVars)
    OBVIOUS
  <2>1. CASE \E c \in Conns, k \in Kinds : RecordMessage(c, k)
    <3>1. PICK n \in Ids :
             /\ \A i \in RecordedIds : i < n
             /\ RecordedIds' = RecordedIds \cup {n}
             /\ at # "exited" /\ at' # "exited" /\ Stored' = Stored
      BY <2>1, LogGiven
    <3>2. Log!Give(n)
      BY <3>1 DEF Log!Give
    <3>. QED
      BY <3>2 DEF Log!LogNext
  <2>2. CASE InsertMessages
    <3>1. PICK n \in Ids : /\ n \in RecordedIds \ Stored
                           /\ Stored' = {i \in RecordedIds : i <= n}
      BY <2>2, InsertKeeps
    <3>2. at # "exited" /\ at' # "exited" /\ recorded' = recorded
      BY <2>2 DEF InsertMessages, IsNext
    <3>3. RecordedIds' = RecordedIds
      BY <3>2 DEF RecordedIds
    <3>4. Log!Keep(n)
      BY <3>1, <3>2, <3>3 DEF Log!Keep
    <3>. QED
      BY <3>4 DEF Log!LogNext
  <2>3. CASE Exit
    <3>1. at # "exited" /\ at' = "exited" /\ recorded' = recorded /\ Stored' = Stored
      BY <2>3 DEF Exit, IsNext, Stored
    <3>2. Stored = RecordedIds
      <4>1. Len(Queue) = 1 /\ ~IsMessage(1)
        <5>1. batch[1].type = "stop" /\ 1 \in 1..Len(batch)
          BY <2>3, NextRecord DEF Exit, TInv
        <5>. QED
          BY <5>1, <2>3, ExitIsLast, QueueType DEF IsMessage
      <4>2. \A id : ~InQueue(id)
        BY <4>1 DEF InQueue
      <4>3. RecordedIds \subseteq Stored
        BY <4>2 DEF MInv, Frontier, RecordedIds
      <4>. QED
        BY <4>3 DEF Known
    <3>3. RecordedIds' = RecordedIds
      BY <3>1 DEF RecordedIds
    <3>4. Log!End
      BY <3>1, <3>2, <3>3 DEF Log!End
    <3>. QED
      BY <3>4 DEF Log!LogNext
  <2>4. CASE ~(\E c \in Conns, k \in Kinds : RecordMessage(c, k)) /\ ~InsertMessages /\ ~Exit
    <3>1. Stored' = Stored /\ recorded' = recorded /\ (at' = "exited" <=> at = "exited")
      BY <2>4, StoredKept, RecordedKept, ExitedKept
    <3>2. RecordedIds' = RecordedIds /\ (at' = "exited") = (at = "exited")
      BY <3>1 DEF RecordedIds
    <3>. QED
      BY <3>1, <3>2 DEF Log!logVars
  <2>. QED
    BY <2>1, <2>2, <2>3, <2>4
<1>. QED
  BY <1>1, <1>2, KnownCorrect, PTL DEF Spec, KeepsLog, Log!LogSpec

-----------------------------------------------------------------------------
(* Refinement: the archive is fed as ApexConnections feeds it *)

\* The callbacks of the server come in the order ArchiveFeed allows, which is the
\* order ApexConnections shows of serve() and shutdown(): no record of a connection
\* after its end, no message out of order, no sentinel before the last end.
Feed == INSTANCE ArchiveFeed WITH
          stored <- [c \in Conns |-> {m.id : m \in {m \in recorded : m.conn = c}}]
FedAsPromised == Feed!FeedSpec

\* What a connection has handed to the archive.
IdsOf(c) == {m.id : m \in {m \in recorded : m.conn = c}}

LEMMA FeedStore ==
  ASSUME TInv, MInv, NEW c \in Conns, NEW k \in Kinds, RecordMessage(c, k)
  PROVE  \E n \in Ids : Feed!Store(c, n)
<1>1. PICK n \in Nat : n = Cardinality(recorded) + 1
  BY RecordedType
<1>. DEFINE m == [conn |-> c, id |-> n, kind |-> k]
<1>2. recorded' = recorded \cup {m} /\ n \in Ids /\ UNCHANGED server
  BY <1>1, RecordAdds DEF MInv
<1>3. m.id = n /\ m.conn = c
  OBVIOUS
<1>4. IdsOf(c)' = IdsOf(c) \cup {n}
  <2>. HIDE DEF m
  <2>. QED
    BY <1>2, <1>3 DEF IdsOf
<1>5. ASSUME NEW d \in Conns \ {c} PROVE IdsOf(d)' = IdsOf(d)
  <2>. HIDE DEF m
  <2>. QED
    BY <1>2, <1>3 DEF IdsOf
<1>6. \A i \in IdsOf(c) : i < n
  <2>1. \A x \in recorded : x.id \in Nat /\ x.id <= Cardinality(recorded)
    BY RecordedType DEF MInv, Numbered, Ids
  <2>2. Cardinality(recorded) \in Nat
    BY RecordedType
  <2>. QED
    BY <2>1, <2>2, <1>1 DEF IdsOf
<1>7. [d \in Conns |-> IdsOf(d)]' = [[d \in Conns |-> IdsOf(d)] EXCEPT ![c] = @ \cup {n}]
  BY <1>4, <1>5
<1>8. link[c] = "connected"
  BY DEF RecordMessage
<1>9. Feed!Store(c, n)
  BY <1>2, <1>6, <1>7, <1>8 DEF Feed!Store, IdsOf, server
<1>. QED
  BY <1>2, <1>9

\* The callbacks come in the order ArchiveFeed allows, as ApexConnections proves of
\* its server: begin, messages in order, end, and the sentinel after all (serve,
\* shutdown).
THEOREM FedLikeApex == Spec => FedAsPromised
<1>1. Init => Feed!FeedInit
  BY DEF Init, Feed!FeedInit
<1>2. TInv /\ MInv /\ [Next]_vars => [Feed!FeedNext]_(Feed!feedVars)
  <2>. SUFFICES ASSUME TInv, MInv, [Next]_vars PROVE [Feed!FeedNext]_(Feed!feedVars)
    OBVIOUS
  <2>1. ASSUME NEW c \in Conns, Connect(c) PROVE Feed!Announce(c)
    BY <2>1 DEF Connect, Feed!Announce
  <2>2. ASSUME NEW c \in Conns, Disconnect(c) PROVE Feed!Part(c)
    BY <2>2 DEF Disconnect, Feed!Part
  <2>3. ASSUME NEW c \in Conns, NEW k \in Kinds, RecordMessage(c, k)
        PROVE  \E n \in Ids : Feed!Store(c, n)
    BY <2>3, FeedStore
  <2>4. ASSUME StopServer PROVE Feed!Stop
    BY <2>4 DEF StopServer, Feed!Stop
  <2>5. ASSUME StopArchive PROVE Feed!Joined
    BY <2>5 DEF StopArchive, Feed!Joined
  <2>6. ASSUME Writes \/ SqlError \/ RolloverDies \/ (\E ok \in BOOLEAN : Rollover(ok))
               \/ UNCHANGED vars
        PROVE  UNCHANGED Feed!feedVars
    <3>1. UNCHANGED <<link, phase, recorded>>
      BY <2>6 DEF Writes, Take, InsertConnection, UpdateDisconnection, InsertMessages,
        UpdateConnections, Exit, SqlError, RolloverDies, Rollover, vars, server
    <3>. QED
      BY <3>1 DEF Feed!feedVars
  <2>. QED
    BY <2>1, <2>2, <2>3, <2>4, <2>5, <2>6 DEF Next, ServerNext, Feed!FeedNext
<1>. QED
  BY <1>1, <1>2, MessagesCorrect, PTL DEF Spec, FedAsPromised, Feed!FeedSpec
=============================================================================
