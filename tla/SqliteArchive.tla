----------------------------- MODULE SqliteArchive -----------------------------
(***************************************************************************)
(* The archive of Apex: sqlite_thread.py, sqlite_saver.py and the shutdown *)
(* of apex.py, with the callbacks of apex_server.py that feed it.          *)
(*                                                                         *)
(* The server thread appends records to pending; the archive thread takes  *)
(* the whole list and writes it, one transaction an action.  The database  *)
(* is what a reader (the GUI, or whoever opens the file after a crash) can *)
(* see between two transactions.  Every so often the thread rolls over to  *)
(* a new file, into which it copies the connections that are still open.   *)
(***************************************************************************)
EXTENDS Naturals, Sequences, SequencesExt, FiniteSets
CONSTANTS
  Conns,         (* the connections Apex gets, each with an id of its own  *)
  Kinds,         (* the kinds of message they send                         *)
  Chunk,         (* messages in one transaction, 50 in the code            *)
  None,          (* no row                                                 *)
  MaxMessages,   (* bound on the messages recorded                         *)
  MaxRollovers   (* bound on the databases closed                          *)

\* "other" is every message that leaves the connection's row alone: one of
\* another type, or one that is stored with an error.
AllKinds == {"registration", "statusNew", "statusUnchanged", "detection", "other"}

ASSUME KindsAssumption == Kinds \subseteq AllKinds
ASSUME ChunkAssumption == Chunk \in Nat \ {0}
ASSUME BoundsAssumption == MaxMessages \in Nat /\ MaxRollovers \in Nat

VARIABLES
  link,        (* per connection: has serve() called on_connect,           *)
               (* on_disconnect                                            *)
  phase,       (* of the server: running, stopping (its scope cancelled),  *)
               (* stopped (joined, and the sentinel added)                 *)
  pending,     (* the list add() appends to                                *)
  at,          (* the archive thread: waiting, writing, exited, dead       *)
  batch,       (* last_pending, less the items it is done with             *)
  inserted,    (* how many leading messages of batch are in the Message    *)
               (* table without their Connection rows updated yet          *)
  db,          (* the open database                                        *)
  closed,      (* the databases rolled over from                           *)
  recorded     (* the messages handed to add(), for the properties only    *)

server == <<link, phase>>
thread == <<at, batch, inserted>>
vars == <<link, phase, pending, at, batch, inserted, db, closed, recorded>>

NoId == 0    \* NULL in a recent_msg_id column; message ids start at 1
Ids == 1..MaxMessages
Message == [conn: Conns, id: Ids, kind: Kinds]
Stop == [type |-> "stop"]
Item == [type: {"connection", "disconnection"}, conn: Conns]
        \cup [type: {"message"}, conn: Conns, id: Ids, kind: Kinds]
        \cup {Stop}
Record(type, c) == [type |-> type, conn |-> c]
Row == [active: BOOLEAN, registration: Ids \cup {NoId}, statusNew: Ids \cup {NoId},
        statusUnchanged: Ids \cup {NoId}, detection: Ids \cup {NoId}]
ASSUME NoneAssumption == None \notin Row

\* complete: no rollover on the way to this file failed (for the properties
\* only).
EmptyDatabase(ok) ==
  [rows |-> [c \in Conns |-> None], messages |-> {}, complete |-> ok]

Init ==
  /\ link = [c \in Conns |-> "new"]
  /\ phase = "running"
  /\ pending = <<>>
  /\ at = "waiting" /\ batch = <<>> /\ inserted = 0
  /\ db = EmptyDatabase(TRUE)
  /\ closed = <<>>
  /\ recorded = {}

-----------------------------------------------------------------------------
(* The server thread *)

Add(item) == pending' = Append(pending, item)

Connect(c) ==
  /\ link[c] = "new" /\ phase # "stopped"
  /\ link' = [link EXCEPT ![c] = "connected"]
  /\ Add(Record("connection", c))
  /\ UNCHANGED <<phase, thread, db, closed, recorded>>

\* Ids follow the order of receipt; only their order within a connection
\* matters to anything, and that is the order of recording.
RecordMessage(c, k) ==
  LET id == Cardinality(recorded) + 1
  IN  /\ link[c] = "connected" /\ id <= MaxMessages
      /\ recorded' = recorded \cup {[conn |-> c, id |-> id, kind |-> k]}
      /\ Add([type |-> "message", conn |-> c, id |-> id, kind |-> k])
      /\ UNCHANGED <<server, thread, db, closed>>

Disconnect(c) ==
  /\ link[c] = "connected"
  /\ link' = [link EXCEPT ![c] = "gone"]
  /\ Add(Record("disconnection", c))
  /\ UNCHANGED <<phase, thread, db, closed, recorded>>

\* server.stop(): connections that exist, or are just being accepted, still
\* run to their on_disconnect.
StopServer ==
  /\ phase = "running"
  /\ phase' = "stopping"
  /\ UNCHANGED <<link, pending, thread, db, closed, recorded>>

\* Wrong variant: the sentinel is added without joining the server thread.
StopArchiveUnjoined ==
  /\ phase = "stopping"
  /\ phase' = "stopped"
  /\ Add(Stop)
  /\ UNCHANGED <<link, thread, db, closed, recorded>>

\* Wrong variant: the sentinel is forgotten.
StopArchiveUnsignalled ==
  /\ phase = "stopping" /\ \A c \in Conns : link[c] # "connected"
  /\ phase' = "stopped"
  /\ UNCHANGED <<link, pending, thread, db, closed, recorded>>

\* server_thread.join() returned: sqlite_thread.stop() adds the sentinel.
StopArchive ==
  /\ phase = "stopping" /\ \A c \in Conns : link[c] # "connected"
  /\ phase' = "stopped"
  /\ Add(Stop)
  /\ UNCHANGED <<link, thread, db, closed, recorded>>

-----------------------------------------------------------------------------
(* The archive thread *)

\* Wrong variant: the list is sorted by type, which a comment of the code warns of;
\* NoneType comes first.
TakeSorted ==
  /\ at = "waiting" /\ pending # <<>>
  /\ at' = "writing"
  /\ LET OfType(type) == SelectSeq(pending, LAMBDA i : i.type = type)
     IN  batch' = OfType("stop") \o OfType("connection") \o OfType("disconnection")
                  \o OfType("message")
  /\ pending' = <<>>
  /\ UNCHANGED <<server, inserted, db, closed, recorded>>

\* Wrong variant: the loop runs only as long as the server does.
TakeWhileRunning ==
  /\ at = "waiting" /\ pending # <<>> /\ phase = "running"
  /\ at' = "writing"
  /\ batch' = pending
  /\ pending' = <<>>
  /\ UNCHANGED <<server, inserted, db, closed, recorded>>

\* The exchange of pending is outside the lock, but no bytecode in it lets
\* another thread run.
Take ==
  /\ at = "waiting" /\ pending # <<>>
  /\ at' = "writing"
  /\ batch' = pending
  /\ pending' = <<>>
  /\ UNCHANGED <<server, inserted, db, closed, recorded>>

\* The thread is done with the first n items of its batch.
Handled(n) ==
  /\ batch' = SubSeq(batch, n + 1, Len(batch))
  /\ at' = IF n = Len(batch) THEN "waiting" ELSE "writing"

IsNext(type) == at = "writing" /\ Head(batch).type = type

InsertConnection ==
  /\ IsNext("connection")
  /\ db' = [db EXCEPT !.rows[Head(batch).conn] =
              [active |-> TRUE, registration |-> NoId, statusNew |-> NoId,
               statusUnchanged |-> NoId, detection |-> NoId]]
  /\ Handled(1)
  /\ UNCHANGED <<server, pending, inserted, closed, recorded>>

\* An UPDATE changes nothing where there is no row.
UpdateDisconnection ==
  /\ IsNext("disconnection")
  /\ LET c == Head(batch).conn
     IN  db' = IF db.rows[c] = None THEN db
               ELSE [db EXCEPT !.rows[c].active = FALSE]
  /\ Handled(1)
  /\ UNCHANGED <<server, pending, inserted, closed, recorded>>

\* Python's s[i : j], counted from 1, for a j that may be beyond the end.
Slice(s, i, j) == SubSeq(s, i, IF j <= Len(s) THEN j ELSE Len(s))

\* Wrong variant: the chunk starts one message late.
ChunkOffByOne(items) ==
  LET next == SelectInSeq(items, LAMBDA i : i.type # "message")
      group == IF next = 0 THEN items ELSE SubSeq(items, 1, next - 1)
  IN  Slice(group, 2, Chunk + 1)

\* Wrong variant: a group is written in one piece.
ChunkWhole(items) ==
  LET next == SelectInSeq(items, LAMBDA i : i.type # "message")
  IN  IF next = 0 THEN items ELSE SubSeq(items, 1, next - 1)

\* The messages of one transaction: a chunk of the group the batch starts with.
ChunkOf(items) ==
  LET next == SelectInSeq(items, LAMBDA i : i.type # "message")
      group == IF next = 0 THEN items ELSE SubSeq(items, 1, next - 1)
  IN  Slice(group, 1, Chunk)

InsertMessages ==
  /\ IsNext("message") /\ inserted = 0
  /\ LET chunk == ChunkOf(batch)
     IN  /\ inserted' = Len(chunk)
         /\ db' = [db EXCEPT !.messages = @ \cup {chunk[i].id : i \in DOMAIN chunk}]
  /\ UNCHANGED <<server, pending, at, batch, closed, recorded>>

\* Wrong variant: a registration leaves the "Unchanged" report of the last one.
AfterKeepsUnchanged(row, m) ==
  CASE m.kind = "registration" ->
         [row EXCEPT !.registration = m.id, !.statusNew = NoId, !.detection = NoId]
    [] m.kind = "statusNew" ->
         [row EXCEPT !.statusNew = m.id, !.statusUnchanged = NoId]
    [] m.kind = "statusUnchanged" -> [row EXCEPT !.statusUnchanged = m.id]
    [] m.kind = "detection" -> [row EXCEPT !.detection = m.id]
    [] OTHER -> row

\* The recent ids of a connection after one more message.
After(row, m) ==
  CASE m.kind = "registration" ->
         [row EXCEPT !.registration = m.id, !.statusNew = NoId,
                     !.statusUnchanged = NoId, !.detection = NoId]
    [] m.kind = "statusNew" ->
         [row EXCEPT !.statusNew = m.id, !.statusUnchanged = NoId]
    [] m.kind = "statusUnchanged" -> [row EXCEPT !.statusUnchanged = m.id]
    [] m.kind = "detection" -> [row EXCEPT !.detection = m.id]
    [] OTHER -> row

UpdateRow(rows, m) ==
  IF rows[m.conn] = None THEN rows ELSE [rows EXCEPT ![m.conn] = After(@, m)]

\* One UPDATE for each of the messages, in their order.
RowsAfter(rows, messages) ==
  LET after[n \in 0..Len(messages)] ==
        IF n = 0 THEN rows ELSE UpdateRow(after[n - 1], messages[n])
  IN  after[Len(messages)]

UpdateConnections ==
  /\ IsNext("message") /\ inserted > 0
  /\ db' = [db EXCEPT !.rows = RowsAfter(@, SubSeq(batch, 1, inserted))]
  /\ Handled(inserted)
  /\ inserted' = 0
  /\ UNCHANGED <<server, pending, closed, recorded>>

\* The sentinel: close the database and return, whatever else the batch holds.
Exit ==
  /\ IsNext("stop")
  /\ at' = "exited"
  /\ batch' = <<>>
  /\ UNCHANGED <<server, pending, inserted, db, closed, recorded>>

\* Any statement may raise; nothing catches it in run(), whose transaction is
\* rolled back.
SqlError ==
  /\ at = "writing" /\ ~IsNext("stop")
  /\ at' = "dead"
  /\ UNCHANGED <<server, pending, batch, inserted, db, closed, recorded>>

-----------------------------------------------------------------------------
(* Rollover *)

ActiveConns == {c \in Conns : db.rows[c] # None /\ db.rows[c].active}
RecentIds(row) ==
  {row.registration, row.statusNew, row.statusUnchanged, row.detection} \ {NoId}

\* Wrong variant: only connections that have registered are copied.
ExportRegistered ==
  LET kept == {c \in ActiveConns : db.rows[c].registration # NoId}
  IN  [rows |-> [c \in Conns |-> IF c \in kept THEN db.rows[c] ELSE None],
       messages |-> db.messages \cap UNION {RecentIds(db.rows[c]) : c \in kept},
       complete |-> db.complete]

\* Wrong variant: the messages the "Unchanged" column names are not copied.
ExportWithoutUnchanged ==
  [rows |-> [c \in Conns |-> IF c \in ActiveConns THEN db.rows[c] ELSE None],
   messages |-> db.messages \cap
     UNION {RecentIds(db.rows[c]) \ {db.rows[c].statusUnchanged} : c \in ActiveConns},
   complete |-> db.complete]

\* What a rollover copies into the new file.
Export ==
  [rows |-> [c \in Conns |-> IF c \in ActiveConns THEN db.rows[c] ELSE None],
   messages |-> db.messages \cap UNION {RecentIds(db.rows[c]) : c \in ActiveConns},
   complete |-> db.complete]

\* The rows the export leaves in the old file: its RolloverFilename is added
\* to the session, and expunge_all() takes it out before the commit flushes it.
ExportWrites ==
  LET added == {"RolloverFilename"}
      expunged == added
  IN  added \ expunged

\* Wrong variant: what is copied is moved, before the import can fail.
RolloverMoves(ok) ==
  /\ at = "waiting" /\ Len(closed) < MaxRollovers
  /\ closed' = Append(closed, [messages |-> db.messages \ Export.messages, exported |-> ok,
                               names |-> IF ok THEN ExportWrites ELSE {}])
  /\ db' = IF ok THEN Export ELSE EmptyDatabase(FALSE)
  /\ UNCHANGED <<server, pending, thread, recorded>>

\* An export or an import that fails is logged and leaves the new file empty;
\* the thread switches to it all the same.
Rollover(ok) ==
  /\ at = "waiting" /\ Len(closed) < MaxRollovers
  /\ closed' = Append(closed, [messages |-> db.messages, exported |-> ok,
                               names |-> IF ok THEN ExportWrites ELSE {}])
  /\ db' = IF ok THEN Export ELSE EmptyDatabase(FALSE)
  /\ UNCHANGED <<server, pending, thread, recorded>>

\* The new file cannot be created: that is not caught.
RolloverDies ==
  /\ at = "waiting" /\ Len(closed) < MaxRollovers
  /\ at' = "dead"
  /\ UNCHANGED <<server, pending, batch, inserted, db, closed, recorded>>

-----------------------------------------------------------------------------
ServerNext ==
  \/ \E c \in Conns : Connect(c) \/ Disconnect(c)
  \/ \E c \in Conns, k \in Kinds : RecordMessage(c, k)
  \/ StopServer
  \/ StopArchive
Writes ==
  Take \/ InsertConnection \/ UpdateDisconnection \/ InsertMessages
  \/ UpdateConnections \/ Exit
Next ==
  \/ ServerNext
  \/ Writes
  \/ SqlError \/ RolloverDies
  \/ \E ok \in BOOLEAN : Rollover(ok)

Spec == Init /\ [][Next]_vars

\* The archive thread wakes up at least once a second and never waits for
\* anything else.  On shutdown trio cancels every connection, so that each
\* reaches its on_disconnect and the join returns.
Fairness ==
  /\ WF_vars(Writes)
  /\ \A c \in Conns : WF_vars(phase = "stopping" /\ Disconnect(c))
  /\ WF_vars(StopArchive)
FairSpec == Spec /\ Fairness
-----------------------------------------------------------------------------
(* Properties *)

InSeq(s) == {s[i] : i \in DOMAIN s}
MessagesIn(s) == {i.id : i \in {i \in InSeq(s) : i.type = "message"}}
Queued == MessagesIn(batch) \cup MessagesIn(pending)
Stored == db.messages \cup UNION {closed[i].messages : i \in DOMAIN closed}
RecordedIds == {m.id : m \in recorded}

\* The type of the state.
TypeOK ==
  /\ link \in [Conns -> {"new", "connected", "gone"}]
  /\ phase \in {"running", "stopping", "stopped"}
  /\ pending \in Seq(Item) /\ batch \in Seq(Item)
  /\ at \in {"waiting", "writing", "exited", "dead"}
  /\ inserted \in 0..Chunk /\ inserted <= Len(batch)
  /\ at = "waiting" => batch = <<>> /\ inserted = 0
  /\ at = "writing" => batch # <<>>
  /\ db \in [rows: [Conns -> Row \cup {None}], messages: SUBSET Ids, complete: BOOLEAN]
  /\ closed \in Seq([messages: SUBSET Ids, exported: BOOLEAN,
                     names: SUBSET {"RolloverFilename"}])
  /\ Len(closed) <= MaxRollovers
  /\ recorded \subseteq Message

\* Every message in the open file has its connection's row there, whatever
\* rolled over between the two (Message.connection_id is a foreign key, which
\* SQLite does not enforce here), unless a rollover failed on the way.
NoOrphans ==
  db.complete => \A m \in recorded : m.id \in db.messages => db.rows[m.conn] # None

\* The recent ids of a connection are those of messages in the same file, also
\* in the middle of a batch and after a rollover: the GUI joins the two.
RecentAreStored ==
  \A c \in Conns : db.rows[c] # None => RecentIds(db.rows[c]) \subseteq db.messages

\* A connection's row says which of the messages written so far are its last
\* registration, the last "New" and "Unchanged" reports since that, and the
\* last detection since: chunks and rollovers forget and repeat nothing.
Latest(messages, kind, since) ==
  LET ids == {m.id : m \in {m \in messages : m.kind = kind /\ m.id > since}}
  IN  IF ids = {} THEN NoId ELSE CHOOSE i \in ids : \A j \in ids : j <= i
Later(i, j) == IF i > j THEN i ELSE j
Reflects(row, messages) ==
  LET r == Latest(messages, "registration", NoId)
      n == Latest(messages, "statusNew", r)
  IN  /\ row.registration = r
      /\ row.statusNew = n
      /\ row.statusUnchanged = Latest(messages, "statusUnchanged", Later(r, n))
      /\ row.detection = Latest(messages, "detection", r)
Written(c) == {m \in recorded : m.conn = c /\ m.id \notin Queued}
RowsReflectStored ==
  \A c \in Conns : db.rows[c] # None => Reflects(db.rows[c], Written(c))

\* A graceful shutdown writes everything recorded before the thread returns:
\* the sentinel comes after the last record of the last connection.
NothingLost == at = "exited" => RecordedIds \subseteq Stored

\* After it, no row of the last file claims a connection is still open.
ConnectionsEndClosed ==
  at = "exited" => \A c \in Conns : db.rows[c] # None => ~db.rows[c].active

\* A recorded message gets into a file, unless an error ends the thread.
RecordedIsStored ==
  \A i \in Ids : i \in RecordedIds ~> i \in Stored \/ at = "dead"

\* shutdown() gets past sqlite_thread.join().
ShutdownEnds == phase = "stopping" ~> phase = "stopped" /\ at \in {"exited", "dead"}

\* The files hold at any moment all messages up to one, in the order in which
\* add() got them, and no step takes any from them: what a rollover copies stays in
\* the old file (rollover_export selects and expunges), so that an import that
\* fails, or a thread that dies, loses nothing.  After the sentinel they hold all.
Log == INSTANCE ArchiveLog WITH given <- RecordedIds, kept <- Stored,
                                over <- (at = "exited")
KeepsLog == Log!LogSpec

\* "Insert new DB filename for GUI rollover" (sqlite_saver.py:202): after a
\* rollover whose export succeeded, the old file names the new one.
OldFileNamesNext ==
  \A i \in DOMAIN closed : closed[i].exported => "RolloverFilename" \in closed[i].names

=============================================================================
