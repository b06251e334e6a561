# A verification of the multi-sensor fusion stack in TLA+

The repository connects edge nodes (sensors) to fusion nodes over the SAPIENT
protocol. Around the vendored Apex middleware it adds small FastAPI services: a
registry of nodes with health probes, a GPS listener, an NTP voter, a bridge to
Cursor-on-Target, and a user interface that runs SAPIENT flows, controls a router
and starts regression runs. Everything deployed is Python: asyncio with worker
threads in the services, trio and two further threads in Apex.

The modules here are translated from that code. `PROJECT.json` gives, for every
definition that models code, the file and lines it stands for; the runs; for each
property a wrong variant of the code that breaks it; the hazards; the theorems.

- [1. Inventory](#1-inventory)
- [2. Plan](#2-plan)
- [3. What is modelled](#3-what-is-modelled)
- [4. What the runs check](#4-what-the-runs-check)
- [5. What is proved](#5-what-is-proved)
- [6. Where code and words disagree](#6-where-code-and-words-disagree)
- [7. What is not covered](#7-what-is-not-covered)

## 1. Inventory

Paths are below `src/`. "Apex" is `dstl/Apex-SAPIENT-Middleware/sapient_apex_server`.

| component | state | operations | what makes it hard | what makes it correct |
|---|---|---|---|---|
| nodes registry (`services/nodes/app/main.py`) | `nodes.json`; `_STATE`, `_CONFIG_ERROR`, `_LAST_REFRESH_AT` | poll loop; POST, PATCH, DELETE, refresh, each with a probe round; GETs in worker threads | rounds overlap at each await, the last to finish wins; readers take no lock; the file is written in place | the cache is one committed configuration; no lost update; a damaged file is never overwritten; history is carried over; the cache settles |
| probes (`services/nodes/app/probes`) | none | one async function per node type | timeouts | severity of a node from its parts |
| message router (Apex `connection.py`, patched by `services/apex/patches`) | `SharedData`: `registered_sensors`, writer lists; per connection: node id, last status | handle a message of a child, peer, parent, recorder; create and close a connection | takeover of a node id, late subscribers, closing after a takeover, a message handled after the end of file | the newest registration holds the node; subscribers' pictures equal the registry; nothing reflected |
| connection loop (Apex `apex_server.py`, `trio_util.py`) | per connection: read buffer, channel, write buffer | read, frame, parse in a thread, write, reconnect | bounded write buffer, unbounded channel, cancellation that cannot stop the parser thread | messages handled in order; a writer loses nothing before it overflows; a broken connection ends; the archive hears of each connection from its begin to its end |
| archive (Apex `sqlite_thread.py`, `sqlite_saver.py`, `apex.py`) | `pending`; the open SQLite file | add, batch, insert, update rows, roll over, stop | two threads; transactions between which anything may stop; rollover between batches | nothing recorded is lost; rows refer to messages that are there |
| parsing, validation, translation (Apex `parse_*.py`, `validate_proto.py`, `translator/`) | id maps | one message in, one record or error out | breadth of the data | round trips |
| flow runner (`services/ui/app/message`) | per run: inbox, step results, `result.json` | connect, send, wait or drain, save; clear runs | late, repeated and unasked replies, end of file during a wait, an error before the reader task has begun, clearing a running flow | a step is satisfied by its own reply unless there were more of them than asked for; a flow ends and has a result, which a finished run keeps |
| CoT bridge (`services/cot-bridge`) | one task per connection from Apex, datagrams to TAK | decode, convert, send | one bad message ends the connection, and Apex replays it to the next; a lost connection is still read when the next one is served | a detection arrives at most once, and in order over one connection; a registered node gets its marker |
| framing (`libs/sapient-encode-decode-msg`) | read buffer | encode, decode | cuts at arbitrary bytes | decode inverts encode |
| GPS listener (`services/gps`) | one fix of several fields | consume a sentence; snapshot in a worker thread | fields of different sentences mixed; age | a snapshot is one sentence's; stale is reported stale |
| NTP service (`services/ntp`) | per source: last probe; the vote | poll, refresh | rounds overlap | the vote is of the newest round |
| edge controller (`services/ui/app/edge`) | router token, background refreshes | login, retry on 401, read then PUT, refresh twice | worker threads share the token; two steps not atomic | the row of the edge node shows the last change |
| regression runner (`tests/server.py`, `services/ui/app/tests`) | the run, the result file | start, status | two starts; a stale result | one run at a time |
| proxies (`services/ui/app/{apex,bsi,tak,nodes}`) | none | one HTTP or docker call each | – | – |

How they interact. Edge nodes connect to Apex (child ports), fusion nodes as peers;
parents, among them the CoT bridge and an upstream system, receive everything. The
router calls back into the archive (`on_connect`, `on_message_receive`,
`on_disconnect`), which runs in its own thread behind a list. The nodes registry
probes the other services and routers over HTTP and TCP and is read by the user
interface, whose flow runner is a SAPIENT client of Apex.

The hazards in `PROJECT.json` list, line by line, what could go wrong here that a
test would hardly reach; each names the properties that cover it or the planned
module that will.

## 2. Plan

The order is by what would hurt most if it were wrong. All modules of the plan are
written, and every safety property the runs check has its theorem; what is left are
the parts listed in section 7.

| module | what it models | composed with, or implements | proofs |
|---|---|---|---|
| `NodesRegistry` | the nodes service | implements `NodesPromise` | `NodesRegistryProofs` |
| `ApexRouter` | the routing of Apex | | `ApexRouterProofs` |
| `ApexConnections` | `serve()`, its writer, its parser thread, redialling, stopping | implements `ArchiveFeed`, as the server of `SqliteArchive` does | `ApexConnectionsProofs` |
| `SqliteArchive` | the archive thread and its files | implements `ArchiveLog`; its server implements `ArchiveFeed` | `SqliteArchiveProofs` |
| `SapientFlow` | the flow runner and `clear_runs` | | `SapientFlowProofs` |
| `CotBridge` | the bridge, with the redialled, replaying connection of Apex before it | composes the replay, the redial and the bridge | `CotBridgeProofs` |
| `EdgeRow` | the row of the edge node | composes the edge controls with the gps, ntp and nodes services | `EdgeRowProofs` |

`InductionLemmas` has what the proofs about the archive and the flow need of the
natural numbers. `MC...` modules give the constants their values for TLC;
`SapientFlow` needs none.
Runs stay one per question and small: two or three actors, one or two values, one
fault of each kind. The modules declare no RECURSIVE operator and take recursive
functions instead, so that each can be proved about.

## 3. What is modelled

### NodesRegistry (and NodesPromise)

An action is one run of the event loop from an await to the next, or one step of a
reader thread.

| module | code |
|---|---|
| `file`, `history` | `nodes.json`, and every configuration it has held |
| `cache`, `configError`, `lastRefresh` | `_STATE`, `_CONFIG_ERROR`, `_LAST_REFRESH_AT` |
| `round[t]` | the locals of `_refresh_round` in the poll loop and in each request |
| `Load`, `LoadFails`, `ContextReady`, `ProbeReturns`, `Publish` | `_refresh_round`, cut at its awaits, and between `_STATE.clear()` and `_STATE.update()`, where only reader threads can run |
| `CreateNode`, `DeleteNode`, `PatchOne` | the handlers: load, check, save and the start of their round, with no await in between; a refused request; an OSError before or after the file is truncated |
| `ListNodes`, `GetNode` | `current()` and `one()` in worker threads |
| `Crash`, `EditFile` | the process dies (also inside `_save_config`) and restarts; an operator edits the file |

`overtaken` and `acked` are for the properties. `GetNode` is one step because CPython
cannot switch threads between the test and the lookup (there is no call and no
backward jump there); between `clear()` and `update()` it can. An entry is a model
value; the order of the file, `last_refresh_at` and `config_error` in the answers
are left out. A probe is one await that ends with ok or not. The races of an
operator's editor with the service's own write are not modelled, nor a file that
loads and still makes a round raise (a `type` that is no string, `main.py:122`): such
a round leaves the cache as it is, as one that does not load does.

Overlap has effects that are by design of the code and not claimed away: a round
that was overtaken may move `first_seen_at` and take `last_ok_at` back, which is why
`HistoryCarriedOver` speaks of rounds that were not.

`NodesPromise` says what a client may rely on: the listing is empty or one
committed configuration, and it changes only to another. `Promise == INSTANCE
NodesPromise WITH shown <- Listed(cache)` is the refinement.

### ApexRouter

All connections share one trio loop and one `SharedData`; handling a parsed message,
creating and closing a connection do not await, so each is one action.

| module | code |
|---|---|
| `registry` | `registered_sensors`: writer, registration, last "New" and "Unchanged" reports per node id |
| `dmmWriters`, `parentAll`, `parentHigh` | the writer lists of `SharedData` |
| `nodeId`, `lastSystem`, `dmmId` | fields of `ChildConnection` and `PeerConnection` |
| `status` | where `serve()` is: open, draining (cancelled, with a message in the parser thread), closing, closed |
| `view`, `newest`, `sent` | for the properties: what each subscriber was told, who registered last, what the last step forwarded |
| `ChildRegisters` ... `ChildFails`, `Ignores` | `ChildConnection.handle_message` and its parts |
| `PeerRegisters`, `PeerSends`, `PeerFails` | `PeerConnection.handle_message` |
| `ParentSends` | `ParentConnection.handle_message` as `route_parent_to_child.py` patches it |
| `RecorderSends` | `RecorderConnection.handle_message` |
| `ConnectSubscriber`, `ConnectOther` | the constructors, with their replay |
| `StartsClosing`, `HandleClosed` | end of file or an error, then `handle_closed()` |
| `BufferOverflows` | `BufferedWriter` drops what a receiver does not read; the connection stays open |

Configured off in `services/apex/apex_config.json` and left out: time adjustment,
the confidence filter, acknowledgements to children. Acknowledgements to peers and
error replies go to the sender only and are not in `sent`. A connection may close
and be opened again: nothing of the old one remains. A child whose id was taken
over stays connected and is ignored. A message the parser fails on, or the handler
(a registered XML node that sends bytes that are not UTF-8), ends the connection:
`StartsClosing`, `ChildFails`.

### SqliteArchive (and ArchiveLog)

| module | code |
|---|---|
| `link`, `phase` | the server thread: `serve()` per connection, `shutdown()` |
| `pending`, `Add` | `SqliteThread.pending`, `add()` |
| `at`, `batch`, `inserted` | the archive thread: where it is, what is left of `last_pending`, and the messages that are in the Message table before their Connection rows are updated |
| `Take` | lines 92-94, atomic: no bytecode there lets another thread run |
| `InsertConnection`, `UpdateDisconnection`, `InsertMessages`, `UpdateConnections` | one transaction each |
| `Rollover(TRUE)`, `Rollover(FALSE)`, `RolloverDies` | export and import; one of them failing, which is logged and leaves an empty new file; the new file not created |
| `SqlError` | any statement raises: nothing catches it in `run()` |
| `Exit` | the sentinel |
| `closed`, `recorded` | the files rolled over from; the messages handed to `add()`, for the properties |

`UpdateConnections` goes through the chunk one message at a time, as the code does
(`RowsAfter`); `RowsReflectStored` says independently what the result must be. Message ids are
numbered in the order of recording: across connections the code's order can
differ, and nothing depends on it. A restart opens a new file and reads nothing of
the old, so a crash is any state at which the behaviour stops: the invariants on
what the files hold are about all of them. The wait with its one-second timeout
makes a lost wake-up harmless; it is folded into `Take`.

`Rollover(FALSE)` always leaves an empty new file. An export that fails in its second
SELECT (`sqlite_saver.py:198-200`) hands on connections without messages, but its
rollback has expired them: merging them inserts rows without a `client_type`, which may
not be null, and the import fails as well.

`ArchiveLog` is what the archive promises to whoever opens its files: messages are
given in the order of their numbers, the files hold all of them up to one, they hold
more with each insertion and never less, and they hold everything once the thread
has ended in order. `KeepsLog` maps what is given to the messages recorded and what
is kept to the messages in any of the files; a batch, a rollover, an error and the
thread's death are stutters there.

### ApexConnections (and ArchiveFeed)

Everything but the parser runs on one trio thread, so an action runs from one await
to the next; a message in the parser is a state of its own, since a worker thread
is not stopped by a cancellation.

| module | code |
|---|---|
| `server` | `_do_run`: running, cancelled by `stop()` or by an exception of `serve()`, returned |
| `link[c]` | `serve()`: not begun, serving, its nursery cancelled (`failed`), over (`gone`); `refused` if asking for the peer's name raised |
| `peer`, `wire` | the other end and what it has sent; the messages' bytes are not modelled |
| `channel`, `parsing` | the unbounded memory channel; `parser_thread_token`, one for all connections |
| `buffer`, `full`, `sending` | `buffered_bytes`, `exception` and the argument of `send_all` in `BufferedWriter`, counted in messages |
| `handled`, `stored`, `owed` | how far `handle_message` got; what `on_message_receive` was given; what a peer has yet to get |
| `Read`, `ReadTooLong`, `ReadFails` | `read_to_channel` |
| `StartParse`, `FinishParse` | `read_from_channel`, cut at the worker thread; handling a message may write to any open connection (what is written to whom is ApexRouter's) |
| `TakeBuffer`, `SendDone`, `SendFails`, `FullRaised` | `perform_writes`, cut at its awaits |
| `Dial`, `Accept`, `Serve`, `Refuse` | `connect_tcp_repeatedly`, `serve_tcp`, the start of `serve()` |
| `Cancel`, `Close`, `StopServer`, `ServerEnds` | the end of a connection and of the server; `Close` waits for the parser thread |

`ArchiveFeed` states what the server promises to whom it calls back: `on_connect`
once, then the messages in order, then `on_disconnect`, and a thread that ends only
when every connection has. It is what `SqliteArchive` has for its `Connect`,
`RecordMessage`, `Disconnect` and `StopArchive`, which are written from the same
lines: `link` here is `link` there, and joining the server's thread is what
`StopArchive` waits for. Both modules are shown to implement it (`FeedsArchive` in
ApexConnections, `FedAsPromised` in SqliteArchiveProofs). That SqliteArchive allows every
such feed is seen by comparing the guards of its server actions with those of
ArchiveFeed, which are the same; only the numbers of messages are the next ones in
SqliteArchive and any higher ones there. The refinement of ApexConnections maps `serving` and `failed` to
connected.

`Serve` starts with an empty buffer: the constructors of parents and peers write their
replay to it (`connection.py:434-446`, `:550-563`) before the nursery starts, which here
would only be a larger first message of `FinishParse`; what is replayed is ApexRouter's and
CotBridge's.

### SapientFlow

| module | code |
|---|---|
| `at`, `step`, `ok` | where `run_flow` is, `idx`, `overall_error`; `failed` if it ends with an exception |
| `back`, `ended` | the connection: what is on its way to the flow, the other end's end of file |
| `reader`, `inbox`, `captured` | the reader task, its queue; the received part of the transcript |
| `Connects`, `GivesUp`, `Sends`, `Receives`, `Timeout`, `StopsReceiving`, `StopsDraining`, `Finalises` | `run_flow` between its awaits, with each of its error exits in `GivesUp` |
| `StampRaises` | `message_to_dict`, which is called outside any `try` |
| `ReaderStarts`, `Reads` | `drain()`: a task begins at the first await that really waits |
| `OtherEndAnswers`, `OtherEndCloses` | Apex (`connection.py`, `apex_server.py`) and what is behind it |
| `ClearLists`, `ClearRemoves` | `clear_runs`: `shutil.rmtree` lists the directory, removes what it listed, and fails if something is left |

Apex forwards a message to every DMM and hands each one's answer back, sends error
replies and acknowledgements of its own, and passes on messages that answer nothing.
`OtherEndAnswers` is all of that: at any moment a message comes back that answers any
message sent so far (`of`), first or again, or none (0), and `MaxAnswers` bounds their
number. The code matches a reply by its content only, so with two DMMs the second
acknowledgement of step 1 satisfies step 2 if that waits for one too. `MatchesOwnAnswer`
says when that can happen and when not: `Surplus` is a message more of that content
than the steps so far have waited for.

Time is left out: a wait may end at any moment. A step that waits for nothing still
waits for `recv_timeout_s` before it drains (lines 167-203). What is in the inbox when
the flow ends is not in the transcript. `writer.drain()` and `wait_closed()` have no
timeout: what a flow sends is taken to fit the buffers of the sockets, which `FlowEnds`
presumes.

### CotBridge

Apex keeps one registration and one latest status report per registered node (its
two kinds of report are one here), sends every message of a registered node over
the outbound connection while it is up and, when it dials again, replays what it
keeps.

| module | code |
|---|---|
| `registry`, `up` | `registered_sensors`; `serve()` of the outbound parent runs |
| `lines[c]` | what Apex has sent over its c-th connection and the bridge has not read: the writer's buffer, the sockets and the StreamReader of one `handle_client` task |
| `NodeSays`, `NodeLeaves` | `ChildConnection.handle_message`, `handle_closed` |
| `FeedConnects` | `connect_tcp_repeatedly` and the replay in `ParentConnection.__init__` |
| `FeedBreaks` | the network or a full buffer ends `serve()`: any part of what was sent may have got through, and the task for the lost connection goes on reading it beside the one for the next |
| `BridgeRestarts` | the bridge's process ends: all that was unread is gone |
| `Converts`, `Skips`, `SendFails`, `Raises` | one frame of `handle_client` and `_convert_and_send`, in any of the tasks that read |

`Says` gives what `convert()` can make of each type of message: a marker, nothing for
want of a position or of a mapping, or an exception for an enum value that has no
name, which ends the connection; alerts are among `other`. `onTak` and `shown` are what
the TAK server has got, for the properties.

Two consequences are by design of the code. A node whose kept registration or report
makes the bridge raise breaks the connection at every replay, and hides from TAK the
nodes that are replayed after it (`RegisteredIsShown`). And nothing orders the tasks of
two connections: what is left of a lost one may be converted after newer messages, so
`DetectionsOnceInOrder` promises order only over one connection, or from an earlier one
to a later one; in the same way an older marker of a node can replace a newer one on
TAK, which `RegisteredIsShown` does not look at. A restart of Apex is not modelled: it
empties the registry and the nodes register anew.

### EdgeRow

| module | code |
|---|---|
| `config`, `runs`, `pending` | the router (external): its configuration, what it does, and how long it takes to follow |
| `age` | `_last_update` of the gps listener; a router that forwards sends every second |
| `ntpSources`, `ntpPoll` | `_PER_SOURCE` of the ntp service and a round of its poll loop |
| `row`, `nodesPoll` | the row in `_STATE` of the nodes service and a round of its poll loop |
| `at[r]`, `task[r]` | a request to the edge controls and its refreshes, immediate and delayed |
| `Puts`, `Slept`, `AsksNtp`, `NtpRefreshed`, `AsksNodes`, `NodesRefreshed`, `KickFails` | `set_forwarding_hosts`, `_ntp_set`, `_refresh_downstream`, `_delayed_refresh` |

A tick is half a second: `GPS_FRESH_S` is 16, the delayed refresh comes after 18, the
sleep after an NTP edit is 2 (1.2 s, down to whole ticks), after a GPS edit 0 (0.2 s),
and the router takes up to one tick to follow. `alone[r]` marks an edit that nothing
has come in between of: no other edit, no kick that failed, no older NTP round that
was published later. The last of these is a real possibility in the code
(`_probe_round` does not know that a newer round has been published), and the
reason why `EditIsShown` names it. It is about the step with which the last refresh
publishes: an older poll round of the nodes service that publishes after it is outside
it, and `RowSettles` says that the row gets right in the end. A kick that times out
(`routes.py:439-444`) leaves its round running in the service; here the round ends with
it.

## 4. What the runs check

Every property has a wrong variant of the code under `mutants` that its run finds.

| run | instance | properties | question |
|---|---|---|---|
| nodes | 2 ids, 1 content, poll + 1 request, 1 reader, 1 crash or edit, clock to 2, `FairSpec` | `TypeOK`, `CacheIsCommitted`, `AnswersAreCommitted`, `OneNodePerWrite`, `KeepsPromise`, `OnlyOperatorRepairs`, `HistoryCarriedOver`, `CacheSettles` | overlapping rounds, crashes, truncation, edits, readers, times, progress |
| nodes_next_get | 1 id, 1 request | `NextGetReflectsWrite` (violated) | section 6 |
| nodes_torn_list | 1 id, 1 request, 1 reader | `CurrentListsEveryNode` (violated) | section 6 |
| apex | 2 children, 1 peer, 1 parent of each kind, 1 recorder, 1 node id, 1 value | `TypeOK`, `NewestHoldsNode`, `ViewsAgree`, `UnchangedFollowsNew`, `OnlyNewestForwarded`, `NoReflection` | takeover, replay, closing in any order, who may hear whom |
| apex_recorder | 1 child, 1 parent, 1 recorder | `RecorderOnlyRecords` (violated) | section 6 |
| apex_connections | 1 client that sends 2 messages, 2 dials of which the first sends 1, buffers of 1, `FairSpec` | `TypeOK`, `HandledInOrder`, `NothingDropped`, `FeedsArchive`, `BrokenConnectionsEnd`, `ReadIsHandled` | the life of a connection, and what the archive is told |
| archive_files | 2 connections, 3 messages of 4 kinds, chunks of 2, 1 rollover | `TypeOK`, `NoOrphans`, `RecentAreStored`, `RowsReflectStored`, `NothingLost`, `ConnectionsEndClosed`, `KeepsLog` | what is in the files, always and at the end |
| archive_live | 2 connections, 2 messages, 1 rollover, `FairSpec` | `RecordedIsStored`, `ShutdownEnds` | progress |
| archive_names | 1 connection, 1 message, 1 rollover | `OldFileNamesNext` (violated) | section 6 |
| sapient_flow | 3 steps, 2 contents and unreadable messages, 3 messages back, `FairSpec` | `TypeOK`, `CapturedInOrder`, `MatchesOwnAnswer`, `ResultIsKept`, `FlowEnds` | late, repeated, unasked and wrong answers, end of file, clearing |
| cot_bridge | 2 nodes with 3 and 1 messages, 1 break, `FairSpec` | `TypeOK`, `DetectionsOnceInOrder`, `RegisteredIsShown` | redial and replay beside a connection that is still read, messages the bridge raises on |
| edge_row | 2 edits, the first of GPS, the second of either, `FairSpec` | `TypeOK`, `EditIsShown`, `RowSettles` | refreshes against timers and poll rounds |

**Bounds.** *Nodes.* One request and the poll loop give two overlapping rounds, one
of which publishes last and may be the older; two ids tell a whole configuration
from a mixture of two. Two requests at once, and entries of several contents, are
what the theorems of section 5 add. The request serves one call; the poll loop runs
without limit. Crashes and edits share one bound, `MaxUpsets`; a write that fails and
truncates the file is not bounded by it, so that an edit can repair what a write has
damaged. The clock stops at `MaxTime`: with two times a round that takes its own for
`first_seen_at`, or forgets the last answer when a probe fails, is told from one that
carries them over. Later rounds have the same time 2; a third time, and a crash
together with an edit, are what the theorems add. *Router.* Two children take a node id over from each other any
number of times, since a connection may close and come back; the routing of one node
id never looks at another's entry, and values are only stored and forwarded. Messages
are not bounded at all: the state space is finite. Three children and several nodes
and values are covered by the theorems. *Connections.* Two messages of one
connection make an order, one connection that waits for the parser while the other
has it makes the contention, a buffer of one overflows; two dials show a redial.
Their kinds are those that end differently; the theorems are for all. *Archive.*
Chunks of two with three messages give a full chunk and a rest; one rollover with a
full state on both sides, since a second one sees nothing the first did not leave
it. *Flow.* Three steps: an answer can be late by one step and by two, over a step that waits for nothing; three
messages back are an answer, the same once more and one that was not asked for. *Bridge.*
Three messages of one node are a registration, a report and a detection, or a
registration and two detections; one break has the replay, and a newer
detection, beside the rest of the lost connection. The theorem `DetectionsOnce` is for
any number of them. *Row.* Two edits of the same service
overlap in each of their refreshes, as do two of different services; the poll rounds
are not bounded.

**Deadlock** is checked in the nodes, router and edge row runs. The archive's, the
connections', the flow's and the bridge's end: a server that has stopped, a flow
that is answered, nodes that have sent all their messages.

**Fairness.** *nodes*: `WF(EventLoop)`, the steps of the poll loop and, of a request, the one
from `clear()` to `update()`, which keeps the loop to itself. The event loop runs ready tasks
first come first served, and every await of the poll loop's rounds ends, because probes
have timeouts. Nothing is assumed of a request otherwise: it need not arrive, and its
round may wait for ever. A fault need not happen.
*archive_live*: `WF` of the archive thread's writes, which wakes once a second and
waits for nothing else; of each connection's end after `stop()` has cancelled it; of
`StopArchive`, which only waits for those. Neither rollovers nor errors are fair.
*apex_connections*: `WF` of what trio runs when it is ready (reading, the writer,
the cancellation, closing), of the parser's return, which is a computation, and of
the dial, to a host that listens; `SF(StartParse(c))`, because the limiter hands its
token on in the order of asking. Nothing of what a peer sends, reads or ends, and not
`SendDone`, which needs a peer that reads. *sapient_flow*: `WF(GoesOn)`, what the flow
does when nothing comes: its waits for messages have timeouts. The other end, the reader
task and the taking of a message are not fair. *cot_bridge*: `WF` of the dial and of the
bridge's reading, connection by connection. *edge_row*: `WF` of time,
of the router following its configuration, of the poll loops, which survive what a
round raises, and of a request's next step, which has a timeout.

## 5. What is proved

TLAPS checks the following for every set of nodes, contents, requests, readers,
connections and values, and every bound.

| module | theorems | state |
|---|---|---|
| NodesRegistryProofs | `TypeCorrect`, `CacheAlwaysCommitted`, `AnswersAlwaysCommitted`, `NoLostUpdate`, `CorruptFileKept`, `HistoryAlwaysCarriedOver`, `ImplementsPromise` | `TypeOK`, `CacheIsCommitted`, `AnswersAreCommitted`, `OneNodePerWrite`, `OnlyOperatorRepairs`, `HistoryCarriedOver`, and the refinement `KeepsPromise` |
| ApexRouterProofs | `RouterTypeCorrect`, `NewestRegistrationWins`, `UnchangedNeverAlone`, `SubscribersAgree`, `OvertakenIsMuted`, `NothingReflected` | `TypeOK`, `NewestHoldsNode`, `UnchangedFollowsNew`, `ViewsAgree`, `OnlyNewestForwarded`, `NoReflection` |
| ApexConnectionsProofs | `ConnectionsTypeCorrect`, `OrderOfHandling`, `NothingDroppedBefore`, `ImplementsFeed` | `TypeOK`, `HandledInOrder`, `NothingDropped`, and the refinement `FeedsArchive` |
| SqliteArchiveProofs | `ArchiveTypeCorrect`, `FilesHoldAPrefix`, `ShutdownLosesNothing`, `RecentIdsAreInTheFile`, `MessagesHaveConnections`, `ShutdownClosesRows`, `RowsNameTheLatest`, `ImplementsLog`, `FedLikeApex` | `TypeOK`, `PrefixStored`, `NothingLost`, `RecentAreStored`, `NoOrphans`, `ConnectionsEndClosed`, `RowsReflectStored`, and the refinements `KeepsLog`, `FedAsPromised` (`PrefixStored`, a consequence of `KeepsLog`, and `FedAsPromised` are stated in this module, beside their theorems, and no run repeats them) |
| SapientFlowProofs | `FlowTypeCorrect`, `StepsTakeOwnAnswers`, `TranscriptIsComplete`, `ResultsOutliveClears` | `TypeOK`, `MatchesOwnAnswer`, `CapturedInOrder`, `ResultIsKept` |
| CotBridgeProofs | `BridgeTypeCorrect`, `DetectionsOnce` | `TypeOK`, `DetectionsOnceInOrder` |
| EdgeRowProofs | `EdgeTypeCorrect`, `LastRefreshShowsEdit` | `TypeOK`, and `EditIsShown` under `TimersSuffice` |

Assumptions: `RegistryAssumption`, `StatusAssumption`; `RolesAssumption`,
`NoneAssumption`, `LostAssumption`, `QuietAssumption`; `DialsAssumption`,
`KindsAssumption`, `BoundsAssumption`, `NoneAssumption`; of the archive
`KindsAssumption`, `ChunkAssumption`, `BoundsAssumption`, `NoneAssumption`;
`StepsAssumption`, `AnswersAssumption`, `ContentsAssumption`; `NodesAssumption`, `SendsAssumption`,
`NoMessageAssumption`; `TicksAssumption`. They say that the marks for "nothing" are no
values, that a connection has one role, that bounds and timers are numbers, that a
buffer and a chunk hold a message, and that the bridge's nodes are finitely many. TLC
evaluates them. One theorem, `LastRefreshShowsEdit`, has a hypothesis of its own,
`TimersSuffice`, which is explained below.

**Nodes.** `CacheIsCommitted` is not inductive: what a round publishes depends on what
it holds. `IInv` adds that the file is the last committed configuration unless it is
damaged (`FileIsLastCommit`), that every round in flight works on the commit it
began with, and has composed the entries of that commit only
(`RoundsWorkOnCommits`), and that a round that has cleared the cache has composed
all of them (`ClearedIsComplete`). `TInv`, the type with the fact that a round only
probes entries it loaded, comes first. The refinement follows from `IInv` and two
lemmas: history only grows, and the cache changes only in `NextEntry` (to empty),
`Publish` (to the commit of the round) and `Crash`. `AnswersAreCommitted` is inductive
together with `IInv`. `HistoryCarriedOver` rests on an invariant of its own, `CInv`: no
time a status, a round or a composed status holds is later than the clock; and while
the event loop is free, every round in flight that nobody has overtaken has before it
the very cache it has composed from (`Fits`). It says nothing of the moment between
`clear()` and `update()`, where no such round can move, and holds again after it because
the round that published has overtaken all others.

**Router.** `HolderInv` joins `NewestHoldsNode` and `UnchangedFollowsNew` with three
facts: the connection that registered a node last is not closed and holds that id
(`HoldersAreOpen`); its last status is the "New" report stored for the node
(`SystemIsStored`); there is none before a registration. `ViewInv` adds that the
writer lists are exactly the subscribers that have not closed
(`ListsAreComplete`), without which a
forwarded message could miss one and `ViewsAgree` would not be preserved. The
forwarding properties follow from what a step may put in `sent`.

**Connections.** `HandledInOrder` needs more than itself: that the messages in the
channel and on the wire are the connection's own and numbered on from what has left
the channel (`QueueOK`), which the parser's message makes one more than what has been
handled. `Owed` strengthens `NothingDropped` to connections that are not served, and
to full ones, which owe at least what `send_all` still has. `Control` has the two facts
about ends: what is being parsed belongs to a connection that is not closed
(`ParserOpen`, the reason why `Close` may not run before the thread returns), and a
stopped server serves nobody (`StoppedEmpty`). `CInv` joins them. The refinement
takes from it that a stored message is numbered beyond the stored ones and that its
connection is still announced.

**Archive.** Everything is said of the queue `batch \o pending`, which an action only
extends at its end or shortens at its front: taking a batch leaves it as it is. The
sentinel is its last item (`StopIsLast`). `MInv` orders the messages: ids grow with
recording, the queue holds the newest in order, and between what is stored and what is
queued runs one frontier, `inserted` messages into the batch. `PrefixStored` and
`NothingLost` follow from it. `OpensAndCloses` says where a connection's begin and end
may be in the queue: before and after all of its messages, and an end is there whenever
a gone connection still has anything in it. `RowsInv` has what the file says of each
connection, by how much of it the thread has come to: the row is there once the begin
has been written, is active until the end has, and names messages of its own that are
in the file; from it come `RecentAreStored`, `NoOrphans` and `ConnectionsEndClosed`.
`RowsReflectStored` needs one more, `PastInv`: a row reflects the messages recorded of
its connection that are no longer queued. That `RowsAfter`, one step per message, ends
with the last message of each kind is proved by induction along the chunk.

For `KeepsLog`, `Known` adds to `MInv` that nothing is in a file that was not recorded.
Three lemmas say which steps matter: only `InsertMessages` changes what the files hold
(`StoredKept`), only `RecordMessage` what was given (`RecordedKept`), only `Exit` ends in
order (`ExitedKept`). An insertion moves the frontier to the last message of its chunk
(`InsertKeeps`), and at the sentinel the queue holds no message, so everything is kept.
`FedAsPromised` needs that a new message's number is above all others.

**Induction.** The library's induction theorems take the statement as an operator, which
the provers cannot instantiate. `InductionLemmas` derives from the well-foundedness of
< on Nat what is needed with sets and functions in place of operators: least and greatest
elements, induction up to a bound with the statement as the set of numbers it holds
for, and the existence of functions defined by recursion up to a bound, from which the
recursion equations of `RowsAfter` and `Parsed` are proved.

**Flow.** `TInv` is the type, and that nothing unreadable is in the inbox.
`CapturedInOrder` rests on `Parsed`, the messages that parse, keeping up with `Append` and
`Tail` (`ParsedAppend`, `ParsedHead`), and on `Caused` and `EntryCaused`: what comes back
answers a message that has been sent by then. For
`MatchesOwnAnswer`, `OwnAnswers` is its first conjunct, kept because a step that takes
the answer to an earlier one's message finds that message either not waited for or
answered before: each earlier step that waited has been served (`Served`), and one
that waits for nothing is satisfied by nothing (`Drains`). `ResultIsKept` follows
because a flow writes its result last and only once.

**Bridge.** `DInv` joins to `DetectionsOnceInOrder` that detections on the lines and those
shown are of messages their node has sent, and over no later connection than the
latest (`Sent`, `ShownSent`), and that nothing is on the line of a connection yet to come
(`NoneAhead`). Every step but `NodeSays` takes detections away from the lines or moves
them up by one place (`Shrinks`); `NodeSays` adds the newest to the latest line; a replay has
none.

**Row.** `TInv` adds to the type that a refresh which waits for an answer has one to
publish. `EditIsShown` rests on `EInv`, which compares timers for every request that is
alone: as long as the router has not applied a GPS edit, more time is left before the
last refresh (`Rest`) than the router still needs and the freshness window is long;
once it has, the age of the sentences and the time that is left reach the first stale
value together, or sentences come again before the refresh does. A tick takes no more
of the one than of the other. For an NTP edit the router's delay is enough, and what the
ntp service has published stays what the router gives. The theorem holds for all values
of the timers with `TimersSuffice`: settling and delay of a GPS edit together exceed
the router's delay and the window, the settling of an NTP edit exceeds the router's
delay. In seconds, from routes.py and the probe: 0.2 + 9.0 > 8 + lag and 1.2 > lag, so a
router may take up to about 1.2 s. Neither margin can be given up: with one tick less in
either, TLC finds `EditIsShown` violated.

**Only model-checked.** Liveness under fairness (`CacheSettles`, `RecordedIsStored`,
`ShutdownEnds`, `BrokenConnectionsEnd`, `ReadIsHandled`, `FlowEnds`,
`RegisteredIsShown`, `RowSettles`), which is beyond the prover.

## 6. Where code and words disagree

- **nodes_next_get.** A round that loaded the file before a write and ends after the
  write's own round puts the older configuration back: a deleted node reappears
  until the next poll. `tests/services/nodes/test_nodes.py:6-9` says the next GET
  reflects the change. `CacheSettles` shows that it heals, `CacheIsCommitted` that it
  is never a mixture.
- **nodes_torn_list.** `current()` ("Latest known status for every node") answers an
  empty list from a thread that runs between `_STATE.clear()` and `_STATE.update()`.
- **apex_recorder.** The messages of a recorder, which its docstring says are only
  stored, are forwarded to the forwardAll parents.
- **archive_names.** The RolloverFilename row that the GUI polls for is added to the
  session and expunged from it before the commit; it is never written.

Met while modelling, and part of the models as the code has them: `flow.py`'s
docstring says a step without `wait_for` only drains (lines 4-5, 39), but it first
waits for `recv_timeout_s` (167-186); "the whole conversation is captured" (line 6)
leaves out what the inbox still holds at the end; a message is stamped "sent" before
it is written. A flow whose first step fails before anything has been waited for (no gap
before it, no position to fetch; a template that is missing, does not render or does not
validate) cancels its reader task before that has begun: the task ends as cancelled,
awaiting it raises `CancelledError`, which `except Exception` (`flow.py:220-223`) does not
catch, and `run_flow` raises where `_finalise` means to report the error with the steps
"that were never reached" (236-237); so `Finalises` fails then. A client that resets its connection before its name is asked for ends
the server (`Refuse`), which the properties allow and `FeedsArchive` covers.

Met while reading, outside the models: `parse_xml.py:95` returns a record without the
error it has just built; `parse_proto.py:132` looks an unknown status info up in the
wrong enumeration and raises; `parse_xml.py` stores the first character of a
message's JSON (`data_json[0]`) in place of all of it.

## 7. What is not covered

`PROJECT.json` lists each component with its status and reason.

- *Partly modelled.* The GPS listener: the age of the sentences is in EdgeRow, the
  fields of the fix are not, so neither are a torn snapshot (`listener.py:284`) and a
  stale position under fresh sentences (`:277`). The NTP service: its rounds are, the
  vote is not. The edge controls: the shared token and the read before a PUT are not.
  Framing: a frame arrives whole or not at all.
- *Not modelled.* Parsing, validation and translation convert one message at a time
  and have no state of their own; their outcomes are the kinds of message of
  ApexConnections. In ApexRouter a conversion between protocol versions always
  succeeds: in the code a failed one is logged and an empty message is forwarded. The
  proxies of the ui service pass requests on. The regression runner is one lock around
  one subprocess. Elasticsearch is disabled by the configuration.
- *Out of scope.* Most of the repository's lines are vendored: Stone-Soup
  (numerical estimation, kept for a fusion node that does not exist yet), the Apex GUI
  and replay tools, and the BSI harness, none of which the services load; and
  `deprecated/`. The modules cover the concurrent part of the code that is deployed,
  which is a small share of all lines.

Left to prove: nothing the runs check as safety; liveness stays with TLC.
