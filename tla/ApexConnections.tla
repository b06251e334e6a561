---------------------------- MODULE ApexConnections ----------------------------
(***************************************************************************)
(* The connections of Apex: serve() of apex_server.py with its three tasks *)
(* (reading, parsing and handling, writing), BufferedWriter and the        *)
(* outbound retry loop of trio_util.py, and how the server stops.          *)
(*                                                                         *)
(* Everything but the parser runs on one trio thread, so an action runs    *)
(* from one await to the next.  The parser runs in a worker thread that a  *)
(* cancellation does not stop, one message at a time over all connections. *)
(* What handle_message sends to whom is ApexRouter's; here a message may   *)
(* be written to any set of connections.                                   *)
(***************************************************************************)
EXTENDS Naturals, Sequences
CONSTANTS
  Inbound,      (* the streams clients may open to a listening port         *)
  MaxDials,     (* bound on the connections of the one outbound entry       *)
  Kinds,        (* the kinds of message each peer sends                     *)
  MaxSent,      (* bound on the messages of each peer                       *)
  MaxBuffer,    (* the messages a writer may buffer: max_data               *)
  None          (* no message in the parser                                 *)

\* The outbound entry's connections, in the order connect_tcp_repeatedly
\* makes them.
Dials == 1..MaxDials
Conns == Inbound \cup Dials

\* long: over messageMaxSizeKb; unstored, fatal: the severity of the error
\* that parsing or handling gives it; raises: an exception of either; plain:
\* anything else.
AllKinds == {"plain", "unstored", "fatal", "raises", "long"}

ASSUME DialsAssumption == MaxDials \in Nat /\ Inbound \cap Dials = {}
ASSUME KindsAssumption == Kinds \in [Conns -> SUBSET AllKinds]
ASSUME BoundsAssumption == MaxSent \in [Conns -> Nat] /\ MaxBuffer \in Nat \ {0}

VARIABLES
  server,      (* running, stopping (its nursery cancelled), stopped       *)
  link,        (* per connection: new, accepted (serve() not yet begun),   *)
               (* serving, failed (its nursery cancelled), gone, refused   *)
  peer,        (* open, ended (has closed its side), reset                 *)
  wire,        (* what the peer has sent and serve() has not read          *)
  channel,     (* the memory channel of unbounded size                     *)
  parsing,     (* the message in the parser thread, or None                *)
  handled,     (* how many messages of a connection have been handled      *)
  stored,      (* which of them on_message_receive got, by number          *)
  buffer,      (* how many messages the connection's writer buffers        *)
  full,        (* the writer's exception is set                            *)
  sending,     (* how many perform_writes has given to send_all            *)
  owed         (* how many write_nowait was given that the peer has not    *)
               (* got, for the properties only                             *)

reading == <<wire, channel, parsing, handled, stored>>
writing == <<buffer, full, sending, owed>>
vars == <<server, link, peer, reading, writing>>

Numbers == Nat \ {0}
Message == [from: Conns, n: Numbers, kind: AllKinds]
ASSUME NoneAssumption == None \notin Message

Init ==
  /\ server = "running"
  /\ link = [c \in Conns |-> "new"]
  /\ peer = [c \in Conns |-> "open"]
  /\ wire = [c \in Conns |-> <<>>]
  /\ channel = [c \in Conns |-> <<>>]
  /\ parsing = None
  /\ handled = [c \in Conns |-> 0]
  /\ stored = [c \in Conns |-> {}]
  /\ buffer = [c \in Conns |-> 0]
  /\ full = [c \in Conns |-> FALSE]
  /\ sending = [c \in Conns |-> 0]
  /\ owed = [c \in Conns |-> 0]

\* The messages of c that have been sent, wherever they are now.
InParser(c) == parsing # None /\ parsing.from = c
ParserCount(c) == IF InParser(c) THEN 1 ELSE 0
SentCount(c) == handled[c] + ParserCount(c) + Len(channel[c]) + Len(wire[c])

\* The connections the routing lists hold: from create() to handle_closed().
\* (A refused one stays in them until the server ends; its writer sends nothing.)
Registered == {c \in Conns : link[c] \in {"serving", "failed"}}

-----------------------------------------------------------------------------
(* The peers *)

PeerSends(c) ==
  /\ link[c] \in {"accepted", "serving"} /\ peer[c] = "open"
  /\ SentCount(c) < MaxSent[c]
  /\ \E k \in Kinds[c] :
       wire' = [wire EXCEPT ![c] = Append(@, [from |-> c, n |-> SentCount(c) + 1, kind |-> k])]
  /\ UNCHANGED <<server, link, peer, channel, parsing, handled, stored, writing>>

PeerEnds(c) ==
  /\ link[c] \in {"accepted", "serving"} /\ peer[c] = "open"
  /\ peer' = [peer EXCEPT ![c] = "ended"]
  /\ UNCHANGED <<server, link, reading, writing>>

PeerResets(c) ==
  /\ link[c] \in {"accepted", "serving"} /\ peer[c] # "reset"
  /\ peer' = [peer EXCEPT ![c] = "reset"]
  /\ UNCHANGED <<server, link, reading, writing>>

-----------------------------------------------------------------------------
(* Connections begin *)

Accepted(c) ==
  /\ server = "running" /\ link[c] = "new"
  /\ link' = [link EXCEPT ![c] = "accepted"]
  /\ UNCHANGED <<server, peer, reading, writing>>

Accept(c) == c \in Inbound /\ Accepted(c)

\* connect_tcp_repeatedly: once the handler has returned, try again.
Dial(d) == (d > 1 => link[d - 1] = "gone") /\ Accepted(d)

\* serve() up to its nursery: on_connect.
Serve(c) ==
  /\ link[c] = "accepted"
  /\ link' = [link EXCEPT ![c] = "serving"]
  /\ UNCHANGED <<server, peer, reading, writing>>

\* A stream that was reset has no peer name to ask for: serve() raises before
\* on_connect, outside its try, and the exception cancels the server's
\* nursery.
Refuse(c) ==
  /\ link[c] = "accepted" /\ peer[c] = "reset"
  /\ link' = [link EXCEPT ![c] = "refused"]
  /\ server' = IF server = "running" THEN "stopping" ELSE server
  /\ UNCHANGED <<peer, reading, writing>>

-----------------------------------------------------------------------------
(* Reading: read_to_channel *)

Fails(c) == link[c] = "serving" /\ link' = [link EXCEPT ![c] = "failed"]
JustFails(c) == Fails(c) /\ UNCHANGED <<server, peer, reading, writing>>

\* Wrong variant: what has been read goes to the front of the channel.
ReadToFront(c) ==
  /\ link[c] = "serving" /\ wire[c] # <<>> /\ Head(wire[c]).kind # "long"
  /\ wire' = [wire EXCEPT ![c] = Tail(@)]
  /\ channel' = [channel EXCEPT ![c] = <<Head(wire[c])>> \o @]
  /\ UNCHANGED <<server, link, peer, parsing, handled, stored, writing>>

Read(c) ==
  /\ link[c] = "serving" /\ wire[c] # <<>> /\ Head(wire[c]).kind # "long"
  /\ wire' = [wire EXCEPT ![c] = Tail(@)]
  /\ channel' = [channel EXCEPT ![c] = Append(@, Head(wire[c]))]
  /\ UNCHANGED <<server, link, peer, parsing, handled, stored, writing>>

ReadTooLong(c) ==
  wire[c] # <<>> /\ Head(wire[c]).kind = "long" /\ JustFails(c)

\* The end of file, after what was sent before it, or a reset.
ReadFails(c) ==
  /\ \/ peer[c] = "ended" /\ wire[c] = <<>>
     \/ peer[c] = "reset"
  /\ JustFails(c)

-----------------------------------------------------------------------------
(* Parsing and handling: read_from_channel *)

\* The limiter has one token for all connections.
StartParse(c) ==
  /\ link[c] = "serving" /\ channel[c] # <<>> /\ parsing = None
  /\ parsing' = Head(channel[c])
  /\ channel' = [channel EXCEPT ![c] = Tail(@)]
  /\ UNCHANGED <<server, link, peer, wire, handled, stored, writing>>

\* Wrong variant: what is over the limit is buffered all the same.
WrittenAnyway(to) ==
  LET takers == {c \in to : ~full[c]}
  IN  /\ owed' = [c \in Conns |-> IF c \in takers THEN owed[c] + 1 ELSE owed[c]]
      /\ full' = [c \in Conns |-> full[c] \/ (c \in takers /\ buffer[c] >= MaxBuffer)]
      /\ buffer' = [c \in Conns |-> IF c \in takers THEN buffer[c] + 1 ELSE buffer[c]]

\* write_nowait of the writers in to: one that is full drops the message, one
\* that becomes full drops what it holds.
Written(to) ==
  LET takers == {c \in to : ~full[c]}
      over == {c \in takers : buffer[c] >= MaxBuffer}
  IN  /\ owed' = [c \in Conns |-> IF c \in takers THEN owed[c] + 1 ELSE owed[c]]
      /\ full' = [c \in Conns |-> full[c] \/ c \in over]
      /\ buffer' = [c \in Conns |->
           CASE c \in over -> 0
             [] c \in takers \ over -> buffer[c] + 1
             [] OTHER -> buffer[c]]

\* Wrong variant: an error of the parser is not caught, so that its token is
\* never given back.
FinishParseKeepsToken(c) ==
  /\ InParser(c) /\ parsing.kind # "raises"
  /\ \E to \in SUBSET Registered : Written(to)
  /\ handled' = [handled EXCEPT ![c] = @ + 1]
  /\ stored' = IF parsing.kind = "unstored" THEN stored
               ELSE [stored EXCEPT ![c] = @ \cup {parsing.n}]
  /\ parsing' = None
  /\ link' = IF parsing.kind = "fatal" THEN [link EXCEPT ![c] = "failed"] ELSE link
  /\ UNCHANGED <<server, peer, wire, channel, sending>>

\* The thread returns, also to a connection that has failed in the meantime:
\* handle_message, on_message_receive unless the message is not to be stored
\* or handling it raises, and the end of the connection after a fatal error
\* or an exception.
FinishParse(c) ==
  /\ InParser(c)
  /\ \E to \in SUBSET Registered : Written(to)
  /\ handled' = [handled EXCEPT ![c] = @ + 1]
  /\ stored' = IF parsing.kind \in {"unstored", "raises"} THEN stored
               ELSE [stored EXCEPT ![c] = @ \cup {parsing.n}]
  /\ parsing' = None
  /\ link' = IF parsing.kind \in {"fatal", "raises"} THEN [link EXCEPT ![c] = "failed"] ELSE link
  /\ UNCHANGED <<server, peer, wire, channel, sending>>

-----------------------------------------------------------------------------
(* Writing: perform_writes *)

\* Wrong variant: the buffer is replaced after send_all.
TakeBufferLate(c) ==
  /\ link[c] = "serving" /\ sending[c] = 0 /\ buffer[c] > 0
  /\ sending' = [sending EXCEPT ![c] = buffer[c]]
  /\ UNCHANGED <<server, link, peer, reading, buffer, full, owed>>

TakeBuffer(c) ==
  /\ link[c] = "serving" /\ sending[c] = 0 /\ buffer[c] > 0
  /\ sending' = [sending EXCEPT ![c] = buffer[c]]
  /\ buffer' = [buffer EXCEPT ![c] = 0]
  /\ UNCHANGED <<server, link, peer, reading, full, owed>>

\* send_all returns once the peer has room for everything: it may never.
SendDone(c) ==
  /\ link[c] = "serving" /\ sending[c] > 0 /\ peer[c] # "reset"
  /\ owed' = [owed EXCEPT ![c] = @ - sending[c]]
  /\ sending' = [sending EXCEPT ![c] = 0]
  /\ UNCHANGED <<server, link, peer, reading, buffer, full>>

\* send_all raises, after any part of the batch.
SendFails(c) == sending[c] > 0 /\ peer[c] # "open" /\ JustFails(c)

\* The exception write_nowait left is raised between two batches only.
FullRaised(c) == full[c] /\ sending[c] = 0 /\ JustFails(c)

-----------------------------------------------------------------------------
(* Connections end *)

Cancel(c) == server = "stopping" /\ JustFails(c)

\* Nothing about the stream matters once it is closed.
Forget(c) ==
  /\ peer' = [peer EXCEPT ![c] = "open"]
  /\ owed' = [owed EXCEPT ![c] = 0]

\* The stream, the channel and the writer go.
Cleared(c) ==
  /\ link' = [link EXCEPT ![c] = "gone"]
  /\ wire' = [wire EXCEPT ![c] = <<>>]
  /\ channel' = [channel EXCEPT ![c] = <<>>]
  /\ buffer' = [buffer EXCEPT ![c] = 0]
  /\ sending' = [sending EXCEPT ![c] = 0]
  /\ full' = [full EXCEPT ![c] = FALSE]
  /\ Forget(c)
  /\ UNCHANGED <<server, parsing, handled, stored>>

\* Wrong variant: the nursery does not wait for the parser thread.
CloseAtOnce(c) == link[c] = "failed" /\ Cleared(c)

\* Wrong variant: a send_all that is under way is waited for.
CloseAfterSending(c) ==
  link[c] = "failed" /\ ~InParser(c) /\ sending[c] = 0 /\ Cleared(c)

\* The three tasks have ended, so the parser thread has returned too:
\* handle_closed and on_disconnect.  What waits in the channel is dropped.
Close(c) == link[c] = "failed" /\ ~InParser(c) /\ Cleared(c)

\* stop(): ThreadSafeCancelScope cancels the scope of _do_run.
StopServer ==
  /\ server = "running"
  /\ server' = "stopping"
  /\ UNCHANGED <<link, peer, reading, writing>>

\* _do_run's nursery has no task left: trio.run returns.
ServerEnds ==
  /\ server = "stopping"
  /\ \A c \in Conns : link[c] \notin {"accepted", "serving", "failed"}
  /\ server' = "stopped"
  /\ UNCHANGED <<link, peer, reading, writing>>

-----------------------------------------------------------------------------
PeerStep(c) == PeerSends(c) \/ PeerEnds(c) \/ PeerResets(c)
ReadStep(c) == Read(c) \/ ReadTooLong(c) \/ ReadFails(c)
WriteStep(c) == TakeBuffer(c) \/ SendFails(c) \/ FullRaised(c)

Next ==
  \/ \E c \in Inbound : Accept(c)
  \/ \E d \in Dials : Dial(d)
  \/ \E c \in Conns :
       \/ PeerStep(c) \/ Serve(c) \/ Refuse(c) \/ ReadStep(c)
       \/ StartParse(c) \/ FinishParse(c) \/ WriteStep(c) \/ SendDone(c)
       \/ Cancel(c) \/ Close(c)
  \/ StopServer \/ ServerEnds

Spec == Init /\ [][Next]_vars

\* trio runs every task that is ready, and parsing a message ends; the limiter
\* hands its token on in the order of asking, so a connection is not passed
\* over for ever.  A listening host accepts the dial.  Nothing is assumed of
\* what a peer sends or takes.
Fairness ==
  /\ \A c \in Conns :
       /\ WF_vars(Serve(c) \/ Refuse(c)) /\ WF_vars(ReadStep(c))
       /\ SF_vars(StartParse(c)) /\ WF_vars(FinishParse(c))
       /\ WF_vars(WriteStep(c)) /\ WF_vars(Cancel(c)) /\ WF_vars(Close(c))
  /\ \A d \in Dials : WF_vars(Dial(d))
  /\ WF_vars(ServerEnds)

FairSpec == Spec /\ Fairness

-----------------------------------------------------------------------------
(* Properties *)

TypeOK ==
  /\ server \in {"running", "stopping", "stopped"}
  /\ link \in [Conns -> {"new", "accepted", "serving", "failed", "gone", "refused"}]
  /\ peer \in [Conns -> {"open", "ended", "reset"}]
  /\ wire \in [Conns -> Seq(Message)]
  /\ channel \in [Conns -> Seq(Message)]
  /\ parsing \in Message \cup {None}
  /\ handled \in [Conns -> Nat]
  /\ stored \in [Conns -> SUBSET Numbers]
  /\ buffer \in [Conns -> 0..MaxBuffer]
  /\ full \in [Conns -> BOOLEAN]
  /\ sending \in [Conns -> 0..MaxBuffer]
  /\ owed \in [Conns -> Nat]

\* The messages of a connection are handled in the order they were sent, none
\* twice and none left out, through the channel, the shared parser thread and
\* a cancellation while it runs (serve(), lines 106-165).
HandledInOrder ==
  \A c \in Conns :
    /\ InParser(c) => parsing.n = handled[c] + 1
    /\ \A i \in DOMAIN channel[c] :
         channel[c][i].n = handled[c] + ParserCount(c) + i
    /\ \A i \in DOMAIN wire[c] :
         wire[c][i].n = handled[c] + ParserCount(c) + Len(channel[c]) + i

\* A connection that is served and whose buffer has not overflowed loses
\* nothing that was written to it, however writing and sending interleave; one
\* whose buffer has overflowed sends nothing of it any more (BufferedWriter).
NothingDropped ==
  \A c \in Conns : link[c] = "serving" =>
    IF full[c] THEN buffer[c] = 0 ELSE owed[c] = sending[c] + buffer[c]

\* The archive gets what it is promised: nothing of a connection before
\* on_connect or after on_disconnect, its messages in order, and no connection
\* left open when the server's thread ends, also when it ends because a client
\* went away before its name was asked for.
Feed == INSTANCE ArchiveFeed WITH
  Ids <- UNION {1..MaxSent[c] : c \in Conns},
  phase <- server,
  link <- [c \in Conns |->
             CASE link[c] \in {"serving", "failed"} -> "connected"
               [] link[c] = "gone" -> "gone"
               [] OTHER -> "new"]
FeedsArchive == Feed!FeedSpec

\* A connection whose peer is gone ends, whatever waits in its channel and
\* however stuck its writer is.
BrokenConnectionsEnd ==
  \A c \in Conns :
    (link[c] = "serving" /\ peer[c] # "open") ~> (link[c] = "gone")

\* A message that has been read is handled unless its connection fails first:
\* the parser serves every connection.
ReadIsHandled ==
  \A c \in Conns : channel[c] # <<>> ~> channel[c] = <<>>

=============================================================================
