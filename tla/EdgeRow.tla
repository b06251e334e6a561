-------------------------------- MODULE EdgeRow --------------------------------
(***************************************************************************)
(* The row of the edge node in the user interface, across four services:   *)
(* the edge controls of the ui service change the configuration of the     *)
(* router and then have the ntp and the nodes service probe again; the gps *)
(* and the ntp service observe the router; the nodes service probes those  *)
(* two and publishes the row.  Both probing services also poll, and their  *)
(* rounds overlap with those the controls ask for.                         *)
(*                                                                         *)
(* Time is counted in ticks; only what the timers compare is kept of it.   *)
(* A service of the row is up or down: the grades of NTP, the position and *)
(* its sender are left out.  The router is external.                       *)
(***************************************************************************)
EXTENDS Naturals
CONSTANTS
  Requests,     (* requests to the edge controls                           *)
  Edits,        (* per request: the services it may be about               *)
  Fresh,        (* GPS_FRESH_S: the age up to which a sentence counts      *)
  Settle,       (* per service: the sleep between the PUT and the refresh  *)
  Delay,        (* the sleep before the delayed refresh                    *)
  Lag,          (* per service: how long the router takes to apply a PUT   *)
  None          (* no round                                                *)

Services == {"gps", "ntp"}

ASSUME TicksAssumption ==
  /\ Edits \in [Requests -> SUBSET Services]
  /\ Fresh \in Nat /\ Delay \in Nat \ {0}
  /\ Settle \in [Services -> Nat] /\ Lag \in [Services -> Nat]
  /\ \A s \in SUBSET Services : None # s

VARIABLES
  config,      (* the services the router is configured to give            *)
  runs,        (* those it does give                                       *)
  pending,     (* ticks left for the router to apply the configuration     *)
  age,         (* of the last NMEA sentence, up to the first stale value   *)
  ntpSources,  (* services/ntp: {"ntp"} if the router's entry is ok, or {} *)
  row,         (* services/nodes: the services the row shows as ok         *)
  ntpPoll, nodesPoll,   (* the poll rounds: None or what they have seen    *)
  at,          (* per request: idle, settling, ntp, asked, nodes, probing, *)
               (* delayed, done                                            *)
  task,        (* per request: the service it changes, its timer, what its *)
               (* round has seen, and if it is the delayed refresh         *)
  alone        (* per request: no other edit since its PUT, and nothing    *)
               (* older than it overtook its NTP round                     *)

router == <<config, runs, pending, age>>
polls == <<ntpPoll, nodesPoll>>
requests == <<at, task, alone>>
vars == <<router, ntpSources, row, polls, requests>>

Stale == Fresh + 1
NoTask == [service |-> "gps", left |-> 0, seen |-> None, last |-> FALSE]

Init ==
  /\ config = Services /\ runs = Services
  /\ pending = [s \in Services |-> 0]
  /\ age = 0
  /\ ntpSources = {"ntp"}
  /\ row = Services
  /\ ntpPoll = None /\ nodesPoll = None
  /\ at = [r \in Requests |-> "idle"]
  /\ task = [r \in Requests |-> NoTask]
  /\ alone = [r \in Requests |-> TRUE]

-----------------------------------------------------------------------------
(* Time and the router *)

Less(n) == IF n = 0 THEN 0 ELSE n - 1

\* A router that forwards sends a sentence every tick.
Tick ==
  /\ \A s \in Services : (s \in runs <=> s \in config) \/ pending[s] > 0
  /\ pending' = [s \in Services |-> Less(pending[s])]
  /\ age' = IF "gps" \in runs THEN 0 ELSE IF age < Stale THEN age + 1 ELSE Stale
  /\ task' = [r \in Requests |-> [task[r] EXCEPT !.left = Less(@)]]
  /\ UNCHANGED <<config, runs, ntpSources, row, polls, at, alone>>

Applies(s) ==
  /\ (s \in runs) # (s \in config)
  /\ runs' = (runs \ {s}) \cup (config \cap {s})
  /\ UNCHANGED <<config, pending, age, ntpSources, row, polls, requests>>

-----------------------------------------------------------------------------
(* Rounds *)

\* What a round of the nodes service reads of the two others.
ServicesSeen == (IF age <= Fresh THEN {"gps"} ELSE {}) \cup ntpSources

\* What a round of the ntp service gets from the router.
NtpSeen == runs \cap {"ntp"}

\* Publishing what an NTP round has seen; what is out of date by then undoes
\* what the requests have seen to.
NtpPublishes(seen) ==
  /\ ntpSources' = seen
  /\ alone' = [r \in Requests |->
                 alone[r] /\ (task[r].service = "ntp" => seen = NtpSeen)]

NtpPollStarts ==
  /\ ntpPoll = None
  /\ ntpPoll' = NtpSeen
  /\ UNCHANGED <<router, ntpSources, row, nodesPoll, requests>>

\* Wrong variant: a failed round leaves the last good result.
NtpPollEndsIfOk ==
  /\ ntpPoll # None
  /\ IF ntpPoll = {} THEN UNCHANGED <<ntpSources, alone>> ELSE NtpPublishes(ntpPoll)
  /\ ntpPoll' = None
  /\ UNCHANGED <<router, row, nodesPoll, at, task>>

NtpPollEnds ==
  /\ ntpPoll # None
  /\ NtpPublishes(ntpPoll)
  /\ ntpPoll' = None
  /\ UNCHANGED <<router, row, nodesPoll, at, task>>

NodesPollStarts ==
  /\ nodesPoll = None
  /\ nodesPoll' = ServicesSeen
  /\ UNCHANGED <<router, ntpSources, row, ntpPoll, requests>>

NodesPollEnds ==
  /\ nodesPoll # None
  /\ row' = nodesPoll
  /\ nodesPoll' = None
  /\ UNCHANGED <<router, ntpSources, ntpPoll, requests>>

-----------------------------------------------------------------------------
(* The edge controls *)

Goes(r, from, to) == at[r] = from /\ at' = [at EXCEPT ![r] = to]
Changes(r, field, value) == task' = [task EXCEPT ![r] = [@ EXCEPT ![field] = value]]

\* The PUT; a request whose PUT fails changes nothing and refreshes nothing.
Puts(r, s, on) ==
  /\ Goes(r, "idle", "settling")
  /\ config' = IF on THEN config \cup {s} ELSE config \ {s}
  /\ pending' = [pending EXCEPT ![s] = Lag[s]]
  /\ task' = [task EXCEPT ![r] = [service |-> s, left |-> Settle[s], seen |-> None,
                                  last |-> s = "ntp"]]
  /\ alone' = [q \in Requests |-> q = r]
  /\ UNCHANGED <<runs, age, ntpSources, row, polls>>

Slept(r) ==
  /\ at[r] \in {"settling", "delayed"} /\ task[r].left = 0
  /\ at' = [at EXCEPT ![r] = "ntp"]
  /\ UNCHANGED <<router, ntpSources, row, polls, task, alone>>

\* _refresh_downstream: first the ntp service ...
AsksNtp(r) ==
  /\ Goes(r, "ntp", "asked")
  /\ Changes(r, "seen", NtpSeen)
  /\ UNCHANGED <<router, ntpSources, row, polls, alone>>
NtpRefreshed(r) ==
  /\ Goes(r, "asked", "nodes")
  /\ NtpPublishes(task[r].seen)
  /\ Changes(r, "seen", None)
  /\ UNCHANGED <<router, row, polls>>

\* ... then the nodes service.
AsksNodes(r) ==
  /\ Goes(r, "nodes", "probing")
  /\ Changes(r, "seen", ServicesSeen)
  /\ UNCHANGED <<router, ntpSources, row, polls, alone>>

\* Wrong variant: the delayed refresh comes when the window is about to close.
NodesRefreshedEarly(r) ==
  /\ Goes(r, "probing", IF task[r].last THEN "done" ELSE "delayed")
  /\ row' = task[r].seen
  /\ task' = [task EXCEPT ![r] = [@ EXCEPT !.seen = None, !.last = TRUE,
                                           !.left = IF task[r].last THEN 0 ELSE Fresh]]
  /\ UNCHANGED <<router, ntpSources, polls, alone>>

\* A GPS edit refreshes a second time, in a task of its own.
NodesRefreshed(r) ==
  /\ Goes(r, "probing", IF task[r].last THEN "done" ELSE "delayed")
  /\ row' = task[r].seen
  /\ task' = [task EXCEPT ![r] = [@ EXCEPT !.seen = None, !.last = TRUE,
                                           !.left = IF task[r].last THEN 0 ELSE Delay]]
  /\ UNCHANGED <<router, ntpSources, polls, alone>>

\* Wrong variant: what a kick raises ends the request.
KickRaises(r) ==
  /\ at[r] \in {"ntp", "asked", "nodes", "probing"}
  /\ at' = [at EXCEPT ![r] = "failed"]
  /\ UNCHANGED <<router, ntpSources, row, polls, task, alone>>

\* A kick that fails or takes too long is logged and passed over; a round it
\* has left behind ends like one of a poll.
KickFails(r) ==
  /\ alone' = [alone EXCEPT ![r] = FALSE]
  /\ \/ /\ at[r] \in {"ntp", "asked"}
        /\ at' = [at EXCEPT ![r] = "nodes"]
        /\ Changes(r, "seen", None)
     \/ /\ at[r] \in {"nodes", "probing"}
        /\ at' = [at EXCEPT ![r] = IF task[r].last THEN "done" ELSE "delayed"]
        /\ task' = [task EXCEPT ![r] = [@ EXCEPT !.seen = None, !.last = TRUE,
                                                 !.left = IF task[r].last THEN 0 ELSE Delay]]
  /\ UNCHANGED <<router, ntpSources, row, polls>>

-----------------------------------------------------------------------------
PollSteps == NtpPollStarts \/ NtpPollEnds \/ NodesPollStarts \/ NodesPollEnds
RequestSteps(r) ==
  \/ Slept(r) \/ AsksNtp(r) \/ NtpRefreshed(r) \/ AsksNodes(r) \/ NodesRefreshed(r)
  \/ KickFails(r)
Next ==
  \/ Tick \/ \E s \in Services : Applies(s)
  \/ PollSteps
  \/ \E r \in Requests :
       \/ \E s \in Edits[r], on \in BOOLEAN : Puts(r, s, on)
       \/ RequestSteps(r)

Spec == Init /\ [][Next]_vars

\* Time passes, the router applies what it has been given, and the poll loops
\* survive whatever a round raises.
FairSpec ==
  /\ Spec
  /\ WF_vars(Tick)
  /\ \A s \in Services : WF_vars(Applies(s))
  /\ WF_vars(NtpPollStarts) /\ WF_vars(NtpPollEnds)
  /\ WF_vars(NodesPollStarts) /\ WF_vars(NodesPollEnds)
  /\ \A r \in Requests : WF_vars(RequestSteps(r))

-----------------------------------------------------------------------------
(* Properties *)

TypeOK ==
  /\ config \subseteq Services /\ runs \subseteq Services /\ row \subseteq Services
  /\ pending \in [Services -> Nat] /\ \A s \in Services : pending[s] <= Lag[s]
  /\ age \in 0..Stale
  /\ ntpSources \subseteq {"ntp"}
  /\ ntpPoll \in {None, {}, {"ntp"}} /\ nodesPoll \in {None} \cup SUBSET Services
  /\ at \in [Requests -> {"idle", "settling", "ntp", "asked", "nodes", "probing",
                          "delayed", "done"}]
  /\ \A r \in Requests :
       /\ task[r].service \in Services /\ task[r].last \in BOOLEAN
       /\ task[r].left \in Nat
       /\ task[r].seen \in {None} \cup SUBSET Services
  /\ alone \in [Requests -> BOOLEAN]

\* The last refresh of an edit puts the row right without waiting for a poll:
\* the delayed one of a GPS edit comes after the last sentence has gone stale,
\* an NTP edit refreshes after the router has applied it (routes.py, lines
\* 379-389 and 421-425).  Another edit, a kick that failed or an older NTP
\* round that was published after it may undo this.
EditIsShown ==
  [][\A r \in Requests :
       at[r] = "probing" /\ at'[r] = "done" /\ alone'[r] =>
         (task[r].service \in row' <=> task[r].service \in config)]_vars

\* Once nobody edits any more the row says what the router serves, for good,
\* however the rounds overlapped: the polls see to it.
RowSettles == <>[](row = config)
=============================================================================
