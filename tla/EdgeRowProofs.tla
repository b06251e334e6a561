----------------------------- MODULE EdgeRowProofs -----------------------------
(***************************************************************************)
(* Theorems about EdgeRow, for any number of requests and any timers.      *)
(***************************************************************************)
EXTENDS EdgeRow, TLAPS

Task == [service: Services, left: Nat, seen: {None} \cup SUBSET Services, last: BOOLEAN]
Places == {"idle", "settling", "ntp", "asked", "nodes", "probing", "delayed", "done"}

\* What a round in progress has seen, of either service.
HasSeen(a, k) ==
  /\ a = "asked" => k.seen \in SUBSET {"ntp"}
  /\ a = "probing" => k.seen \in SUBSET Services

TInv ==
  /\ TypeOK
  /\ task \in [Requests -> Task]
  /\ \A r \in Requests : HasSeen(at[r], task[r])

LEMMA TicksFacts ==
  /\ Fresh \in Nat /\ Delay \in Nat /\ Stale \in Nat
  /\ \A s \in Services : Settle[s] \in Nat /\ Lag[s] \in Nat
  /\ None \notin SUBSET Services
  BY TicksAssumption DEF Stale

LEMMA SeenTypes ==
  ASSUME TypeOK
  PROVE  /\ NtpSeen \in SUBSET {"ntp"}
         /\ ServicesSeen \in SUBSET Services
  BY DEF TypeOK, NtpSeen, ServicesSeen, Services

\* What an NTP round publishes has the type of the service's result.
LEMMA PublishesType ==
  ASSUME TInv, NEW seen \in SUBSET {"ntp"}, NtpPublishes(seen)
  PROVE  ntpSources' \subseteq {"ntp"} /\ alone' \in [Requests -> BOOLEAN]
  BY DEF TInv, TypeOK, NtpPublishes

\* A step of one request, as far as its own variables go.
OneMoves(r, a, k) == at' = [at EXCEPT ![r] = a] /\ task' = [task EXCEPT ![r] = k]

LEMMA MovesType ==
  ASSUME TInv, NEW r \in Requests, NEW a \in Places, NEW k \in Task, OneMoves(r, a, k),
         HasSeen(a, k)
  PROVE  /\ at' \in [Requests -> Places] /\ task' \in [Requests -> Task]
         /\ \A q \in Requests : HasSeen(at'[q], task'[q])
<1>1. at \in [Requests -> Places] /\ task \in [Requests -> Task]
  BY DEF TInv, TypeOK, Places
<1>2. \A q \in Requests : /\ at'[q] = IF q = r THEN a ELSE at[q]
                          /\ task'[q] = IF q = r THEN k ELSE task[q]
  BY <1>1 DEF OneMoves
<1>3. \A q \in Requests : HasSeen(at'[q], task'[q])
  BY <1>2 DEF TInv
<1>. QED
  BY <1>1, <1>3 DEF OneMoves

LEMMA TypeFromTask ==
  ASSUME task \in [Requests -> Task], NEW r \in Requests
  PROVE  /\ task[r].service \in Services /\ task[r].last \in BOOLEAN
         /\ task[r].left \in Nat
         /\ task[r].seen \in {None} \cup SUBSET Services
  BY DEF Task

\* The parts of TInv that steps of the router, of the rounds and of the
\* requests change.
RouterOK ==
  /\ config \subseteq Services /\ runs \subseteq Services
  /\ pending \in [Services -> Nat] /\ \A s \in Services : pending[s] <= Lag[s]
  /\ age \in 0..Stale
RoundsOK ==
  /\ ntpSources \subseteq {"ntp"} /\ row \subseteq Services
  /\ ntpPoll \in {None} \cup SUBSET {"ntp"} /\ nodesPoll \in {None} \cup SUBSET Services
RequestsOK ==
  /\ at \in [Requests -> Places] /\ task \in [Requests -> Task]
  /\ alone \in [Requests -> BOOLEAN]
  /\ \A r \in Requests : HasSeen(at[r], task[r])

LEMMA Parts == TInv <=> RouterOK /\ RoundsOK /\ RequestsOK
<1>1. SUBSET {"ntp"} = {{}, {"ntp"}}
  OBVIOUS
<1>2. task \in [Requests -> Task] => \A r \in Requests :
       /\ task[r].service \in Services /\ task[r].last \in BOOLEAN
       /\ task[r].left \in Nat
       /\ task[r].seen \in {None} \cup SUBSET Services
  BY TypeFromTask
<1>. QED
  BY <1>1, <1>2 DEF TInv, TypeOK, RouterOK, RoundsOK, RequestsOK, Places

\* A refresh that has seen or published something.
LEMMA SeenMoves ==
  ASSUME TInv, NEW r \in Requests, NEW from, NEW a, Goes(r, from, a),
         NEW seen \in {None} \cup SUBSET Services, Changes(r, "seen", seen)
  PROVE  \E k \in Task : /\ OneMoves(r, a, k) /\ k.seen = seen /\ at[r] = from
                         /\ k.service = task[r].service /\ k.left = task[r].left
                         /\ k.last = task[r].last
<1>. DEFINE k == [task[r] EXCEPT !.seen = seen]
<1>1. PICK old \in Task : old = task[r]
  BY DEF TInv
<1>2. k \in Task /\ k.seen = seen
      /\ k.service = old.service /\ k.left = old.left /\ k.last = old.last
  BY <1>1 DEF Task
<1>3. task' = [task EXCEPT ![r] = k] /\ at' = [at EXCEPT ![r] = a] /\ at[r] = from
  BY DEF Changes, Goes
<1>. HIDE DEF k
<1>. QED
  BY <1>1, <1>2, <1>3 DEF OneMoves

\* The end of a refresh: the request is done or sleeps before the delayed one.
Ends(r) ==
  /\ at' = [at EXCEPT ![r] = IF task[r].last THEN "done" ELSE "delayed"]
  /\ task' = [task EXCEPT ![r] = [@ EXCEPT !.seen = None, !.last = TRUE,
                                           !.left = IF task[r].last THEN 0 ELSE Delay]]

LEMMA EndsMoves ==
  ASSUME TInv, NEW r \in Requests, Ends(r)
  PROVE  \E k \in Task :
           /\ OneMoves(r, IF task[r].last THEN "done" ELSE "delayed", k)
           /\ k.last = TRUE /\ k.service = task[r].service
           /\ k.left = IF task[r].last THEN 0 ELSE Delay
<1>. DEFINE k == [task[r] EXCEPT !.seen = None, !.last = TRUE,
                                 !.left = IF task[r].last THEN 0 ELSE Delay]
<1>1. PICK old \in Task : old = task[r]
  BY DEF TInv
<1>2. /\ k \in Task /\ k.last = TRUE /\ k.service = old.service
      /\ k.left = IF old.last THEN 0 ELSE Delay
  BY <1>1, TicksFacts DEF Task
<1>3. OneMoves(r, IF task[r].last THEN "done" ELSE "delayed", k)
  BY DEF Ends, OneMoves
<1>. HIDE DEF k
<1>. QED
  BY <1>1, <1>2, <1>3

LEMMA TInvInit == Init => TInv
<1>. SUFFICES ASSUME Init PROVE TInv
  OBVIOUS
<1>1. NoTask \in Task
  BY DEF NoTask, Task, Services
<1>2. RouterOK /\ RoundsOK
  BY TicksFacts DEF Init, RouterOK, RoundsOK, Services
<1>3. RequestsOK
  BY <1>1 DEF Init, RequestsOK, Places, HasSeen
<1>. QED
  BY <1>2, <1>3, Parts

LEMMA TInvStep == TInv /\ [Next]_vars => TInv'
<1>. SUFFICES ASSUME TInv, [Next]_vars PROVE TInv'
  OBVIOUS
<1>0. RouterOK /\ RoundsOK /\ RequestsOK
  BY Parts
<1>. SUFFICES RouterOK' /\ RoundsOK' /\ RequestsOK'
  BY Parts, PTL
<1>a. UNCHANGED router => RouterOK'
  BY <1>0 DEF RouterOK, router
<1>b. UNCHANGED <<ntpSources, row, polls>> => RoundsOK'
  BY <1>0 DEF RoundsOK, polls
<1>c. UNCHANGED requests => RequestsOK'
  BY <1>0 DEF RequestsOK, requests
<1>d. NtpSeen \in SUBSET {"ntp"} /\ ServicesSeen \in SUBSET Services
  BY SeenTypes DEF TInv
<1>e. SUBSET {"ntp"} \subseteq SUBSET Services
  BY DEF Services
<1>1. CASE Tick
  <2>1. RouterOK'
    <3>1. pending \in [Services -> Nat] /\ age \in Nat /\ age <= Stale
      BY <1>0, TicksFacts DEF RouterOK
    <3>2. \A s \in Services : Less(pending[s]) \in Nat /\ Less(pending[s]) <= Lag[s]
      BY <1>0, <3>1, TicksFacts DEF RouterOK, Less
    <3>3. pending' \in [Services -> Nat] /\ \A s \in Services : pending'[s] <= Lag[s]
      BY <1>1, <3>2 DEF Tick
    <3>4. age' \in 0..Stale
      BY <1>1, <3>1, TicksFacts DEF Tick
    <3>. QED
      BY <1>0, <1>1, <3>3, <3>4 DEF Tick, RouterOK
  <2>2. RequestsOK'
    <3>1. ASSUME NEW r \in Requests
          PROVE  task'[r] \in Task /\ task'[r].seen = task[r].seen
      <4>1. PICK k \in Task : k = task[r]
        BY <1>0 DEF RequestsOK
      <4>2. task'[r] = [k EXCEPT !.left = Less(k.left)]
        BY <1>1, <4>1 DEF Tick
      <4>3. k.left \in Nat /\ Less(k.left) \in Nat
        BY <4>1 DEF Task, Less
      <4>. QED
        BY <4>1, <4>2, <4>3 DEF Task
    <3>2. task' \in [Requests -> Task]
      BY <1>1, <3>1 DEF Tick
    <3>. QED
      BY <1>0, <1>1, <3>1, <3>2 DEF Tick, RequestsOK, HasSeen
  <2>. QED
    BY <1>1, <1>b, <2>1, <2>2 DEF Tick
<1>2. ASSUME NEW s \in Services, Applies(s) PROVE RouterOK' /\ RoundsOK' /\ RequestsOK'
  <2>1. RouterOK'
    BY <1>0, <1>2 DEF RouterOK, Applies
  <2>. QED
    BY <1>2, <1>b, <1>c, <2>1 DEF Applies
<1>3. CASE PollSteps
  <2>1. CASE NtpPollStarts
    BY <1>0, <1>a, <1>c, <1>d, <2>1 DEF NtpPollStarts, RoundsOK
  <2>2. CASE NtpPollEnds
    <3>1. ntpPoll \in SUBSET {"ntp"} /\ NtpPublishes(ntpPoll)
      BY <1>0, <2>2 DEF NtpPollEnds, RoundsOK
    <3>2. ntpSources' \subseteq {"ntp"} /\ alone' \in [Requests -> BOOLEAN]
      BY <3>1, PublishesType
    <3>. QED
      BY <1>0, <1>a, <2>2, <3>2 DEF NtpPollEnds, RoundsOK, RequestsOK
  <2>3. CASE NodesPollStarts
    BY <1>0, <1>a, <1>c, <1>d, <2>3 DEF NodesPollStarts, RoundsOK
  <2>4. CASE NodesPollEnds
    BY <1>0, <1>a, <1>c, <2>4 DEF NodesPollEnds, RoundsOK
  <2>. QED
    BY <1>3, <2>1, <2>2, <2>3, <2>4 DEF PollSteps
<1>4. ASSUME NEW r \in Requests, NEW s \in Edits[r], NEW on \in BOOLEAN, Puts(r, s, on)
      PROVE  RouterOK' /\ RoundsOK' /\ RequestsOK'
  <2>1. s \in Services
    BY TicksAssumption
  <2>2. RouterOK'
    BY <1>0, <1>4, <2>1, TicksFacts DEF RouterOK, Puts
  <2>. DEFINE new == [service |-> s, left |-> Settle[s], seen |-> None, last |-> s = "ntp"]
  <2>3. PICK k \in Task : k = new
    <3>1. PICK last \in BOOLEAN : last = (s = "ntp")
      OBVIOUS
    <3>2. [service |-> s, left |-> Settle[s], seen |-> None, last |-> last] \in Task
      BY <2>1, TicksFacts DEF Task
    <3>. QED
      BY <3>1, <3>2
  <2>4. OneMoves(r, "settling", k) /\ "settling" \in Places /\ HasSeen("settling", k)
    BY <1>4, <2>3 DEF Puts, Goes, OneMoves, Places, HasSeen
  <2>5. RequestsOK'
    BY <1>4, <2>4, MovesType DEF Puts, RequestsOK
  <2>. QED
    BY <1>4, <1>b, <2>2, <2>5 DEF Puts
<1>5. ASSUME NEW r \in Requests, RequestSteps(r) PROVE RouterOK' /\ RoundsOK' /\ RequestsOK'
  <2>1. CASE Slept(r)
    <3>1. PICK k \in Task : k = task[r]
      BY <1>0 DEF RequestsOK
    <3>2. OneMoves(r, "ntp", k) /\ "ntp" \in Places /\ HasSeen("ntp", k)
      BY <1>0, <2>1, <3>1 DEF Slept, OneMoves, Places, HasSeen, RequestsOK
    <3>3. RequestsOK'
      BY <1>0, <2>1, <3>2, MovesType DEF Slept, RequestsOK
    <3>. QED
      BY <1>a, <1>b, <2>1, <3>3 DEF Slept
  <2>2. CASE AsksNtp(r)
    <3>1. PICK k \in Task : OneMoves(r, "asked", k) /\ k.seen = NtpSeen
      <4>1. PICK seen \in SUBSET Services : seen = NtpSeen
        BY <1>d, <1>e
      <4>2. Goes(r, "ntp", "asked") /\ Changes(r, "seen", seen)
        BY <2>2, <4>1 DEF AsksNtp
      <4>. QED
        BY <4>1, <4>2, SeenMoves
    <3>2. "asked" \in Places /\ HasSeen("asked", k)
      BY <1>d, <3>1 DEF Places, HasSeen
    <3>3. RequestsOK'
      BY <1>0, <2>2, <3>1, <3>2, MovesType DEF AsksNtp, RequestsOK
    <3>. QED
      BY <1>a, <1>b, <2>2, <3>3 DEF AsksNtp
  <2>3. CASE NtpRefreshed(r)
    <3>1. PICK k \in Task : OneMoves(r, "nodes", k)
      BY <2>3, SeenMoves DEF NtpRefreshed
    <3>2. "nodes" \in Places /\ HasSeen("nodes", k)
      BY DEF Places, HasSeen
    <3>3. task[r].seen \in SUBSET {"ntp"}
      BY <1>0, <2>3 DEF NtpRefreshed, Goes, RequestsOK, HasSeen
    <3>4. ntpSources' \subseteq {"ntp"} /\ alone' \in [Requests -> BOOLEAN]
      BY <2>3, <3>3, PublishesType DEF NtpRefreshed
    <3>5. RequestsOK'
      BY <3>1, <3>2, <3>4, MovesType DEF RequestsOK
    <3>6. RoundsOK'
      BY <1>0, <2>3, <3>4 DEF NtpRefreshed, RoundsOK, polls
    <3>. QED
      BY <1>a, <2>3, <3>5, <3>6 DEF NtpRefreshed
  <2>4. CASE AsksNodes(r)
    <3>1. PICK k \in Task : OneMoves(r, "probing", k) /\ k.seen = ServicesSeen
      BY <1>d, <2>4, SeenMoves DEF AsksNodes
    <3>2. "probing" \in Places /\ HasSeen("probing", k)
      BY <1>d, <3>1 DEF Places, HasSeen
    <3>3. RequestsOK'
      BY <1>0, <2>4, <3>1, <3>2, MovesType DEF AsksNodes, RequestsOK
    <3>. QED
      BY <1>a, <1>b, <2>4, <3>3 DEF AsksNodes
  <2>5. ASSUME Ends(r), alone' \in [Requests -> BOOLEAN] PROVE RequestsOK'
    <3>1. PICK k \in Task : OneMoves(r, IF task[r].last THEN "done" ELSE "delayed", k)
      BY <2>5, EndsMoves
    <3>2. PICK a \in {"done", "delayed"} : a = IF task[r].last THEN "done" ELSE "delayed"
      OBVIOUS
    <3>3. a \in Places /\ HasSeen(a, k) /\ OneMoves(r, a, k)
      BY <3>1, <3>2 DEF Places, HasSeen
    <3>. QED
      BY <2>5, <3>3, MovesType DEF RequestsOK
  <2>6. CASE NodesRefreshed(r)
    <3>1. Ends(r) /\ alone' = alone
      BY <2>6 DEF NodesRefreshed, Goes, Ends
    <3>2. RequestsOK'
      BY <1>0, <2>5, <3>1 DEF RequestsOK
    <3>3. task[r].seen \in SUBSET Services
      BY <1>0, <2>6 DEF NodesRefreshed, Goes, RequestsOK, HasSeen
    <3>4. RoundsOK'
      BY <1>0, <2>6, <3>3 DEF NodesRefreshed, RoundsOK, polls
    <3>. QED
      BY <1>a, <2>6, <3>2, <3>4 DEF NodesRefreshed
  <2>7. CASE KickFails(r)
    <3>1. alone' \in [Requests -> BOOLEAN]
      BY <1>0, <2>7 DEF KickFails, RequestsOK
    <3>2. CASE at[r] \in {"ntp", "asked"} /\ at' = [at EXCEPT ![r] = "nodes"]
               /\ Changes(r, "seen", None)
      <4>1. PICK k \in Task : OneMoves(r, "nodes", k)
        BY <3>2, SeenMoves DEF Goes
      <4>2. "nodes" \in Places /\ HasSeen("nodes", k)
        BY DEF Places, HasSeen
      <4>. QED
        BY <1>a, <1>b, <2>7, <3>1, <4>1, <4>2, MovesType DEF KickFails, RequestsOK
    <3>3. CASE Ends(r)
      BY <1>a, <1>b, <2>5, <2>7, <3>1, <3>3 DEF KickFails
    <3>. QED
      BY <2>7, <3>2, <3>3 DEF KickFails, Ends
  <2>. QED
    BY <1>5, <2>1, <2>2, <2>3, <2>4, <2>6, <2>7 DEF RequestSteps
<1>6. CASE UNCHANGED vars
  BY <1>6, <1>a, <1>b, <1>c DEF vars
<1>. QED
  BY <1>1, <1>2, <1>3, <1>4, <1>5, <1>6 DEF Next

\* The row, the services it is made of, the router and the refreshes in
\* progress keep their types for any requests and timers; what a round publishes
\* is always the answer of a service, never that of a round not begun.
THEOREM EdgeTypeCorrect == Spec => []TypeOK
<1>1. TInv => TypeOK
  BY DEF TInv
<1>. QED
  BY <1>1, TInvInit, TInvStep, PTL DEF Spec

-----------------------------------------------------------------------------
(* The last refresh of an edit.  What is left of its timers is compared with *)
(* what is left of the router's and of the freshness window: either the      *)
(* router has not applied the edit and more time is left than it needs, or it*)
(* has, and the sentences have come back or stopped in time.  Nothing of this*)
(* is said of a request that is not alone.                                   *)

\* The margins between the sleeps in routes.py, the window and the router.
TimersSuffice ==
  /\ Settle["gps"] + Delay > Lag["gps"] + Fresh
  /\ Settle["ntp"] > Lag["ntp"]

Applied(s) == s \in runs <=> s \in config
Rest(a, k) == (IF a \in {"settling", "delayed"} THEN k.left ELSE 0)
              + (IF k.last THEN 0 ELSE Delay)

GpsInTime(rest) ==
  /\ ~ Applied("gps") => rest > pending["gps"] + Fresh
  /\ Applied("gps") => IF "gps" \in config THEN age = 0 \/ rest > 0 ELSE age + rest >= Stale

NtpInTime(rest) == Applied("ntp") \/ rest > pending["ntp"]

Says(seen, s) == s \in seen <=> s \in config

SeesGps(a, k) ==
  /\ GpsInTime(Rest(a, k))
  /\ a = "probing" /\ k.last => Says(k.seen, "gps")

SeesNtp(a, k) ==
  /\ k.last
  /\ NtpInTime(Rest(a, k))
  /\ a = "asked" => k.seen = NtpSeen
  /\ a \in {"nodes", "probing"} => Says(ntpSources, "ntp")
  /\ a = "probing" => Says(k.seen, "ntp")

Sees(a, k) ==
  a \notin {"idle", "done"} =>
    IF k.service = "gps" THEN SeesGps(a, k) ELSE SeesNtp(a, k)

EInv ==
  /\ TInv
  /\ \A r \in Requests : alone[r] => Sees(at[r], task[r])

LEMMA RestType ==
  ASSUME NEW a \in Places, NEW k \in Task
  PROVE  /\ Rest(a, k) \in Nat /\ k.left \in Nat
         /\ a \notin {"settling", "delayed"} /\ k.last => Rest(a, k) = 0
  BY TicksFacts DEF Rest, Task

LEMMA Typed ==
  ASSUME TInv
  PROVE  /\ config \subseteq Services /\ runs \subseteq Services
         /\ pending["gps"] \in Nat /\ pending["ntp"] \in Nat /\ age \in Nat /\ age <= Stale
         /\ ntpSources \in SUBSET {"ntp"}
         /\ at \in [Requests -> Places] /\ task \in [Requests -> Task]
  BY Parts, TicksFacts DEF RouterOK, RoundsOK, RequestsOK, Services

\* No part of it is about anything but the router and the NTP service.
LEMMA SeesFrame ==
  ASSUME UNCHANGED <<config, runs, pending, age, ntpSources>>, NEW a, NEW k, Sees(a, k)
  PROVE  Sees(a, k)'
  BY DEF Sees, SeesGps, SeesNtp, GpsInTime, NtpInTime, Applied, Says, NtpSeen

\* A refresh of an NTP edit finds the edit applied.
LEMMA NtpApplied ==
  ASSUME TInv, NEW a \in {"ntp", "asked", "nodes", "probing"}, NEW k \in Task, SeesNtp(a, k)
  PROVE  Applied("ntp")
<1>1. Rest(a, k) = 0
  BY DEF SeesNtp, Rest
<1>2. NtpInTime(0)
  BY <1>1 DEF SeesNtp
<1>. QED
  BY <1>2, Typed DEF NtpInTime

\* The last refresh of a GPS edit finds the edit applied, and the sentences
\* fresh if and only if the router is to send them.
LEMMA GpsShows ==
  ASSUME TInv, NEW a \in {"ntp", "asked", "nodes", "probing"}, NEW k \in Task, k.last,
         SeesGps(a, k)
  PROVE  Says(ServicesSeen, "gps")
<1>1. Rest(a, k) = 0
  BY DEF Rest
<1>2. GpsInTime(0)
  BY <1>1 DEF SeesGps
<1>3. /\ pending["gps"] \in Nat /\ age \in Nat /\ Fresh \in Nat /\ Stale = Fresh + 1
      /\ "gps" \notin ntpSources
  BY Typed, TicksFacts DEF Stale
<1>4. Applied("gps")
  BY <1>2, <1>3 DEF GpsInTime
<1>5. "gps" \in config => age = 0
  BY <1>2, <1>4 DEF GpsInTime
<1>6. "gps" \notin config => age + 0 >= Stale
  BY <1>2, <1>4 DEF GpsInTime
<1>7. "gps" \in config <=> age <= Fresh
  BY <1>3, <1>5, <1>6
<1>. QED
  BY <1>3, <1>7 DEF ServicesSeen, Says

\* A round of the NTP service publishes; to a request that stays alone it is
\* up to date.
LEMMA SeesPublished ==
  ASSUME TInv, UNCHANGED <<config, runs, pending, age>>, NEW seen, NtpPublishes(seen),
         NEW a \in Places, NEW k \in Task, k.service = "ntp" => seen = NtpSeen, Sees(a, k)
  PROVE  Sees(a, k)'
<1>1. CASE k.service = "gps" \/ a \in {"idle", "done"}
  BY <1>1 DEF Sees, SeesGps, GpsInTime, Applied, Says
<1>2. CASE k.service = "ntp" /\ a \notin {"idle", "done"}
  <2>1. SeesNtp(a, k) /\ ntpSources' = NtpSeen
    BY <1>2 DEF Sees, NtpPublishes
  <2>2. a \in {"nodes", "probing"} => Says(ntpSources, "ntp")'
    BY <2>1, NtpApplied DEF Says, Applied, NtpSeen
  <2>3. SeesNtp(a, k)'
    BY <2>1, <2>2 DEF SeesNtp, NtpInTime, Applied, Says, NtpSeen
  <2>. QED
    BY <1>2, <2>3 DEF Sees
<1>. QED
  BY <1>1, <1>2 DEF Task, Services

\* A tick takes no more of the time that is left than of what is waited for.
LEMMA SeesTick ==
  ASSUME TInv, Tick, NEW a \in Places, NEW k \in Task, NEW l \in Task,
         l = [k EXCEPT !.left = Less(k.left)], Sees(a, k)
  PROVE  Sees(a, l)'
<1>1. /\ l.left = Less(k.left) /\ l.service = k.service /\ l.seen = k.seen /\ l.last = k.last
  BY DEF Task
<1>2. k.left \in Nat /\ Rest(a, k) \in Nat /\ Rest(a, l) \in Nat
  BY RestType
<1>3. PICK before \in Nat, after \in Nat :
        before = Rest(a, k) /\ after = Rest(a, l) /\ after >= before - 1
  BY <1>1, <1>2, TicksFacts DEF Rest, Less, Task
<1>4. /\ pending["gps"] \in Nat /\ pending["ntp"] \in Nat /\ age \in Nat
      /\ Fresh \in Nat /\ Stale = Fresh + 1 /\ age <= Stale
  BY Typed, TicksFacts DEF Stale
<1>5. /\ UNCHANGED <<config, runs, ntpSources>>
      /\ pending'["gps"] = Less(pending["gps"]) /\ pending'["ntp"] = Less(pending["ntp"])
      /\ Applied("gps") \/ pending["gps"] > 0
      /\ Applied("ntp") \/ pending["ntp"] > 0
      /\ age' = IF "gps" \in runs THEN 0 ELSE IF age < Stale THEN age + 1 ELSE Stale
  BY DEF Tick, Applied, Services
<1>6. Applied("gps")' = Applied("gps") /\ Applied("ntp")' = Applied("ntp")
  BY <1>5 DEF Applied
<1>7. CASE a \in {"idle", "done"}
  BY <1>7 DEF Sees
<1>8. CASE a \notin {"idle", "done"} /\ k.service = "gps"
  <2>1. GpsInTime(before) /\ SeesGps(a, k)
    BY <1>3, <1>8 DEF Sees, SeesGps
  <2>2. ASSUME ~ Applied("gps") PROVE GpsInTime(after)'
    <3>1. before > pending["gps"] + Fresh /\ pending["gps"] > 0
      BY <1>5, <2>1, <2>2 DEF GpsInTime
    <3>2. after > pending'["gps"] + Fresh
      BY <1>2, <1>3, <1>4, <1>5, <3>1 DEF Less
    <3>. QED
      BY <1>6, <2>2, <3>2 DEF GpsInTime
  <2>3. ASSUME Applied("gps") /\ "gps" \in config PROVE GpsInTime(after)'
    BY <1>5, <1>6, <2>3 DEF GpsInTime, Applied
  <2>4. ASSUME Applied("gps") /\ "gps" \notin config PROVE GpsInTime(after)'
    <3>1. age + before >= Stale /\ "gps" \notin runs
      BY <2>1, <2>4 DEF GpsInTime, Applied
    <3>2. age' + after >= Stale
      BY <1>2, <1>3, <1>4, <1>5, <3>1
    <3>. QED
      BY <1>5, <1>6, <2>4, <3>2 DEF GpsInTime, Stale
  <2>5. GpsInTime(after)'
    BY <2>2, <2>3, <2>4 DEF GpsInTime, Stale
  <2>6. SeesGps(a, l)'
    BY <1>1, <1>3, <1>5, <2>1, <2>5 DEF SeesGps, Says
  <2>. QED
    BY <1>1, <1>8, <2>6 DEF Sees
<1>9. CASE a \notin {"idle", "done"} /\ k.service = "ntp"
  <2>1. NtpInTime(before) /\ SeesNtp(a, k)
    BY <1>3, <1>9 DEF Sees, SeesNtp
  <2>2. Applied("ntp") \/ after > pending'["ntp"]
    BY <1>2, <1>3, <1>4, <1>5, <2>1 DEF NtpInTime, Less
  <2>3. NtpInTime(after)'
    BY <1>6, <2>2 DEF NtpInTime
  <2>4. SeesNtp(a, l)'
    BY <1>1, <1>3, <1>5, <2>1, <2>3 DEF SeesNtp, Says, NtpSeen
  <2>. QED
    BY <1>1, <1>9, <2>4 DEF Sees
<1>. QED
  BY <1>7, <1>8, <1>9 DEF Task, Services

\* The router applies an edit while time for it is left.
LEMMA SeesApplied ==
  ASSUME TInv, NEW s \in Services, Applies(s), NEW a \in Places, NEW k \in Task, Sees(a, k)
  PROVE  Sees(a, k)'
<1>1. /\ UNCHANGED <<config, pending, age, ntpSources>> /\ ~ Applied(s)
      /\ runs' = (runs \ {s}) \cup (config \cap {s})
  BY DEF Applies, Applied
<1>2. Applied(s)' /\ \A u \in Services \ {s} : u \in runs' <=> u \in runs
  BY <1>1 DEF Applied
<1>3. /\ pending["gps"] \in Nat /\ pending["ntp"] \in Nat /\ age \in Nat /\ Rest(a, k) \in Nat
      /\ Fresh \in Nat /\ Stale = Fresh + 1
  BY Typed, RestType, TicksFacts DEF Stale
<1>4. CASE a \in {"idle", "done"}
  BY <1>4 DEF Sees
<1>5. CASE a \notin {"idle", "done"} /\ k.service = "gps"
  <2>0. SeesGps(a, k) /\ GpsInTime(Rest(a, k))
    BY <1>5 DEF Sees, SeesGps
  <2>1. PICK rest \in Nat : rest = Rest(a, k)
    BY <1>3
  <2>2. GpsInTime(rest)'
    <3>1. CASE s = "gps"
      <4>1. rest > pending["gps"] + Fresh
        BY <1>1, <2>0, <2>1, <3>1 DEF GpsInTime
      <4>2. rest > 0 /\ age + rest >= Stale
        BY <1>3, <4>1
      <4>. QED
        BY <1>1, <1>2, <3>1, <4>2 DEF GpsInTime, Stale
    <3>2. CASE s = "ntp"
      <4>1. Applied("gps")' = Applied("gps")
        BY <1>1, <1>2, <3>2 DEF Applied, Services
      <4>. QED
        BY <1>1, <2>0, <2>1, <4>1 DEF GpsInTime, Stale
    <3>. QED
      BY <3>1, <3>2 DEF Services
  <2>3. SeesGps(a, k)'
    BY <1>1, <2>0, <2>1, <2>2 DEF SeesGps, Says
  <2>. QED
    BY <1>5, <2>3 DEF Sees
<1>6. CASE a \notin {"idle", "done"} /\ k.service = "ntp"
  <2>0. SeesNtp(a, k)
    BY <1>6 DEF Sees
  <2>1. CASE s = "ntp"
    <3>1. a \notin {"ntp", "asked", "nodes", "probing"}
      BY <1>1, <2>0, <2>1, NtpApplied
    <3>2. NtpInTime(Rest(a, k))'
      BY <1>2, <2>1 DEF NtpInTime
    <3>. QED
      BY <1>6, <2>0, <3>1, <3>2 DEF Sees, SeesNtp
  <2>2. CASE s = "gps"
    <3>1. Applied("ntp")' = Applied("ntp") /\ NtpSeen' = NtpSeen
      BY <1>1, <1>2, <2>2 DEF Applied, Services, NtpSeen
    <3>. QED
      BY <1>1, <1>6, <2>0, <3>1 DEF Sees, SeesNtp, NtpInTime, Says
  <2>. QED
    BY <2>1, <2>2 DEF Services
<1>. QED
  BY <1>4, <1>5, <1>6 DEF Task, Services

\* The PUT: the margins are what its timers start with.
LEMMA SeesPut ==
  ASSUME TInv, TimersSuffice, NEW r \in Requests, NEW s \in Services, NEW on \in BOOLEAN,
         Puts(r, s, on), NEW k \in Task,
         k = [service |-> s, left |-> Settle[s], seen |-> None, last |-> s = "ntp"]
  PROVE  Sees("settling", k)'
<1>1. /\ k.service = s /\ k.left = Settle[s] /\ k.last <=> s = "ntp"
  OBVIOUS
<1>2. /\ pending'[s] = Lag[s] /\ UNCHANGED <<runs, age>>
  BY Parts DEF Puts, RouterOK
<1>3. /\ Settle[s] \in Nat /\ Lag[s] \in Nat /\ Fresh \in Nat /\ Delay \in Nat
      /\ Stale = Fresh + 1 /\ age \in Nat
  BY TicksFacts, Typed DEF Stale
<1>4. CASE s = "gps"
  <2>1. PICK rest \in Nat : rest = Rest("settling", k) /\ rest = Settle["gps"] + Delay
    BY <1>1, <1>3, <1>4 DEF Rest
  <2>2. rest > Lag["gps"] + Fresh
    BY <2>1 DEF TimersSuffice
  <2>3. rest > 0 /\ age + rest >= Stale
    BY <1>3, <1>4, <2>2
  <2>4. GpsInTime(rest)'
    BY <1>2, <1>4, <2>2, <2>3 DEF GpsInTime, Stale
  <2>. QED
    BY <1>1, <1>4, <2>1, <2>4 DEF Sees, SeesGps
<1>5. CASE s = "ntp"
  <2>1. PICK rest \in Nat : rest = Rest("settling", k) /\ rest = Settle["ntp"]
    BY <1>1, <1>3, <1>5 DEF Rest
  <2>2. NtpInTime(rest)'
    BY <1>2, <1>5, <2>1 DEF NtpInTime, TimersSuffice
  <2>. QED
    BY <1>1, <1>5, <2>1, <2>2 DEF Sees, SeesNtp
<1>. QED
  BY <1>4, <1>5 DEF Services

\* The steps of a refresh that leave the services alone.
LEMMA SeesOwnStep ==
  ASSUME TInv, NEW a \in Places, NEW k \in Task, Sees(a, k), NEW b \in Places, NEW l \in Task,
         l.service = k.service,
         \/ /\ a \in {"settling", "delayed"} /\ k.left = 0 /\ b = "ntp" /\ l = k
         \/ /\ a = "ntp" /\ b = "asked" /\ l.last = k.last /\ l.seen = NtpSeen
         \/ /\ a = "nodes" /\ b = "probing" /\ l.last = k.last /\ l.seen = ServicesSeen
         \/ /\ a = "probing" /\ b = IF k.last THEN "done" ELSE "delayed"
            /\ l.last = TRUE /\ l.left = IF k.last THEN 0 ELSE Delay
  PROVE  Sees(b, l)
<1>1. a \notin {"idle", "done"}
  OBVIOUS
<1>2. /\ k.left \in Nat /\ l.left \in Nat /\ Delay \in Nat /\ k.last \in BOOLEAN
      /\ k.service \in Services
  BY TicksFacts DEF Task
<1>3. b = "done" \/ Rest(b, l) = Rest(a, k)
  BY <1>2 DEF Rest
<1>4. CASE k.service = "gps"
  <2>1. SeesGps(a, k)
    BY <1>1, <1>4 DEF Sees
  <2>2. b = "probing" /\ l.last => Says(l.seen, "gps")
    BY <2>1, GpsShows
  <2>. QED
    BY <1>3, <1>4, <2>1, <2>2 DEF Sees, SeesGps
<1>5. CASE k.service = "ntp"
  <2>1. SeesNtp(a, k)
    BY <1>1, <1>5 DEF Sees, Services
  <2>2. k.last /\ l.last
    BY <2>1 DEF SeesNtp
  <2>3. b = "probing" => Says(ntpSources, "ntp") /\ Says(l.seen, "ntp")
    BY <2>1 DEF SeesNtp, ServicesSeen, Says
  <2>4. b # "nodes" /\ (b = "asked" => l.seen = NtpSeen)
    OBVIOUS
  <2>. QED
    BY <1>3, <1>5, <2>1, <2>2, <2>3, <2>4 DEF Sees, SeesNtp
<1>. QED
  BY <1>2, <1>4, <1>5 DEF Services

\* The request's own NTP round publishes what it has seen.
LEMMA SeesRefreshed ==
  ASSUME TInv, UNCHANGED <<config, runs, pending, age>>, NEW k \in Task, NEW l \in Task,
         NtpPublishes(k.seen), Sees("asked", k), l.service = k.service, l.last = k.last
  PROVE  Sees("nodes", l)'
<1>1. Rest("nodes", l) = Rest("asked", k)
  BY DEF Rest
<1>2. CASE k.service = "gps"
  BY <1>1, <1>2 DEF Sees, SeesGps, GpsInTime, Applied
<1>3. CASE k.service = "ntp"
  <2>1. SeesNtp("asked", k) /\ ntpSources' = NtpSeen
    BY <1>3 DEF Sees, SeesNtp, NtpPublishes
  <2>2. Says(ntpSources, "ntp")'
    BY <2>1, NtpApplied DEF Says, Applied, NtpSeen
  <2>3. SeesNtp("nodes", l)'
    BY <1>1, <2>1, <2>2 DEF SeesNtp, NtpInTime, Applied
  <2>. QED
    BY <1>3, <2>3 DEF Sees
<1>. QED
  BY <1>2, <1>3 DEF Task, Services

\* What is true of a request that stays alone.
LEMMA AloneStep ==
  ASSUME EInv, TimersSuffice, [Next]_vars, NEW r \in Requests, alone'[r],
         NEW b \in Places, b = at'[r], NEW l \in Task, l = task'[r]
  PROVE  Sees(b, l)'
<1>0. TInv
  BY DEF EInv
<1>1. PICK a \in Places : a = at[r]
  BY <1>0, Typed
<1>2. PICK k \in Task : k = task[r]
  BY <1>0, Typed
<1>3. /\ at \in [Requests -> Places] /\ task \in [Requests -> Task]
      /\ alone \in [Requests -> BOOLEAN]
  BY <1>0, Parts DEF RequestsOK
<1>4. alone[r] => Sees(a, k)
  BY <1>1, <1>2 DEF EInv
<1>5. CASE Tick
  <2>1. alone[r] /\ b = a /\ l = [k EXCEPT !.left = Less(k.left)]
    BY <1>1, <1>2, <1>3, <1>5 DEF Tick
  <2>. QED
    BY <1>0, <1>4, <1>5, <2>1, SeesTick
<1>6. ASSUME NEW s \in Services, Applies(s) PROVE Sees(b, l)'
  <2>1. alone[r] /\ b = a /\ l = k
    BY <1>1, <1>2, <1>6 DEF Applies, requests
  <2>. QED
    BY <1>0, <1>4, <1>6, <2>1, SeesApplied
<1>7. ASSUME NEW seen, NtpPublishes(seen), UNCHANGED router
      PROVE  alone[r] /\ (k.service = "ntp" => seen = NtpSeen) /\ (b = a /\ l = k => Sees(b, l)')
  <2>1. alone[r] /\ (k.service = "ntp" => seen = NtpSeen)
    BY <1>2, <1>7 DEF NtpPublishes
  <2>2. Sees(a, k)'
    BY <1>0, <1>4, <1>7, <2>1, SeesPublished DEF router
  <2>. QED
    BY <2>1, <2>2
<1>8. ASSUME UNCHANGED <<router, ntpSources, requests>> PROVE Sees(b, l)'
  <2>1. alone[r] /\ b = a /\ l = k
    BY <1>1, <1>2, <1>8 DEF requests
  <2>. QED
    BY <1>4, <1>8, <2>1, SeesFrame DEF router
<1>9. CASE PollSteps
  <2>1. CASE NtpPollEnds
    <3>1. NtpPublishes(ntpPoll) /\ UNCHANGED router /\ b = a /\ l = k
      BY <1>1, <1>2, <2>1 DEF NtpPollEnds
    <3>. QED
      BY <1>7, <3>1
  <2>2. CASE NtpPollStarts \/ NodesPollStarts \/ NodesPollEnds
    BY <1>8, <2>2 DEF NtpPollStarts, NodesPollStarts, NodesPollEnds
  <2>. QED
    BY <1>9, <2>1, <2>2 DEF PollSteps
<1>10. ASSUME NEW q \in Requests, NEW s \in Edits[q], NEW on \in BOOLEAN, Puts(q, s, on)
       PROVE  Sees(b, l)'
  <2>1. q = r
    BY <1>10 DEF Puts
  <2>2. b = "settling" /\ s \in Services
        /\ l = [service |-> s, left |-> Settle[s], seen |-> None, last |-> s = "ntp"]
    BY <1>3, <1>10, <2>1, TicksAssumption DEF Puts, Goes
  <2>. QED
    BY <1>0, <1>10, <2>2, SeesPut
<1>11. ASSUME NEW q \in Requests, RequestSteps(q), q # r PROVE Sees(b, l)'
  <2>1. b = a /\ l = k /\ UNCHANGED router
    BY <1>1, <1>2, <1>3, <1>11 DEF RequestSteps, Slept, AsksNtp, NtpRefreshed, AsksNodes,
         NodesRefreshed, KickFails, Goes, Changes
  <2>2. CASE NtpRefreshed(q)
    BY <1>7, <2>1, <2>2 DEF NtpRefreshed
  <2>3. CASE ~ NtpRefreshed(q)
    <3>1. UNCHANGED ntpSources /\ alone[r]
      BY <1>3, <1>11, <2>3 DEF RequestSteps, Slept, AsksNtp, AsksNodes, NodesRefreshed, KickFails
    <3>. QED
      BY <1>4, <2>1, <3>1, SeesFrame DEF router
  <2>. QED
    BY <2>2, <2>3
<1>12. ASSUME RequestSteps(r) PROVE Sees(b, l)'
  <2>1. ~ KickFails(r)
    BY <1>3 DEF KickFails
  <2>2. CASE NtpRefreshed(r)
    <3>1. a = "asked" /\ b = "nodes" /\ NtpPublishes(k.seen) /\ UNCHANGED router
      BY <1>1, <1>2, <1>3, <2>2 DEF NtpRefreshed, Goes
    <3>2. l.service = k.service /\ l.last = k.last
      <4>1. "nodes" \in Places /\ None \in {None} \cup SUBSET Services
        BY DEF Places
      <4>2. PICK m \in Task : /\ OneMoves(r, "nodes", m) /\ m.service = task[r].service
                              /\ m.last = task[r].last
        BY <1>0, <2>2, <4>1, SeenMoves DEF NtpRefreshed
      <4>. QED
        BY <1>2, <1>3, <4>2 DEF OneMoves
    <3>. QED
      BY <1>0, <1>4, <1>7, <3>1, <3>2, SeesRefreshed DEF router
  <2>3. CASE Slept(r) \/ AsksNtp(r) \/ AsksNodes(r) \/ NodesRefreshed(r)
    <3>1. alone[r] /\ UNCHANGED <<config, runs, pending, age, ntpSources>>
      BY <2>3 DEF Slept, AsksNtp, AsksNodes, NodesRefreshed, router
    <3>2. Sees(a, k)
      BY <1>4, <3>1
    <3>3. Sees(b, l)
      <4>1. CASE Slept(r)
        <5>1. /\ a \in {"settling", "delayed"} /\ k.left = 0 /\ b = "ntp" /\ l = k
          BY <1>1, <1>2, <1>3, <4>1 DEF Slept
        <5>. QED
          BY <1>0, <3>2, <5>1, SeesOwnStep
      <4>2. CASE AsksNtp(r)
        <5>1. NtpSeen \in {None} \cup SUBSET Services
          BY <1>0, SeenTypes DEF TInv, Services
        <5>2. PICK seen \in {None} \cup SUBSET Services : seen = NtpSeen
          BY <5>1
        <5>3. Goes(r, "ntp", "asked") /\ Changes(r, "seen", seen)
          BY <4>2, <5>2 DEF AsksNtp
        <5>4. PICK m \in Task : /\ OneMoves(r, "asked", m) /\ m.seen = seen /\ at[r] = "ntp"
                                /\ m.service = task[r].service /\ m.last = task[r].last
          BY <1>0, <5>3, SeenMoves
        <5>5. b = "asked" /\ l = m
          BY <1>3, <5>4 DEF OneMoves
        <5>6. /\ a = "ntp" /\ b = "asked" /\ l.last = k.last /\ l.seen = NtpSeen
              /\ l.service = k.service
          BY <1>1, <1>2, <5>2, <5>4, <5>5
        <5>. QED
          BY <1>0, <3>2, <5>6, SeesOwnStep
      <4>3. CASE AsksNodes(r)
        <5>1. ServicesSeen \in {None} \cup SUBSET Services
          BY <1>0, SeenTypes DEF TInv
        <5>2. PICK seen \in {None} \cup SUBSET Services : seen = ServicesSeen
          BY <5>1
        <5>3. Goes(r, "nodes", "probing") /\ Changes(r, "seen", seen)
          BY <4>3, <5>2 DEF AsksNodes
        <5>4. PICK m \in Task : /\ OneMoves(r, "probing", m) /\ m.seen = seen /\ at[r] = "nodes"
                                /\ m.service = task[r].service /\ m.last = task[r].last
          BY <1>0, <5>3, SeenMoves
        <5>5. b = "probing" /\ l = m
          BY <1>3, <5>4 DEF OneMoves
        <5>6. /\ a = "nodes" /\ b = "probing" /\ l.last = k.last /\ l.seen = ServicesSeen
              /\ l.service = k.service
          BY <1>1, <1>2, <5>2, <5>4, <5>5
        <5>. QED
          BY <1>0, <3>2, <5>6, SeesOwnStep
      <4>4. CASE NodesRefreshed(r)
        <5>1. Ends(r) /\ at[r] = "probing"
          BY <4>4 DEF NodesRefreshed, Goes, Ends
        <5>2. PICK m \in Task :
                /\ OneMoves(r, IF task[r].last THEN "done" ELSE "delayed", m)
                /\ m.last = TRUE /\ m.service = task[r].service
                /\ m.left = IF task[r].last THEN 0 ELSE Delay
          BY <1>0, <5>1, EndsMoves
        <5>3. b = (IF k.last THEN "done" ELSE "delayed") /\ l = m
          BY <1>2, <1>3, <5>2 DEF OneMoves
        <5>4. /\ a = "probing" /\ l.service = k.service /\ l.last = TRUE
              /\ l.left = IF k.last THEN 0 ELSE Delay
          BY <1>1, <1>2, <5>1, <5>2, <5>3
        <5>. QED
          BY <1>0, <3>2, <5>3, <5>4, SeesOwnStep
      <4>. QED
        BY <2>3, <4>1, <4>2, <4>3, <4>4
    <3>. QED
      BY <3>1, <3>3, SeesFrame
  <2>. QED
    BY <1>12, <2>1, <2>2, <2>3 DEF RequestSteps
<1>13. UNCHANGED vars => UNCHANGED <<router, ntpSources, requests>>
  BY DEF vars
<1>. QED
  BY <1>5, <1>6, <1>8, <1>9, <1>10, <1>11, <1>12, <1>13 DEF Next

LEMMA EInvInit == Init => EInv
  BY TInvInit DEF Init, EInv, Sees

LEMMA EInvStep ==
  ASSUME TimersSuffice
  PROVE  EInv /\ [Next]_vars => EInv'
<1>. SUFFICES ASSUME EInv, [Next]_vars PROVE EInv'
  OBVIOUS
<1>1. TInv'
  BY TInvStep DEF EInv
<1>2. ASSUME NEW r \in Requests, alone'[r] PROVE Sees(at[r], task[r])'
  <2>1. at' \in [Requests -> Places] /\ task' \in [Requests -> Task]
    BY <1>1 DEF TInv, TypeOK, Places
  <2>2. PICK b \in Places, l \in Task : b = at'[r] /\ l = task'[r]
    BY <2>1
  <2>3. Sees(b, l)'
    BY <1>2, <2>2, AloneStep
  <2>. QED
    BY <2>2, <2>3 DEF Sees, SeesGps, SeesNtp, GpsInTime, NtpInTime, Rest, Says, Applied
<1>. QED
  BY <1>1, <1>2 DEF EInv

\* With the sleeps in routes.py longer than the router and the freshness window
\* together, the row an edit's last refresh publishes is right, however the
\* rounds of the polls and of other refreshes overlap, for any number of edits:
\* unless another edit follows, a kick fails or a stale NTP round comes after it.
THEOREM LastRefreshShowsEdit == TimersSuffice => (Spec => EditIsShown)
<1>. SUFFICES ASSUME TimersSuffice PROVE Spec => EditIsShown
  OBVIOUS
<1>1. EInv /\ [Next]_vars =>
        [\A r \in Requests :
           at[r] = "probing" /\ at'[r] = "done" /\ alone'[r] =>
             (task[r].service \in row' <=> task[r].service \in config)]_vars
  <2>. SUFFICES ASSUME EInv, [Next]_vars, NEW r \in Requests,
                       at[r] = "probing", at'[r] = "done", alone'[r]
                PROVE  task[r].service \in row' <=> task[r].service \in config
    OBVIOUS
  <2>0. at \in [Requests -> Places] /\ task[r] \in Task /\ alone \in [Requests -> BOOLEAN]
    BY Parts DEF EInv, RequestsOK
  <2>1. NodesRefreshed(r)
    <3>1. ~ UNCHANGED at
      OBVIOUS
    <3>2. ASSUME NEW q \in Requests, NEW s, NEW on, Puts(q, s, on) PROVE FALSE
      BY <2>0, <3>2 DEF Puts, Goes
    <3>3. ASSUME NEW q \in Requests, RequestSteps(q) PROVE q = r /\ NodesRefreshed(q)
      BY <2>0, <3>3 DEF RequestSteps, Slept, AsksNtp, NtpRefreshed, AsksNodes,
         NodesRefreshed, KickFails, Goes
    <3>. QED
      BY <3>1, <3>2, <3>3 DEF Next, Tick, Applies, PollSteps, NtpPollStarts, NtpPollEnds,
         NodesPollStarts, NodesPollEnds, requests, vars
  <2>2. row' = task[r].seen /\ task[r].last /\ alone[r]
    BY <2>0, <2>1 DEF NodesRefreshed, Goes
  <2>3. Sees("probing", task[r])
    BY <2>2 DEF EInv
  <2>4. Says(task[r].seen, task[r].service)
    BY <2>0, <2>2, <2>3 DEF Sees, SeesGps, SeesNtp, Task, Services
  <2>. QED
    BY <2>2, <2>4 DEF Says
<1>. QED
  BY <1>1, EInvInit, EInvStep, PTL DEF Spec, EditIsShown
=============================================================================
