---------------------------- MODULE NodesRegistry ----------------------------
(***************************************************************************)
(* The nodes service: services/nodes/app/main.py.                          *)
(*                                                                         *)
(* A JSON file of entries is the source of truth.  Probe rounds read the   *)
(* file, await the probes one entry at a time, and replace the in-memory   *)
(* cache.  Rounds run as asyncio tasks of one event loop: the poll loop    *)
(* and one per POST / PATCH / DELETE / refresh request, so they overlap at *)
(* every await.  GET handlers are plain functions: FastAPI runs them in    *)
(* threads, so they also interleave between _STATE.clear() and             *)
(* _STATE.update(), where no other task can.                               *)
(*                                                                         *)
(* An action is one run of the event loop from an await to the next, or    *)
(* one bytecode-level step of a reader thread.  An entry is abstracted to  *)
(* its identity in Entries; the list order of the file is not kept, so a   *)
(* round may probe its entries in any order.                               *)
(***************************************************************************)
EXTENDS Naturals, Sequences

CONSTANTS
  Nodes,        (* node ids                                               *)
  Entries,      (* contents an entry of the file may have                 *)
  Absent,       (* no entry                                               *)
  Corrupt,      (* a file that _load_config rejects, or no file           *)
  Poll,         (* the task of the poll loop                              *)
  Requests,     (* tasks of mutating requests, each serving one request   *)
  Readers,      (* threads of GET requests, each serving one request      *)
  MaxTime,      (* bound: time.time() stops growing here                  *)
  MaxUpsets     (* bound: crashes and edits of the file by an operator    *)

ASSUME RegistryAssumption ==
  /\ Absent \notin Entries
  /\ Corrupt \notin [Nodes -> Entries \cup {Absent}]
  /\ Poll \notin Requests
  /\ MaxTime \in Nat \ {0}
  /\ MaxUpsets \in Nat

VARIABLES
  file,         (* nodes.json                                             *)
  history,      (* every configuration the file has held, oldest first    *)
  cache,        (* _STATE                                                 *)
  configError,  (* _CONFIG_ERROR is not None                              *)
  lastRefresh,  (* _LAST_REFRESH_AT                                       *)
  clock,        (* time.time()                                            *)
  serving,      (* the initial round is over, requests are accepted       *)
  round,        (* per task: the locals of _refresh_round                 *)
  overtaken,    (* rounds during which another round was published        *)
  acked,        (* position in history of the last acknowledged write     *)
  reader,       (* per reader thread: where it is and what it has read    *)
  faults, edits

vars == <<file, history, cache, configError, lastRefresh, clock, serving,
          round, overtaken, acked, reader, faults, edits>>

Tasks == {Poll} \cup Requests
Time == 0..MaxTime                        \* 0 is None
Config == [Nodes -> Entries \cup {Absent}]
Status == [entry: Entries, probedAt: Time, okAt: Time, firstSeen: Time]
Cache == [Nodes -> Status \cup {Absent}]
ASSUME StatusAssumption == Absent \notin Status
EmptyConfig == [n \in Nodes |-> Absent]
EmptyCache == [n \in Nodes |-> Absent]

\* The ids and entries a cache lists, without the probe results.
Listed(c) == [n \in Nodes |-> IF c[n] = Absent THEN Absent ELSE c[n].entry]

\* "idle": between two polls, or a request not yet received.
\* "context": in _fetch_context.  "probing": awaiting the probe of `node`.
\* "cleared": between _STATE.clear() and _STATE.update().
\* "done": the request is answered; "lost": it died with the process.
Where == {"idle", "context", "probing", "cleared", "done", "lost"}
Round == [at: Where, entries: Config, base: Nat, writes: BOOLEAN, now: Time,
          node: Nodes \cup {Absent}, prev: Status \cup {Absent},
          composed: Cache]

\* The locals of a task that is `place` with the entries of commit `base`.
Locals(place, content, base, writes) ==
  [at |-> place, entries |-> content, base |-> base, writes |-> writes,
   now |-> 0, node |-> Absent, prev |-> Absent, composed |-> EmptyCache]
At(place) == Locals(place, EmptyConfig, 0, FALSE)

InFlight == {t \in Tasks : round[t].at \in {"context", "probing", "cleared"}}
\* No task is between clear() and update(): the event loop can run another.
LoopFree == \A t \in Tasks : round[t].at # "cleared"

\* "listed": current() has answered; "answered": one() has answered for `node`.
Reader == [at: {"idle", "listed", "answered"}, node: Nodes \cup {Absent},
           listed: Config]
NoAnswer == [at |-> "idle", node |-> Absent, listed |-> EmptyConfig]

Init ==
  /\ file \in Config
  /\ history = <<file>>
  /\ cache = EmptyCache
  /\ configError = FALSE
  /\ lastRefresh = 0
  /\ clock = 0
  /\ serving = FALSE
  /\ round = [t \in Tasks |-> At("idle")]
  /\ overtaken = {}
  /\ acked = 0
  /\ reader = [d \in Readers |-> NoAnswer]
  /\ faults = 0
  /\ edits = 0

-----------------------------------------------------------------------------
(* One probe round *)

\* A round is over: the poll loop sleeps, a request is answered.
Over(t) == IF t = Poll THEN At("idle") ELSE At("done")

\* _refresh_round up to its first await, after the file reads `content`.
BeginRound(t, content, log, writes) ==
  /\ configError' = FALSE
  /\ round' = [round EXCEPT ![t] = Locals("context", content, Len(log), writes)]
  /\ overtaken' = overtaken \ {t}

\* Wrong variant: the poll loop re-probes what the cache lists, it reads the
\* file only when the cache is empty.
LoadCached(t) ==
  /\ LoopFree
  /\ round[t].at = "idle"
  /\ t = Poll \/ serving
  /\ file # Corrupt
  /\ BeginRound(t, IF t = Poll /\ cache # EmptyCache THEN Listed(cache) ELSE file,
                history, FALSE)
  /\ UNCHANGED <<file, history, cache, lastRefresh, clock, serving, acked,
                 reader, faults, edits>>

\* The poll loop wakes up, or POST /nodes/refresh arrives, and the file loads.
Load(t) ==
  /\ LoopFree
  /\ round[t].at = "idle"
  /\ t = Poll \/ serving
  /\ file # Corrupt
  /\ BeginRound(t, file, history, FALSE)
  /\ UNCHANGED <<file, history, cache, lastRefresh, clock, serving, acked,
                 reader, faults, edits>>

\* The file does not load: the round records the error and keeps the cache.
LoadFails(t) ==
  /\ LoopFree
  /\ round[t].at = "idle"
  /\ t = Poll \/ serving
  /\ file = Corrupt
  /\ configError' = TRUE
  /\ round' = [round EXCEPT ![t] = Over(t)]
  /\ serving' = (serving \/ t = Poll)
  /\ UNCHANGED <<file, history, cache, lastRefresh, clock, overtaken, acked,
                 reader, faults, edits>>

\* Wrong variant: _STATE.update() without _STATE.clear(), deleted nodes stay.
NextEntryNoClear(t, r) ==
  LET left == {n \in Nodes : r.entries[n] # Absent /\ r.composed[n] = Absent}
      merged == [n \in Nodes |-> IF r.composed[n] = Absent THEN cache[n] ELSE r.composed[n]]
  IN /\ UNCHANGED cache
     /\ \/ \E n \in left :
             round' = [round EXCEPT ![t] =
               [r EXCEPT !.at = "probing", !.node = n, !.prev = cache[n]]]
        \/ /\ left = {}
           /\ round' = [round EXCEPT ![t] =
                [r EXCEPT !.at = "cleared", !.node = Absent, !.prev = Absent,
                          !.composed = merged]]

\* Take the next entry of the round, reading its previous status before the
\* probe is awaited; with no entry left, clear the cache.
NextEntry(t, r) ==
  LET left == {n \in Nodes : r.entries[n] # Absent /\ r.composed[n] = Absent}
  IN \/ /\ left # {}
        /\ \E n \in left :
             round' = [round EXCEPT ![t] =
               [r EXCEPT !.at = "probing", !.node = n, !.prev = cache[n]]]
        /\ UNCHANGED cache
     \/ /\ left = {}
        /\ round' = [round EXCEPT ![t] =
             [r EXCEPT !.at = "cleared", !.node = Absent, !.prev = Absent]]
        /\ cache' = EmptyCache

\* _fetch_context returned (it never fails): the round takes its timestamp.
ContextReady(t) ==
  /\ LoopFree
  /\ round[t].at = "context"
  /\ clock' = IF clock < MaxTime THEN clock + 1 ELSE clock
  /\ NextEntry(t, [round[t] EXCEPT !.now = clock'])
  /\ UNCHANGED <<file, history, configError, lastRefresh, serving, overtaken,
                 acked, reader, faults, edits>>

\* Wrong variant: a failed probe forgets the previous status.
ComposeForgets(r, ok) ==
  [entry |-> r.entries[r.node],
   probedAt |-> r.now,
   okAt |-> IF ok THEN r.now ELSE 0,
   firstSeen |-> IF r.prev = Absent THEN r.now ELSE r.prev.firstSeen]

\* Wrong variant: first_seen_at is the time of this round.
ComposeAnew(r, ok) ==
  [entry |-> r.entries[r.node],
   probedAt |-> r.now,
   okAt |-> IF ok THEN r.now ELSE IF r.prev = Absent THEN 0 ELSE r.prev.okAt,
   firstSeen |-> r.now]

\* Wrong variant: an entry that never answered gets no last_ok_at at all.
ComposePartly(r, ok) ==
  [entry |-> r.entries[r.node],
   probedAt |-> r.now,
   okAt |-> IF ok THEN r.now ELSE r.prev,
   firstSeen |-> IF r.prev = Absent THEN r.now ELSE r.prev.firstSeen]

\* The status of an entry after its probe: main.py composes it from the entry,
\* the probe's verdict and the status the cache had when the probe began.
Compose(r, ok) ==
  LET fresh == r.prev = Absent
  IN [entry |-> r.entries[r.node],
      probedAt |-> r.now,
      okAt |-> IF ok THEN r.now ELSE IF fresh THEN 0 ELSE r.prev.okAt,
      firstSeen |-> IF fresh THEN r.now ELSE r.prev.firstSeen]

\* The probe of r.node returned or raised (raising counts as not ok).
ProbeReturns(t, ok) ==
  /\ LoopFree
  /\ round[t].at = "probing"
  /\ NextEntry(t, [round[t] EXCEPT
       !.composed[round[t].node] = Compose(round[t], ok)])
  /\ UNCHANGED <<file, history, configError, lastRefresh, clock, serving,
                 overtaken, acked, reader, faults, edits>>

\* _STATE.update(new_state); the request that ran the round is answered.
Publish(t) ==
  /\ round[t].at = "cleared"
  /\ cache' = round[t].composed
  /\ lastRefresh' = round[t].now
  /\ round' = [round EXCEPT ![t] = Over(t)]
  /\ overtaken' = (overtaken \cup InFlight) \ {t}
  /\ acked' = IF round[t].writes /\ round[t].base > acked THEN round[t].base ELSE acked
  /\ serving' = (serving \/ t = Poll)
  /\ UNCHANGED <<file, history, configError, clock, reader, faults, edits>>

-----------------------------------------------------------------------------
(* Mutating requests *)

\* A request may be served: the event loop is free and startup is over.
Receives(r) ==
  /\ LoopFree
  /\ serving
  /\ round[r].at = "idle"

\* _save_config and, with no await in between, the start of the probe round.
Save(r, content) ==
  /\ file' = content
  /\ history' = Append(history, content)
  /\ BeginRound(r, content, history', TRUE)
  /\ UNCHANGED <<cache, lastRefresh, clock, serving, acked, reader, faults, edits>>

\* The write raises OSError: before the file is truncated, or after.
SaveFails(r) ==
  /\ file' \in {file, Corrupt}
  /\ round' = [round EXCEPT ![r] = At("done")]
  /\ UNCHANGED <<history, cache, configError, lastRefresh, clock, serving,
                 overtaken, acked, reader, faults, edits>>

\* Answered with an error before anything is written: 400, 404, 409, or 500
\* when the file does not load.
Rejected(r) ==
  /\ round' = [round EXCEPT ![r] = At("done")]
  /\ UNCHANGED <<file, history, cache, configError, lastRefresh, clock, serving,
                 overtaken, acked, reader, faults, edits>>

\* Wrong variant: a file that does not load counts as an empty registry.
CreateNodeAnyway(r, n, e) ==
  /\ Receives(r)
  /\ LET entries == IF file = Corrupt THEN EmptyConfig ELSE file
     IN IF entries[n] = Absent
        THEN Save(r, [entries EXCEPT ![n] = e]) \/ SaveFails(r) \/ Rejected(r)
        ELSE Rejected(r)

CreateNode(r, n, e) ==
  /\ Receives(r)
  /\ IF file # Corrupt /\ file[n] = Absent
     THEN Save(r, [file EXCEPT ![n] = e]) \/ SaveFails(r) \/ Rejected(r)
     ELSE Rejected(r)

\* Wrong variant: the remaining entries are taken from the cache, not the file.
DeleteNodeFromCache(r, n) ==
  /\ Receives(r)
  /\ IF file # Corrupt /\ file[n] # Absent
     THEN Save(r, [Listed(cache) EXCEPT ![n] = Absent]) \/ SaveFails(r)
     ELSE Rejected(r)

DeleteNode(r, n) ==
  /\ Receives(r)
  /\ IF file # Corrupt /\ file[n] # Absent
     THEN Save(r, [file EXCEPT ![n] = Absent]) \/ SaveFails(r)
     ELSE Rejected(r)

PatchOne(r, n, e) ==
  /\ Receives(r)
  /\ IF file # Corrupt /\ file[n] # Absent
     THEN Save(r, [file EXCEPT ![n] = e]) \/ SaveFails(r) \/ Rejected(r)
     ELSE Rejected(r)

-----------------------------------------------------------------------------
(* Reader threads *)

\* GET /nodes/current: list(_STATE.values()).  The timestamp and the error flag
\* of the answer are read after it and are not kept.
ListNodes(d) ==
  /\ serving
  /\ reader[d].at = "idle"
  /\ reader' = [reader EXCEPT ![d] = [@ EXCEPT !.at = "listed", !.listed = Listed(cache)]]
  /\ UNCHANGED <<file, history, cache, configError, lastRefresh, clock, serving,
                 round, overtaken, acked, faults, edits>>

\* GET /nodes/{id}: the status, or 404 when the id is not in _STATE.  The test and
\* the lookup have no call between them, so the thread cannot be switched there.
GetNode(d, n) ==
  /\ serving
  /\ reader[d].at = "idle"
  /\ reader' = [reader EXCEPT ![d] = [@ EXCEPT
       !.at = "answered", !.node = n, !.listed[n] = Listed(cache)[n]]]
  /\ UNCHANGED <<file, history, cache, configError, lastRefresh, clock, serving,
                 round, overtaken, acked, faults, edits>>

-----------------------------------------------------------------------------
(* The process and the operator *)

\* The process dies and is restarted with an empty cache; requests in flight
\* are lost.  Dying inside _save_config leaves a truncated file.
Crash ==
  /\ faults + edits < MaxUpsets
  /\ faults' = faults + 1
  /\ file' \in IF serving /\ \E r \in Requests : round[r].at = "idle"
               THEN {file, Corrupt} ELSE {file}
  /\ cache' = EmptyCache
  /\ configError' = FALSE
  /\ lastRefresh' = 0
  /\ serving' = FALSE
  /\ round' = [t \in Tasks |-> IF t \in InFlight \ {Poll} THEN At("lost")
                               ELSE IF t = Poll THEN At("idle") ELSE round[t]]
  /\ overtaken' = {}
  /\ reader' = [d \in Readers |-> NoAnswer]
  /\ UNCHANGED <<history, clock, acked, edits>>

\* An operator edits nodes.json on the mounted volume; the next round reads it.
EditFile ==
  /\ faults + edits < MaxUpsets
  /\ edits' = edits + 1
  /\ \/ \E c \in Config : file' = c /\ history' = Append(history, c)
     \/ file' = Corrupt /\ UNCHANGED history
  /\ UNCHANGED <<cache, configError, lastRefresh, clock, serving, round,
                 overtaken, acked, reader, faults>>

-----------------------------------------------------------------------------
RoundStep(t) ==
  \/ Load(t)
  \/ LoadFails(t)
  \/ ContextReady(t)
  \/ \E ok \in BOOLEAN : ProbeReturns(t, ok)
  \/ Publish(t)

WriteRequest(r) ==
  \E n \in Nodes :
    \/ DeleteNode(r, n)
    \/ \E e \in Entries : CreateNode(r, n, e) \/ PatchOne(r, n, e)

ReaderStep(d) ==
  \/ ListNodes(d)
  \/ \E n \in Nodes : GetNode(d, n)

Next ==
  \/ \E t \in Tasks : RoundStep(t)
  \/ \E r \in Requests : WriteRequest(r)
  \/ \E d \in Readers : ReaderStep(d)
  \/ Crash
  \/ EditFile

Spec == Init /\ [][Next]_vars

(* The poll loop is a ready task again and again, as every await of its      *)
(* rounds ends: HTTP and TCP probes have timeouts.  The event loop runs ready *)
(* tasks in the order they became ready; only a task between clear() and      *)
(* update() keeps it, and goes on.  A request may never arrive, the awaits of *)
(* its round need not end, and faults need not happen.                        *)
EventLoop == RoundStep(Poll) \/ \E r \in Requests : Publish(r)

Fairness == WF_vars(EventLoop)

FairSpec == Spec /\ Fairness

-----------------------------------------------------------------------------
(* Properties *)

TypeOK ==
  /\ file \in Config \cup {Corrupt}
  /\ history \in Seq(Config)
  /\ cache \in Cache
  /\ configError \in BOOLEAN
  /\ lastRefresh \in Time
  /\ clock \in Time
  /\ serving \in BOOLEAN
  /\ round \in [Tasks -> Round]
  /\ overtaken \subseteq Tasks
  /\ acked \in Nat
  /\ reader \in [Readers -> Reader]
  /\ faults \in Nat
  /\ edits \in Nat

\* However rounds overlap with writes and with each other, the cache lists one
\* configuration the file has held, as a whole, or nothing (_refresh_round
\* composes the new state from the entries it loaded at its start).
CacheIsCommitted ==
  \/ Listed(cache) = EmptyConfig
  \/ \E i \in 1..Len(history) : Listed(cache) = history[i]

\* A GET answered by a thread in the middle of anything returns a committed
\* configuration or nothing, and GET /nodes/{id} an entry that was committed
\* under that id (current() and one() read _STATE with no lock).
AnswersAreCommitted ==
  \A d \in Readers :
    /\ reader[d].at = "listed" =>
         \/ reader[d].listed = EmptyConfig
         \/ \E i \in 1..Len(history) : reader[d].listed = history[i]
    /\ reader[d].at = "answered" /\ reader[d].listed[reader[d].node] # Absent =>
         \E i \in 1..Len(history) :
           reader[d].listed[reader[d].node] = history[i][reader[d].node]

\* No lost update: a request's write differs from the file it replaces in at
\* most one id, whatever rounds and requests run meanwhile (each handler loads
\* and saves the file with no await in between).
OneNodePerWrite ==
  [][history' # history /\ edits' = edits =>
       /\ file # Corrupt
       /\ \E n \in Nodes : \A m \in Nodes \ {n} : file'[m] = file[m]]_vars

\* No request overwrites a file that does not load, so what is left of a file
\* truncated by a crash or a full disk is there for the operator (handlers
\* answer 500 when _load_config raises).
OnlyOperatorRepairs ==
  [][file = Corrupt /\ file' # Corrupt => edits' > edits]_vars

\* A round that no other round overtook carries each entry's history over:
\* first_seen_at is kept, last_ok_at never moves back, and neither is later
\* than the probe that reports it (prev is read before the probe is awaited).
HistoryCarriedOver ==
  [][\A t \in Tasks \ overtaken :
       round[t].at # "cleared" /\ round'[t].at = "cleared" =>
         \A n \in Nodes : LET new == round'[t].composed[n] IN
           new # Absent =>
             /\ new.firstSeen <= new.probedAt
             /\ new.okAt <= new.probedAt
             /\ cache[n] # Absent => /\ new.firstSeen = cache[n].firstSeen
                                    /\ new.okAt >= cache[n].okAt]_vars

\* The cache lists nothing but what NodesPromise allows.
Promise == INSTANCE NodesPromise WITH shown <- Listed(cache)
KeepsPromise == Promise!Spec

\* Once writes, edits and crashes stop, the cache lists exactly the file, even
\* if an overtaken round showed an older one (the poll loop reads it again).
CacheSettles ==
  <>[](LoopFree /\ file # Corrupt => Listed(cache) = file)

\* tests/services/nodes/test_nodes.py:6-9: "POST/PATCH/DELETE each force an
\* immediate probe round so the next GET reflects the just-set config".
NextGetReflectsWrite ==
  acked > 0 /\ acked = Len(history) /\ file # Corrupt /\ LoopFree =>
    Listed(cache) = file

\* services/nodes/app/main.py, current(): "Latest known status for every node":
\* an empty list is returned only if some configuration had no entries.
CurrentListsEveryNode ==
  \A d \in Readers :
    reader[d].at = "listed" /\ reader[d].listed = EmptyConfig =>
      \E i \in 1..Len(history) : history[i] = EmptyConfig
=============================================================================
