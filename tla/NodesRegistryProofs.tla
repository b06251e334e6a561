------------------------- MODULE NodesRegistryProofs -------------------------
(***************************************************************************)
(* Theorems about NodesRegistry, for any number of nodes, requests and     *)
(* reader threads.                                                         *)
(***************************************************************************)
EXTENDS NodesRegistry, TLAPS

\* A task that starts, ends or advances a round has well-typed locals.
LEMMA LocalsType ==
  ASSUME NEW place \in Where, NEW content \in Config, NEW base \in Nat, NEW writes \in BOOLEAN
  PROVE  Locals(place, content, base, writes) \in Round
  BY RegistryAssumption DEF Locals, Round, EmptyCache, Cache, Time

LEMMA AtType == ASSUME NEW place \in Where PROVE At(place) \in Round
  BY LocalsType DEF At, EmptyConfig, Config

LEMMA OverType == ASSUME NEW t \in Tasks PROVE Over(t) \in Round
  BY AtType DEF Over, Where

LEMMA BeginType ==
  ASSUME TypeOK, NEW t \in Tasks, NEW content \in Config, NEW log \in Seq(Config),
         NEW writes \in BOOLEAN, BeginRound(t, content, log, writes)
  PROVE  configError' \in BOOLEAN /\ round' \in [Tasks -> Round] /\ overtaken' \subseteq Tasks
<1>1. Len(log) \in Nat /\ "context" \in Where
  BY DEF Where
<1>2. Locals("context", content, Len(log), writes) \in Round
  BY <1>1, LocalsType
<1>. QED
  BY <1>2 DEF BeginRound, TypeOK

LEMMA NextEntryType ==
  ASSUME TypeOK, NEW t \in Tasks, NEW r \in Round, NextEntry(t, r)
  PROVE  round' \in [Tasks -> Round] /\ cache' \in Cache
<1>1. EmptyCache \in Cache
  BY DEF EmptyCache, Cache
<1>2. ASSUME NEW n \in Nodes
      PROVE  [r EXCEPT !.at = "probing", !.node = n, !.prev = cache[n]] \in Round
  BY DEF Round, Where, TypeOK, Cache
<1>3. [r EXCEPT !.at = "cleared", !.node = Absent, !.prev = Absent] \in Round
  BY DEF Round, Where
<1>. QED
  BY <1>1, <1>2, <1>3 DEF NextEntry, TypeOK

LEMMA ComposeType ==
  ASSUME NEW r \in Round, r.node \in Nodes, r.entries[r.node] # Absent, NEW ok \in BOOLEAN
  PROVE  Compose(r, ok) \in Status
<1>1. r.entries[r.node] \in Entries /\ r.now \in Time /\ 0 \in Time
  BY RegistryAssumption DEF Round, Config, Time
<1>2. r.prev # Absent => r.prev.okAt \in Time /\ r.prev.firstSeen \in Time
  BY DEF Round, Status
<1>. QED
  BY <1>1, <1>2 DEF Compose, Status

(* The variables keep their types.  The node being probed is one of the     *)
(* entries the round loaded, which Compose needs.                          *)
ProbesLoadedEntry ==
  \A t \in Tasks : round[t].at = "probing" =>
    round[t].node \in Nodes /\ round[t].entries[round[t].node] # Absent

TInv == TypeOK /\ ProbesLoadedEntry

LEMMA TInvInit == Init => TInv
<1>1. ASSUME Init PROVE TypeOK
  <2>1. At("idle") \in Round /\ EmptyCache \in Cache /\ EmptyConfig \in Config
    BY AtType DEF Where, EmptyCache, Cache, EmptyConfig, Config
  <2>2. 0 \in Time
    BY RegistryAssumption DEF Time
  <2>3. NoAnswer \in Reader
    BY <2>1 DEF NoAnswer, Reader
  <2>4. file \in Config /\ history \in Seq(Config)
    BY <1>1 DEF Init
  <2>5. round \in [Tasks -> Round] /\ reader \in [Readers -> Reader]
    BY <1>1, <2>1, <2>3 DEF Init
  <2>6. cache \in Cache /\ clock \in Time /\ lastRefresh \in Time
    BY <1>1, <2>1, <2>2 DEF Init
  <2>. QED
    BY <1>1, <2>4, <2>5, <2>6 DEF Init, TypeOK
<1>2. ASSUME Init PROVE ProbesLoadedEntry
  BY <1>2 DEF Init, ProbesLoadedEntry, At, Locals
<1>. QED
  BY <1>1, <1>2 DEF TInv

\* The two ways a request ends without a round, and the write that starts one.
LEMMA RejectedType ==
  ASSUME TInv, NEW r \in Requests, Rejected(r) \/ SaveFails(r)
  PROVE  TInv'
<1>1. At("done") \in Round /\ r \in Tasks
  BY AtType DEF Where, Tasks
<1>2. TypeOK'
  BY <1>1 DEF TInv, TypeOK, Rejected, SaveFails
<1>3. ProbesLoadedEntry'
  BY <1>1 DEF TInv, TypeOK, ProbesLoadedEntry, Rejected, SaveFails, At, Locals
<1>. QED
  BY <1>2, <1>3 DEF TInv

LEMMA SaveType ==
  ASSUME TInv, NEW r \in Requests, NEW content \in Config, Save(r, content)
  PROVE  TInv'
<1>1. r \in Tasks /\ history' \in Seq(Config)
  BY DEF Tasks, Save, TInv, TypeOK
<1>2. BeginRound(r, content, history', TRUE)
  BY DEF Save
<1>3. configError' \in BOOLEAN /\ round' \in [Tasks -> Round] /\ overtaken' \subseteq Tasks
  BY <1>1, <1>2, BeginType DEF TInv
<1>4. TypeOK'
  BY <1>1, <1>3 DEF TInv, TypeOK, Save
<1>5. ProbesLoadedEntry'
  BY <1>1, <1>2 DEF TInv, TypeOK, ProbesLoadedEntry, BeginRound, Locals
<1>. QED
  BY <1>4, <1>5 DEF TInv

LEMMA NextEntryProbes ==
  ASSUME TInv, NEW t \in Tasks, NEW r \in Round, NextEntry(t, r)
  PROVE  ProbesLoadedEntry'
<1>. DEFINE left == {n \in Nodes : r.entries[n] # Absent /\ r.composed[n] = Absent}
<1>1. CASE left # {}
  <2>1. PICK n \in left : round' = [round EXCEPT ![t] =
               [r EXCEPT !.at = "probing", !.node = n, !.prev = cache[n]]]
    BY <1>1 DEF NextEntry
  <2>2. round'[t].node = n /\ round'[t].entries = r.entries
    BY <2>1 DEF TInv, TypeOK, Round
  <2>. QED
    BY <2>1, <2>2 DEF TInv, TypeOK, ProbesLoadedEntry
<1>2. CASE left = {}
  <2>1. round' = [round EXCEPT ![t] =
             [r EXCEPT !.at = "cleared", !.node = Absent, !.prev = Absent]]
    BY <1>2 DEF NextEntry
  <2>2. round'[t].at = "cleared"
    BY <2>1 DEF TInv, TypeOK, Round
  <2>. QED
    BY <2>1, <2>2 DEF TInv, TypeOK, ProbesLoadedEntry
<1>. QED
  BY <1>1, <1>2

LEMMA TInvStep == TInv /\ [Next]_vars => TInv'
<1>. SUFFICES ASSUME TInv, [Next]_vars PROVE TInv'
  OBVIOUS
<1>1. ASSUME NEW t \in Tasks, Load(t) PROVE TInv'
  <2>1. file \in Config /\ BeginRound(t, file, history, FALSE)
    BY <1>1 DEF Load, TInv, TypeOK
  <2>2. configError' \in BOOLEAN /\ round' \in [Tasks -> Round] /\ overtaken' \subseteq Tasks
    BY <2>1, BeginType DEF TInv, TypeOK
  <2>3. TypeOK'
    BY <1>1, <2>2 DEF Load, TInv, TypeOK
  <2>4. ProbesLoadedEntry'
    BY <2>1 DEF TInv, TypeOK, ProbesLoadedEntry, BeginRound, Locals
  <2>. QED
    BY <2>3, <2>4 DEF TInv
<1>2. ASSUME NEW t \in Tasks, LoadFails(t) PROVE TInv'
  <2>1. TypeOK'
    BY <1>2, OverType DEF LoadFails, TInv, TypeOK
  <2>2. ProbesLoadedEntry'
    BY <1>2 DEF LoadFails, TInv, TypeOK, ProbesLoadedEntry, Over, At, Locals
  <2>. QED
    BY <2>1, <2>2 DEF TInv
<1>3. ASSUME NEW t \in Tasks, ContextReady(t) PROVE TInv'
  <2>1. clock' \in Time
    BY <1>3, RegistryAssumption DEF ContextReady, TInv, TypeOK, Time
  <2>. DEFINE r == [round[t] EXCEPT !.now = clock']
  <2>2. r \in Round /\ NextEntry(t, r)
    BY <1>3, <2>1 DEF ContextReady, TInv, TypeOK, Round
  <2>. HIDE DEF r
  <2>3. round' \in [Tasks -> Round] /\ cache' \in Cache
    BY <2>2, NextEntryType DEF TInv
  <2>4. TypeOK'
    BY <1>3, <2>1, <2>3 DEF ContextReady, TInv, TypeOK
  <2>. QED
    BY <2>2, <2>4, NextEntryProbes DEF TInv
<1>4. ASSUME NEW t \in Tasks, NEW ok \in BOOLEAN, ProbeReturns(t, ok) PROVE TInv'
  <2>. DEFINE s == Compose(round[t], ok)
              r == [round[t] EXCEPT !.composed[round[t].node] = s]
  <2>1. round[t] \in Round /\ round[t].node \in Nodes
          /\ round[t].entries[round[t].node] # Absent
    BY <1>4 DEF ProbeReturns, TInv, TypeOK, ProbesLoadedEntry
  <2>2. s \in Status
    BY <2>1, ComposeType
  <2>3. NextEntry(t, r)
    BY <1>4 DEF ProbeReturns
  <2>. HIDE DEF s
  <2>4. r \in Round
    BY <2>1, <2>2 DEF Round, Cache
  <2>. HIDE DEF r
  <2>5. round' \in [Tasks -> Round] /\ cache' \in Cache
    BY <2>3, <2>4, NextEntryType DEF TInv
  <2>6. TypeOK'
    BY <1>4, <2>5 DEF ProbeReturns, TInv, TypeOK
  <2>. QED
    BY <2>3, <2>4, <2>6, NextEntryProbes DEF TInv
<1>5. ASSUME NEW t \in Tasks, Publish(t) PROVE TInv'
  <2>1. round[t] \in Round /\ Over(t) \in Round
    BY OverType DEF TInv, TypeOK
  <2>2. round[t].composed \in Cache /\ round[t].now \in Time /\ round[t].base \in Nat
    BY <2>1 DEF Round
  <2>3. TypeOK'
    BY <1>5, <2>1, <2>2 DEF Publish, TInv, TypeOK, InFlight
  <2>4. ProbesLoadedEntry'
    BY <1>5 DEF Publish, TInv, TypeOK, ProbesLoadedEntry, Over, At, Locals
  <2>. QED
    BY <2>3, <2>4 DEF TInv
<1>6. ASSUME NEW r \in Requests, WriteRequest(r) PROVE TInv'
  <2>1. ASSUME NEW n \in Nodes, NEW e \in Entries, CreateNode(r, n, e) \/ PatchOne(r, n, e)
        PROVE  TInv'
    <3>1. file # Corrupt => [file EXCEPT ![n] = e] \in Config
      BY DEF TInv, TypeOK, Config
    <3>2. \/ file # Corrupt /\ Save(r, [file EXCEPT ![n] = e])
          \/ SaveFails(r) \/ Rejected(r)
      BY <2>1 DEF CreateNode, PatchOne
    <3>. QED
      BY <3>1, <3>2, SaveType, RejectedType
  <2>2. ASSUME NEW n \in Nodes, DeleteNode(r, n) PROVE TInv'
    <3>1. file # Corrupt => [file EXCEPT ![n] = Absent] \in Config
      BY DEF TInv, TypeOK, Config
    <3>2. \/ file # Corrupt /\ Save(r, [file EXCEPT ![n] = Absent])
          \/ SaveFails(r) \/ Rejected(r)
      BY <2>2 DEF DeleteNode
    <3>. QED
      BY <3>1, <3>2, SaveType, RejectedType
  <2>. QED
    BY <1>6, <2>1, <2>2 DEF WriteRequest
<1>7. ASSUME NEW d \in Readers, ReaderStep(d) PROVE TInv'
  <2>1. Listed(cache) \in Config
    BY StatusAssumption DEF Listed, TInv, TypeOK, Cache, Config, Status
  <2>2. reader' \in [Readers -> Reader]
    <3>1. ASSUME ListNodes(d) PROVE reader' \in [Readers -> Reader]
      BY <2>1, <3>1 DEF ListNodes, TInv, TypeOK, Reader
    <3>2. ASSUME NEW n \in Nodes, GetNode(d, n) PROVE reader' \in [Readers -> Reader]
      <4>1. reader[d].listed \in Config
        BY DEF TInv, TypeOK, Reader
      <4>2. [reader[d].listed EXCEPT ![n] = Listed(cache)[n]] \in Config
        BY <2>1, <4>1 DEF Config
      <4>. QED
        BY <3>2, <4>2 DEF GetNode, TInv, TypeOK, Reader
    <3>. QED
      BY <1>7, <3>1, <3>2 DEF ReaderStep
  <2>3. UNCHANGED <<file, history, cache, configError, lastRefresh, clock, serving,
                    round, overtaken, acked, faults, edits>>
    BY <1>7 DEF ReaderStep, ListNodes, GetNode
  <2>. QED
    BY <2>2, <2>3 DEF TInv, TypeOK, ProbesLoadedEntry
<1>8. CASE Crash
  <2>1. EmptyCache \in Cache /\ 0 \in Time /\ NoAnswer \in Reader
    BY RegistryAssumption DEF EmptyCache, Cache, Time, NoAnswer, Reader, EmptyConfig, Config
  <2>2. At("lost") \in Round /\ At("idle") \in Round
    BY AtType DEF Where
  <2>3. round' \in [Tasks -> Round]
    BY <1>8, <2>2 DEF Crash, TInv, TypeOK
  <2>4. TypeOK'
    <3>1. file' \in Config \cup {Corrupt} /\ reader' \in [Readers -> Reader]
      BY <1>8, <2>1 DEF Crash, TInv, TypeOK
    <3>2. cache' \in Cache /\ lastRefresh' \in Time /\ overtaken' \subseteq Tasks
      BY <1>8, <2>1 DEF Crash
    <3>3. configError' \in BOOLEAN /\ serving' \in BOOLEAN
      BY <1>8 DEF Crash
    <3>4. faults' = faults + 1
      BY <1>8 DEF Crash
    <3>5. faults' \in Nat
      BY <3>4 DEF TInv, TypeOK
    <3>6. UNCHANGED <<history, clock, acked, edits>>
      BY <1>8 DEF Crash
    <3>. QED
      BY <2>3, <3>1, <3>2, <3>3, <3>5, <3>6 DEF TInv, TypeOK
  <2>5. \A t \in Tasks : round'[t] = round[t] \/ round'[t].at # "probing"
    BY <1>8 DEF Crash, At, Locals
  <2>6. ProbesLoadedEntry'
    BY <2>5 DEF TInv, ProbesLoadedEntry
  <2>. QED
    BY <2>4, <2>6 DEF TInv
<1>9. CASE EditFile
  <2>1. file' \in Config \cup {Corrupt} /\ history' \in Seq(Config)
    BY <1>9 DEF EditFile, TInv, TypeOK
  <2>. QED
    BY <1>9, <2>1 DEF EditFile, TInv, TypeOK, ProbesLoadedEntry
<1>10. CASE UNCHANGED vars
  BY <1>10 DEF vars, TInv, TypeOK, ProbesLoadedEntry
<1>. QED
  BY <1>1, <1>2, <1>3, <1>4, <1>5, <1>6, <1>7, <1>8, <1>9, <1>10 DEF Next, RoundStep

\* Every variable, and every local of every round, keeps its type, for any
\* overlap of rounds, requests, readers, crashes and edits of the file.
THEOREM TypeCorrect == Spec => []TypeOK
<1>1. TInv => TypeOK
  BY DEF TInv
<1>. QED
  BY <1>1, TInvInit, TInvStep, PTL DEF Spec

-----------------------------------------------------------------------------
(* The strengthening that makes CacheIsCommitted inductive: a file that     *)
(* loads is the last commit; a round in flight works on one commit, which   *)
(* its composed statuses agree with; a round about to publish has composed  *)
(* a status for each entry of its commit.                                  *)
FileIsLastCommit ==
  /\ Len(history) > 0
  /\ file # Corrupt => file = history[Len(history)]

WorksOn(r, log) ==
  /\ r.base \in 1..Len(log)
  /\ r.entries = log[r.base]
  /\ \A n \in Nodes : r.composed[n] # Absent => r.composed[n].entry = r.entries[n]

RoundsWorkOnCommits == \A t \in InFlight : WorksOn(round[t], history)

Complete(r) == \A n \in Nodes : r.entries[n] # Absent => r.composed[n] # Absent

ClearedIsComplete ==
  \A t \in Tasks : round[t].at = "cleared" => Complete(round[t])

IInv ==
  /\ TInv
  /\ FileIsLastCommit
  /\ RoundsWorkOnCommits
  /\ ClearedIsComplete
  /\ CacheIsCommitted

\* Commits already made keep their place when another one is appended.
LEMMA HistoryGrows ==
  ASSUME TInv, \/ history' = history
               \/ \E c \in Config : history' = Append(history, c)
  PROVE  /\ Len(history') >= Len(history)
         /\ history' \in Seq(Config)
         /\ \A i \in 1..Len(history) : history'[i] = history[i]
  BY DEF TInv, TypeOK

\* What was one commit stays one commit.
LEMMA CacheStays ==
  ASSUME IInv, UNCHANGED cache \/ cache' = EmptyCache,
         \/ history' = history
         \/ \E c \in Config : history' = Append(history, c)
  PROVE  CacheIsCommitted'
<1>1. CASE cache' = EmptyCache
  BY <1>1 DEF CacheIsCommitted, Listed, EmptyCache, EmptyConfig
<1>2. CASE UNCHANGED cache
  <2>1. Listed(cache)' = Listed(cache)
    BY <1>2 DEF Listed
  <2>. QED
    BY <2>1, HistoryGrows DEF IInv, CacheIsCommitted, TInv, TypeOK
<1>. QED
  BY <1>1, <1>2

\* A step that changes the locals of one task to q and commits at most one
\* configuration keeps the invariants about rounds, if q does.
LEMMA OneRoundChanges ==
  ASSUME IInv, NEW t \in Tasks, NEW q, round' = [round EXCEPT ![t] = q],
         \/ history' = history
         \/ \E c \in Config : history' = Append(history, c),
         q.at \in {"context", "probing", "cleared"} => WorksOn(q, history'),
         q.at = "cleared" => Complete(q)
  PROVE  RoundsWorkOnCommits' /\ ClearedIsComplete'
<1>1. \A u \in Tasks : round'[u] = IF u = t THEN q ELSE round[u]
  BY DEF IInv, TInv, TypeOK
<1>2. ASSUME NEW r \in Round, WorksOn(r, history) PROVE WorksOn(r, history')
  BY <1>2, HistoryGrows DEF WorksOn, IInv, TInv, TypeOK, Round
<1>3. ASSUME NEW u \in Tasks, u \in InFlight' PROVE WorksOn(round'[u], history')
  <2>1. CASE u = t
    BY <1>1, <1>3, <2>1 DEF InFlight
  <2>2. CASE u # t
    <3>1. u \in InFlight /\ round'[u] = round[u] /\ round[u] \in Round
      BY <1>1, <1>3, <2>2 DEF InFlight, IInv, TInv, TypeOK
    <3>2. WorksOn(round[u], history)
      BY <3>1 DEF IInv, RoundsWorkOnCommits
    <3>. QED
      BY <3>1, <3>2, <1>2
  <2>. QED
    BY <2>1, <2>2
<1>4. RoundsWorkOnCommits'
  BY <1>3 DEF RoundsWorkOnCommits, InFlight
<1>5. ClearedIsComplete'
  BY <1>1 DEF ClearedIsComplete, IInv
<1>. QED
  BY <1>4, <1>5

\* The next entry of a round that works on a commit.
LEMMA NextEntryKeeps ==
  ASSUME IInv, NEW t \in Tasks, NEW r \in Round, NextEntry(t, r),
         WorksOn(r, history), history' = history
  PROVE  RoundsWorkOnCommits' /\ ClearedIsComplete' /\ CacheIsCommitted'
<1>. DEFINE left == {n \in Nodes : r.entries[n] # Absent /\ r.composed[n] = Absent}
<1>1. CASE left # {}
  <2>1. PICK n \in left : round' = [round EXCEPT ![t] =
               [r EXCEPT !.at = "probing", !.node = n, !.prev = cache[n]]]
    BY <1>1 DEF NextEntry
  <2>. DEFINE q == [r EXCEPT !.at = "probing", !.node = n, !.prev = cache[n]]
  <2>2. q.at = "probing" /\ WorksOn(q, history')
    BY DEF WorksOn, Round
  <2>3. UNCHANGED cache
    BY <1>1 DEF NextEntry
  <2>4. round' = [round EXCEPT ![t] = q]
    BY <2>1
  <2>. HIDE DEF q
  <2>. QED
    BY <2>2, <2>3, <2>4, OneRoundChanges, CacheStays
<1>2. CASE left = {}
  <2>. DEFINE q == [r EXCEPT !.at = "cleared", !.node = Absent, !.prev = Absent]
  <2>1. round' = [round EXCEPT ![t] = q] /\ cache' = EmptyCache
    BY <1>2 DEF NextEntry
  <2>2. q.at = "cleared" /\ WorksOn(q, history')
    BY DEF WorksOn, Round
  <2>3. Complete(q)
    BY <1>2 DEF Complete, Round
  <2>. HIDE DEF q
  <2>. QED
    BY <2>1, <2>2, <2>3, OneRoundChanges, CacheStays
<1>. QED
  BY <1>1, <1>2

LEMMA IInvInit == Init => IInv
<1>. SUFFICES ASSUME Init PROVE IInv
  OBVIOUS
<1>1. TInv
  BY TInvInit
<1>2. FileIsLastCommit
  BY <1>1 DEF Init, FileIsLastCommit
<1>3. \A t \in Tasks : round[t].at = "idle"
  BY DEF Init, At, Locals
<1>4. RoundsWorkOnCommits /\ ClearedIsComplete
  BY <1>3 DEF RoundsWorkOnCommits, ClearedIsComplete, InFlight
<1>5. CacheIsCommitted
  BY DEF Init, CacheIsCommitted, Listed, EmptyCache, EmptyConfig
<1>. QED
  BY <1>1, <1>2, <1>4, <1>5 DEF IInv

\* A request that ends without a round, or saves and starts one.
LEMMA RequestKeeps ==
  ASSUME IInv, NEW r \in Requests, NEW content \in Config,
         Rejected(r) \/ SaveFails(r) \/ Save(r, content)
  PROVE  FileIsLastCommit' /\ RoundsWorkOnCommits' /\ ClearedIsComplete' /\ CacheIsCommitted'
<1>. r \in Tasks
  BY DEF Tasks
<1>1. CASE Rejected(r) \/ SaveFails(r)
  <2>1. /\ round' = [round EXCEPT ![r] = At("done")]
        /\ file' \in {file, Corrupt}
        /\ UNCHANGED <<history, cache>>
    BY <1>1 DEF Rejected, SaveFails
  <2>2. At("done").at = "done"
    BY DEF At, Locals
  <2>3. RoundsWorkOnCommits' /\ ClearedIsComplete'
    BY <2>1, <2>2, OneRoundChanges
  <2>4. FileIsLastCommit'
    BY <2>1 DEF IInv, FileIsLastCommit
  <2>. QED
    BY <2>1, <2>3, <2>4, CacheStays
<1>2. CASE Save(r, content)
  <2>. DEFINE q == Locals("context", content, Len(history'), TRUE)
  <2>1. /\ history' = Append(history, content) /\ file' = content
        /\ round' = [round EXCEPT ![r] = q] /\ UNCHANGED cache
    BY <1>2 DEF Save, BeginRound
  <2>2. /\ Len(history') = Len(history) + 1
        /\ history'[Len(history')] = content
    BY <2>1 DEF IInv, TInv, TypeOK
  <2>3. q.at = "context" /\ q.base = Len(history') /\ q.entries = content
          /\ q.composed = EmptyCache
    BY DEF Locals
  <2>. HIDE DEF q
  <2>4. WorksOn(q, history')
    BY <2>1, <2>2, <2>3 DEF WorksOn, EmptyCache, IInv, TInv, TypeOK
  <2>5. RoundsWorkOnCommits' /\ ClearedIsComplete'
    BY <2>1, <2>3, <2>4, OneRoundChanges
  <2>6. FileIsLastCommit'
    BY <2>1, <2>2 DEF FileIsLastCommit, IInv, TInv, TypeOK
  <2>. QED
    BY <2>1, <2>5, <2>6, CacheStays
<1>. QED
  BY <1>1, <1>2

LEMMA IInvStep == IInv /\ [Next]_vars => IInv'
<1>. SUFFICES ASSUME IInv, [Next]_vars PROVE IInv'
  OBVIOUS
<1>. DEFINE Rest == FileIsLastCommit /\ RoundsWorkOnCommits /\ ClearedIsComplete
                      /\ CacheIsCommitted
<1>0. TInv /\ TInv'
  BY TInvStep DEF IInv
<1>1. ASSUME NEW t \in Tasks, Load(t) PROVE Rest'
  <2>. DEFINE q == Locals("context", file, Len(history), FALSE)
  <2>1. round' = [round EXCEPT ![t] = q] /\ UNCHANGED <<file, history, cache>>
    BY <1>1 DEF Load, BeginRound
  <2>2. q.at = "context" /\ q.base = Len(history) /\ q.entries = file
          /\ q.composed = EmptyCache
    BY DEF Locals
  <2>. HIDE DEF q
  <2>3. WorksOn(q, history')
    BY <1>0, <1>1, <2>1, <2>2 DEF Load, WorksOn, EmptyCache, IInv, FileIsLastCommit, TInv, TypeOK
  <2>4. RoundsWorkOnCommits' /\ ClearedIsComplete'
    BY <2>1, <2>2, <2>3, OneRoundChanges
  <2>. QED
    BY <2>1, <2>4, CacheStays DEF IInv, FileIsLastCommit
<1>2. ASSUME NEW t \in Tasks, LoadFails(t) PROVE Rest'
  <2>1. round' = [round EXCEPT ![t] = Over(t)] /\ UNCHANGED <<file, history, cache>>
    BY <1>2 DEF LoadFails
  <2>2. Over(t).at \in {"idle", "done"}
    BY DEF Over, At, Locals
  <2>3. RoundsWorkOnCommits' /\ ClearedIsComplete'
    BY <2>1, <2>2, OneRoundChanges
  <2>. QED
    BY <2>1, <2>3, CacheStays DEF IInv, FileIsLastCommit
<1>3. ASSUME NEW t \in Tasks, ContextReady(t) PROVE Rest'
  <2>. DEFINE r == [round[t] EXCEPT !.now = clock']
  <2>1. NextEntry(t, r) /\ UNCHANGED <<file, history>>
    BY <1>3 DEF ContextReady
  <2>2. round[t] \in Round /\ clock' \in Time /\ t \in InFlight
    BY <1>0, <1>3 DEF TInv, TypeOK, ContextReady, InFlight
  <2>3. r \in Round
    BY <2>2 DEF Round
  <2>4. WorksOn(r, history)
    BY <2>2 DEF IInv, RoundsWorkOnCommits, WorksOn, Round
  <2>. HIDE DEF r
  <2>5. RoundsWorkOnCommits' /\ ClearedIsComplete' /\ CacheIsCommitted'
    BY <2>1, <2>3, <2>4, NextEntryKeeps
  <2>. QED
    BY <2>1, <2>5 DEF IInv, FileIsLastCommit
<1>4. ASSUME NEW t \in Tasks, NEW ok \in BOOLEAN, ProbeReturns(t, ok) PROVE Rest'
  <2>. DEFINE s == Compose(round[t], ok)
              r == [round[t] EXCEPT !.composed[round[t].node] = s]
  <2>1. NextEntry(t, r) /\ UNCHANGED <<file, history>>
    BY <1>4 DEF ProbeReturns
  <2>2. /\ round[t] \in Round /\ t \in InFlight
        /\ round[t].node \in Nodes /\ round[t].entries[round[t].node] # Absent
    BY <1>0, <1>4 DEF TInv, TypeOK, ProbesLoadedEntry, ProbeReturns, InFlight
  <2>3. s \in Status /\ s.entry = round[t].entries[round[t].node]
    BY <2>2, ComposeType DEF Compose
  <2>. HIDE DEF s
  <2>4. r \in Round
    BY <2>2, <2>3 DEF Round, Cache
  <2>5. WorksOn(r, history)
    BY <2>2, <2>3 DEF IInv, RoundsWorkOnCommits, WorksOn, Round, Cache
  <2>. HIDE DEF r
  <2>6. RoundsWorkOnCommits' /\ ClearedIsComplete' /\ CacheIsCommitted'
    BY <2>1, <2>4, <2>5, NextEntryKeeps
  <2>. QED
    BY <2>1, <2>6 DEF IInv, FileIsLastCommit
<1>5. ASSUME NEW t \in Tasks, Publish(t) PROVE Rest'
  <2>1. /\ round' = [round EXCEPT ![t] = Over(t)] /\ cache' = round[t].composed
        /\ UNCHANGED <<file, history>>
    BY <1>5 DEF Publish
  <2>2. Over(t).at \in {"idle", "done"}
    BY DEF Over, At, Locals
  <2>3. RoundsWorkOnCommits' /\ ClearedIsComplete'
    BY <2>1, <2>2, OneRoundChanges
  <2>4. WorksOn(round[t], history) /\ Complete(round[t]) /\ round[t] \in Round
    BY <1>0, <1>5 DEF IInv, RoundsWorkOnCommits, ClearedIsComplete, Publish, InFlight,
                      TInv, TypeOK
  <2>5. Listed(round[t].composed) = round[t].entries
    <3>1. \A n \in Nodes : Listed(round[t].composed)[n] = round[t].entries[n]
      BY <2>4 DEF Listed, WorksOn, Complete
    <3>2. round[t].entries \in [Nodes -> Entries \cup {Absent}]
      BY <2>4 DEF Round, Config
    <3>. QED
      BY <3>1, <3>2 DEF Listed
  <2>6. CacheIsCommitted'
    BY <2>1, <2>4, <2>5 DEF CacheIsCommitted, WorksOn
  <2>. QED
    BY <2>1, <2>3, <2>6 DEF IInv, FileIsLastCommit
<1>6. ASSUME NEW r \in Requests, WriteRequest(r) PROVE Rest'
  <2>1. \/ Rejected(r) \/ SaveFails(r)
        \/ \E content \in Config : Save(r, content)
    <3>1. ASSUME NEW n \in Nodes, NEW e \in Entries \cup {Absent}, file # Corrupt
          PROVE  [file EXCEPT ![n] = e] \in Config
      BY <1>0, <3>1 DEF TInv, TypeOK, Config
    <3>2. ASSUME NEW n \in Nodes, DeleteNode(r, n)
          PROVE  Rejected(r) \/ SaveFails(r) \/ \E content \in Config : Save(r, content)
      BY <3>1, <3>2 DEF DeleteNode
    <3>3. ASSUME NEW n \in Nodes, NEW e \in Entries, CreateNode(r, n, e) \/ PatchOne(r, n, e)
          PROVE  Rejected(r) \/ SaveFails(r) \/ \E content \in Config : Save(r, content)
      BY <3>1, <3>3 DEF CreateNode, PatchOne
    <3>. QED
      BY <1>6, <3>2, <3>3 DEF WriteRequest
  <2>2. EmptyConfig \in Config
    BY DEF EmptyConfig, Config
  <2>. QED
    BY <2>1, <2>2, RequestKeeps
<1>7. ASSUME NEW d \in Readers, ReaderStep(d) PROVE Rest'
  <2>1. UNCHANGED <<file, history, cache, round>>
    BY <1>7 DEF ReaderStep, ListNodes, GetNode
  <2>. QED
    BY <2>1 DEF IInv, FileIsLastCommit, RoundsWorkOnCommits, ClearedIsComplete, InFlight,
                CacheIsCommitted, Listed
<1>8. ASSUME Crash PROVE Rest'
  <2>1. UNCHANGED history /\ cache' = EmptyCache
    BY <1>8 DEF Crash
  <2>2. file' \in {file, Corrupt}
    BY <1>8 DEF Crash
  <2>3. \A t \in Tasks : round'[t].at \notin {"context", "probing", "cleared"}
    BY <1>8 DEF Crash, InFlight, At, Locals
  <2>4. RoundsWorkOnCommits' /\ ClearedIsComplete'
    BY <2>3 DEF RoundsWorkOnCommits, ClearedIsComplete, InFlight
  <2>5. FileIsLastCommit'
    BY <2>1, <2>2 DEF IInv, FileIsLastCommit
  <2>. QED
    BY <2>1, <2>4, <2>5, CacheStays
<1>9. ASSUME EditFile PROVE Rest'
  <2>1. UNCHANGED <<cache, round>>
    BY <1>9 DEF EditFile
  <2>2. \/ \E c \in Config : file' = c /\ history' = Append(history, c)
        \/ file' = Corrupt /\ history' = history
    BY <1>9 DEF EditFile
  <2>3. FileIsLastCommit'
    BY <1>0, <2>2 DEF IInv, FileIsLastCommit, TInv, TypeOK
  <2>4. ASSUME NEW t \in InFlight PROVE WorksOn(round[t], history')
    BY <1>0, <2>2, HistoryGrows DEF IInv, RoundsWorkOnCommits, WorksOn, InFlight, TInv, TypeOK, Round
  <2>5. RoundsWorkOnCommits' /\ ClearedIsComplete'
    BY <2>1, <2>4 DEF RoundsWorkOnCommits, ClearedIsComplete, InFlight, IInv
  <2>. QED
    BY <2>1, <2>2, <2>3, <2>5, CacheStays
<1>10. ASSUME UNCHANGED vars PROVE Rest'
  BY <1>10 DEF vars, IInv, FileIsLastCommit, RoundsWorkOnCommits, ClearedIsComplete, InFlight,
               CacheIsCommitted, Listed
<1>. QED
  BY <1>0, <1>1, <1>2, <1>3, <1>4, <1>5, <1>6, <1>7, <1>8, <1>9, <1>10
  DEF Next, RoundStep, IInv

LEMMA IInvAlways == Spec => []IInv
  BY IInvInit, IInvStep, PTL DEF Spec

\* However probe rounds overlap with writes, crashes and edits, the cache lists
\* one configuration the file has held, or nothing.
THEOREM CacheAlwaysCommitted == Spec => []CacheIsCommitted
<1>1. IInv => CacheIsCommitted
  BY DEF IInv
<1>. QED
  BY <1>1, IInvAlways, PTL

-----------------------------------------------------------------------------
(* Properties of steps *)

\* Only requests and edits change the file or its history.
LEMMA FileChanges ==
  ASSUME [Next]_vars
  PROVE  \/ UNCHANGED <<file, history, edits>>
         \/ file' = Corrupt /\ UNCHANGED history
         \/ EditFile
         \/ /\ file # Corrupt
            /\ \E n \in Nodes, e \in Entries \cup {Absent} :
                 \E r \in Requests : Save(r, [file EXCEPT ![n] = e])
<1>1. ASSUME NEW t \in Tasks, RoundStep(t) PROVE UNCHANGED <<file, history, edits>>
  BY <1>1 DEF RoundStep, Load, LoadFails, ContextReady, ProbeReturns, Publish
<1>2. ASSUME NEW d \in Readers, ReaderStep(d) PROVE UNCHANGED <<file, history, edits>>
  BY <1>2 DEF ReaderStep, ListNodes, GetNode
<1>3. ASSUME Crash
      PROVE  UNCHANGED <<history, edits>> /\ file' \in {file, Corrupt}
  BY <1>3 DEF Crash
<1>4. ASSUME NEW r \in Requests, Rejected(r) \/ SaveFails(r)
      PROVE  UNCHANGED <<history, edits>> /\ file' \in {file, Corrupt}
  BY <1>4 DEF Rejected, SaveFails
<1>5. ASSUME NEW r \in Requests, WriteRequest(r)
      PROVE  \/ Rejected(r) \/ SaveFails(r)
             \/ /\ file # Corrupt
                /\ \E n \in Nodes, e \in Entries \cup {Absent} :
                     Save(r, [file EXCEPT ![n] = e])
  BY <1>5 DEF WriteRequest, CreateNode, DeleteNode, PatchOne
<1>6. UNCHANGED vars => UNCHANGED <<file, history, edits>>
  BY DEF vars
<1>. QED
  BY <1>1, <1>2, <1>3, <1>4, <1>5, <1>6 DEF Next

\* No lost update: a request's write changes at most one id of the file.
THEOREM NoLostUpdate == Spec => OneNodePerWrite
<1>1. TypeOK /\ [Next]_vars =>
        [history' # history /\ edits' = edits =>
           /\ file # Corrupt
           /\ \E n \in Nodes : \A m \in Nodes \ {n} : file'[m] = file[m]]_vars
  <2>. SUFFICES ASSUME TypeOK, [Next]_vars, history' # history, edits' = edits
                PROVE  /\ file # Corrupt
                       /\ \E n \in Nodes : \A m \in Nodes \ {n} : file'[m] = file[m]
    OBVIOUS
  <2>1. ~EditFile
    BY DEF EditFile, TypeOK
  <2>2. PICK n \in Nodes, e \in Entries \cup {Absent} :
          file # Corrupt /\ \E r \in Requests : Save(r, [file EXCEPT ![n] = e])
    BY <2>1, FileChanges
  <2>3. file' = [file EXCEPT ![n] = e] /\ file \in Config
    BY <2>2 DEF Save, TypeOK
  <2>. QED
    BY <2>2, <2>3 DEF Config
<1>. QED
  BY <1>1, TypeCorrect, PTL DEF Spec, OneNodePerWrite

\* No request overwrites a file that does not load.
THEOREM CorruptFileKept == Spec => OnlyOperatorRepairs
<1>1. TypeOK /\ [Next]_vars => [file = Corrupt /\ file' # Corrupt => edits' > edits]_vars
  <2>. SUFFICES ASSUME TypeOK, [Next]_vars, file = Corrupt, file' # Corrupt
                PROVE  edits' > edits
    OBVIOUS
  <2>1. EditFile
    BY FileChanges
  <2>. QED
    BY <2>1 DEF EditFile, TypeOK
<1>. QED
  BY <1>1, TypeCorrect, PTL DEF Spec, OnlyOperatorRepairs

-----------------------------------------------------------------------------
(* Refinement: the service implements NodesPromise *)

THEOREM ImplementsPromise == Spec => KeepsPromise
<1>1. Init => Promise!Init
  BY DEF Init, Promise!Init, Promise!Config, Promise!Nothing, Config, Listed, EmptyCache
<1>2. IInv /\ IInv' /\ [Next]_vars => [Promise!Next]_(Promise!vars)
  <2>. SUFFICES ASSUME IInv, IInv', [Next]_vars
                PROVE  Promise!Next \/ UNCHANGED Promise!vars
    OBVIOUS
  <2>1. \/ Listed(cache)' = Promise!Nothing
        \/ \E i \in 1..Len(history') : Listed(cache)' = history'[i]
    BY DEF IInv, CacheIsCommitted, Promise!Nothing, EmptyConfig
  <2>2. CASE UNCHANGED history
    <3>1. \/ Promise!Hide
          \/ \E i \in 1..Len(history) : Promise!Show(i)
      BY <2>1, <2>2 DEF Promise!Hide, Promise!Show
    <3>. QED
      BY <3>1 DEF Promise!Next
  <2>3. CASE history' # history
    <3>1. \/ EditFile
          \/ \E n \in Nodes, e \in Entries \cup {Absent}, r \in Requests :
               file # Corrupt /\ Save(r, [file EXCEPT ![n] = e])
      BY <2>3, FileChanges
    <3>2. UNCHANGED cache /\ \E c \in Config : history' = Append(history, c)
      <4>1. CASE EditFile
        BY <2>3, <4>1 DEF EditFile
      <4>2. ASSUME NEW n \in Nodes, NEW e \in Entries \cup {Absent}, NEW r \in Requests,
                   file # Corrupt, Save(r, [file EXCEPT ![n] = e])
            PROVE  UNCHANGED cache /\ \E c \in Config : history' = Append(history, c)
        <5>1. [file EXCEPT ![n] = e] \in Config
          BY <4>2 DEF IInv, TInv, TypeOK, Config
        <5>. QED
          BY <4>2, <5>1 DEF Save
      <4>. QED
        BY <3>1, <4>1, <4>2
    <3>3. \E c \in Promise!Config : Promise!Commit(c)
      BY <3>2 DEF Promise!Commit, Promise!Config, Config, Listed
    <3>. QED
      BY <3>3 DEF Promise!Next
  <2>. QED
    BY <2>2, <2>3
<1>. QED
  BY <1>1, <1>2, IInvAlways, PTL DEF Spec, KeepsPromise, Promise!Spec

-----------------------------------------------------------------------------
(* What a reader thread may have been answered *)

\* The history only ever gets longer, by one configuration.
LEMMA HistoryStep ==
  ASSUME TInv, [Next]_vars
  PROVE  \/ history' = history
         \/ \E c \in Config : history' = Append(history, c)
<1>1. CASE EditFile
  BY <1>1 DEF EditFile
<1>2. ASSUME NEW n \in Nodes, NEW e \in Entries \cup {Absent}, NEW r \in Requests,
             file # Corrupt, Save(r, [file EXCEPT ![n] = e])
      PROVE  \E c \in Config : history' = Append(history, c)
  <2>1. [file EXCEPT ![n] = e] \in Config
    BY <1>2 DEF TInv, TypeOK, Config
  <2>. QED
    BY <1>2, <2>1 DEF Save
<1>. QED
  BY <1>1, <1>2, FileChanges

\* Only the readers themselves and a crash change what they hold.
LEMMA ReadersChange ==
  ASSUME [Next]_vars
  PROVE  \/ UNCHANGED reader
         \/ Crash
         \/ \E d \in Readers : ReaderStep(d)
<1>1. ASSUME NEW t \in Tasks, RoundStep(t) PROVE UNCHANGED reader
  BY <1>1 DEF RoundStep, Load, LoadFails, ContextReady, ProbeReturns, Publish
<1>2. ASSUME NEW r \in Requests, WriteRequest(r) PROVE UNCHANGED reader
  BY <1>2 DEF WriteRequest, CreateNode, DeleteNode, PatchOne, Save, SaveFails, Rejected
<1>3. EditFile \/ UNCHANGED vars => UNCHANGED reader
  BY DEF EditFile, vars
<1>. QED
  BY <1>1, <1>2, <1>3 DEF Next

\* What a reader holds was committed: all that it lists, or the one entry.
HoldsCommitted(a, log) ==
  /\ a.at = "listed" =>
       \/ a.listed = EmptyConfig
       \/ \E i \in 1..Len(log) : a.listed = log[i]
  /\ a.at = "answered" /\ a.listed[a.node] # Absent =>
       \E i \in 1..Len(log) : a.listed[a.node] = log[i][a.node]

LEMMA AnswersStep == IInv /\ AnswersAreCommitted /\ [Next]_vars => AnswersAreCommitted'
<1>. SUFFICES ASSUME IInv, AnswersAreCommitted, [Next]_vars PROVE AnswersAreCommitted'
  OBVIOUS
<1>1. ASSUME NEW d \in Readers PROVE HoldsCommitted(reader[d], history)
  BY DEF AnswersAreCommitted, HoldsCommitted
<1>2. SUFFICES ASSUME NEW d \in Readers PROVE HoldsCommitted(reader'[d], history')
  BY DEF AnswersAreCommitted, HoldsCommitted
<1>3. ASSUME NEW a, HoldsCommitted(a, history) PROVE HoldsCommitted(a, history')
  <2>1. /\ Len(history) \in Nat /\ Len(history') \in Nat /\ Len(history') >= Len(history)
        /\ \A i \in 1..Len(history) : i \in 1..Len(history') /\ history'[i] = history[i]
    BY HistoryStep, HistoryGrows DEF IInv, TInv, TypeOK
  <2>. QED
    BY <1>3, <2>1 DEF HoldsCommitted
<1>4. CASE UNCHANGED reader
  BY <1>1, <1>3, <1>4
<1>5. CASE Crash
  BY <1>5 DEF Crash, NoAnswer, HoldsCommitted
<1>6. ASSUME NEW b \in Readers, ReaderStep(b) PROVE HoldsCommitted(reader'[d], history')
  <2>1. reader \in [Readers -> Reader] /\ UNCHANGED history
    BY <1>6 DEF ReaderStep, ListNodes, GetNode, IInv, TInv, TypeOK
  <2>2. CASE b # d
    <3>1. reader'[d] = reader[d]
      BY <1>6, <2>1, <2>2 DEF ReaderStep, ListNodes, GetNode
    <3>. QED
      BY <1>1, <1>3, <3>1
  <2>3. CASE ListNodes(d)
    <3>1. reader'[d].at = "listed" /\ reader'[d].listed = Listed(cache)
      BY <2>1, <2>3 DEF ListNodes, Reader
    <3>. QED
      BY <2>1, <3>1 DEF HoldsCommitted, IInv, CacheIsCommitted
  <2>4. ASSUME NEW n \in Nodes, GetNode(d, n) PROVE HoldsCommitted(reader'[d], history')
    <3>1. /\ reader'[d].at = "answered" /\ reader'[d].node = n
          /\ reader'[d].listed[n] = Listed(cache)[n]
      BY <2>1, <2>4 DEF GetNode, Reader, Config
    <3>2. Listed(cache)[n] # Absent => \E i \in 1..Len(history) : Listed(cache)[n] = history[i][n]
      BY DEF IInv, CacheIsCommitted, EmptyConfig
    <3>. QED
      BY <2>1, <3>1, <3>2 DEF HoldsCommitted
  <2>. QED
    BY <1>6, <2>2, <2>3, <2>4 DEF ReaderStep
<1>. QED
  BY <1>4, <1>5, <1>6, ReadersChange

\* Whenever a thread reads the cache, between clear() and update() too, it is
\* answered with a configuration the file has held as a whole, or nothing, and
\* a single node with an entry that was committed under that id.
THEOREM AnswersAlwaysCommitted == Spec => []AnswersAreCommitted
<1>1. Init => AnswersAreCommitted
  BY DEF Init, AnswersAreCommitted, NoAnswer
<1>. QED
  BY <1>1, AnswersStep, IInvAlways, PTL DEF Spec

-----------------------------------------------------------------------------
(* What a round carries over from the cache.  No time a status holds is      *)
(* later than the clock; and while the event loop is free, a round nobody has*)
(* overtaken still has in front of it the cache it has composed from.        *)
UpTo(s, time) == s.firstSeen <= time /\ s.okAt <= time
TimesPassed(c, time) == \A n \in Nodes : c[n] # Absent => UpTo(c[n], time)

Clocked(r, time) ==
  /\ r.now <= time
  /\ r.prev # Absent => UpTo(r.prev, time)
  /\ TimesPassed(r.composed, time)

CarriesOver(new, old) ==
  /\ new.firstSeen <= new.probedAt
  /\ new.okAt <= new.probedAt
  /\ old # Absent => new.firstSeen = old.firstSeen /\ new.okAt >= old.okAt

Composes(r, c) == \A n \in Nodes : r.composed[n] # Absent => CarriesOver(r.composed[n], c[n])

Fits(r, c) ==
  /\ r.at = "context" => r.composed = EmptyCache
  /\ r.at = "probing" => r.prev = c[r.node] /\ TimesPassed(c, r.now) /\ Composes(r, c)

NotOvertaken == LoopFree => \A t \in InFlight \ overtaken : Fits(round[t], cache)

CInv ==
  /\ TInv
  /\ TimesPassed(cache, clock)
  /\ \A t \in Tasks : Clocked(round[t], clock)
  /\ NotOvertaken

\* What has passed stays passed.
LEMMA StaysClocked ==
  ASSUME NEW a \in Time, NEW b \in Time, a <= b
  PROVE  /\ \A c \in Cache : TimesPassed(c, a) => TimesPassed(c, b)
         /\ \A r \in Round : Clocked(r, a) => Clocked(r, b)
<1>1. a \in Nat /\ b \in Nat /\ Time \subseteq Nat
  BY RegistryAssumption DEF Time
<1>2. ASSUME NEW s \in Status, UpTo(s, a) PROVE UpTo(s, b)
  <2>1. s.firstSeen \in Nat /\ s.okAt \in Nat
    BY <1>1 DEF Status
  <2>2. \A i, j, k \in Nat : i <= j /\ j <= k => i <= k
    OBVIOUS
  <2>. QED
    BY <1>1, <1>2, <2>1, <2>2 DEF UpTo
<1>3. ASSUME NEW c \in Cache, TimesPassed(c, a) PROVE TimesPassed(c, b)
  BY <1>2, <1>3 DEF TimesPassed, Cache
<1>4. ASSUME NEW r \in Round, Clocked(r, a) PROVE Clocked(r, b)
  <2>1. r.now \in Nat /\ r.composed \in Cache /\ r.prev \in Status \cup {Absent}
    BY <1>1 DEF Round
  <2>. QED
    BY <1>1, <1>2, <1>3, <1>4, <2>1 DEF Clocked
<1>. QED
  BY <1>3, <1>4

\* The locals of a task that starts or ends a round.
LEMMA LocalsClocked ==
  ASSUME NEW place, NEW content, NEW base, NEW writes, NEW time \in Time
  PROVE  /\ Clocked(Locals(place, content, base, writes), time)
         /\ Locals(place, content, base, writes).composed = EmptyCache
         /\ Locals(place, content, base, writes).at = place
  BY RegistryAssumption DEF Locals, Clocked, TimesPassed, EmptyCache, Time

LEMMA AtClocked ==
  ASSUME NEW place, NEW time \in Time
  PROVE  Clocked(At(place), time) /\ At(place).at = place
  BY LocalsClocked DEF At

\* A step that changes one task, and takes the next entry for it at most.
LEMMA OneTaskFits ==
  ASSUME CInv, TInv', LoopFree, NEW t \in Tasks, NEW q, round' = [round EXCEPT ![t] = q],
         clock <= clock', Clocked(q, clock'), overtaken \ {t} \subseteq overtaken',
         \/ /\ UNCHANGED cache
            /\ q.at \in {"context", "probing"} /\ t \notin overtaken' => Fits(q, cache)
         \/ cache' = EmptyCache /\ q.at = "cleared"
  PROVE  CInv'
<1>1. \A u \in Tasks : round'[u] = IF u = t THEN q ELSE round[u]
  BY DEF CInv, TInv, TypeOK
<1>2. /\ clock \in Time /\ clock' \in Time /\ cache \in Cache
      /\ \A u \in Tasks : round[u] \in Round
  BY DEF CInv, TInv, TypeOK
<1>3. TimesPassed(cache', clock')
  <2>1. TimesPassed(cache, clock')
    BY <1>2, StaysClocked DEF CInv
  <2>2. TimesPassed(EmptyCache, clock')
    BY DEF TimesPassed, EmptyCache
  <2>. QED
    BY <2>1, <2>2
<1>4. ASSUME NEW u \in Tasks PROVE Clocked(round'[u], clock')
  <2>1. Clocked(round[u], clock')
    BY <1>2, StaysClocked DEF CInv
  <2>. QED
    BY <1>1, <2>1
<1>5. ASSUME LoopFree', NEW u \in InFlight' \ overtaken' PROVE Fits(round'[u], cache')
  <2>1. u \in Tasks /\ round'[u].at \in {"context", "probing"} /\ UNCHANGED cache
    BY <1>1, <1>5 DEF LoopFree, InFlight
  <2>2. CASE u = t
    BY <1>1, <1>5, <2>1, <2>2
  <2>3. CASE u # t
    <3>1. u \in InFlight \ overtaken
      BY <1>1, <1>5, <2>1, <2>3 DEF InFlight
    <3>2. Fits(round[u], cache)
      BY <3>1 DEF CInv, NotOvertaken
    <3>. QED
      BY <1>1, <2>1, <2>3, <3>2
  <2>. QED
    BY <2>2, <2>3
<1>6. NotOvertaken'
  BY <1>5 DEF NotOvertaken
<1>. QED
  BY <1>3, <1>4, <1>6 DEF CInv

LEMMA NextEntryFits ==
  ASSUME CInv, TInv', LoopFree, NEW t \in Tasks, NEW r \in Round, NextEntry(t, r),
         clock <= clock', Clocked(r, clock'), overtaken' = overtaken,
         t \notin overtaken => Composes(r, cache) /\ TimesPassed(cache, r.now)
  PROVE  CInv'
<1>. DEFINE left == {n \in Nodes : r.entries[n] # Absent /\ r.composed[n] = Absent}
<1>0. clock \in Time /\ clock' \in Time /\ cache \in Cache
  BY DEF CInv, TInv, TypeOK
<1>1. ASSUME NEW n \in left,
             round' = [round EXCEPT ![t] =
               [r EXCEPT !.at = "probing", !.node = n, !.prev = cache[n]]],
             UNCHANGED cache
      PROVE  CInv'
  <2>. DEFINE q == [r EXCEPT !.at = "probing", !.node = n, !.prev = cache[n]]
  <2>1. /\ q.at = "probing" /\ q.prev = cache[n] /\ q.node = n
        /\ q.now = r.now /\ q.composed = r.composed
    BY DEF Round
  <2>2. round' = [round EXCEPT ![t] = q]
    BY <1>1
  <2>. HIDE DEF q
  <2>3. TimesPassed(cache, clock')
    BY <1>0, StaysClocked DEF CInv
  <2>4. Clocked(q, clock')
    BY <2>1, <2>3 DEF Clocked, TimesPassed
  <2>5. t \notin overtaken => Fits(q, cache)
    BY <2>1 DEF Fits, Composes
  <2>. QED
    BY <1>1, <2>1, <2>2, <2>4, <2>5, OneTaskFits
<1>2. ASSUME round' = [round EXCEPT ![t] =
               [r EXCEPT !.at = "cleared", !.node = Absent, !.prev = Absent]],
             cache' = EmptyCache
      PROVE  CInv'
  <2>. DEFINE q == [r EXCEPT !.at = "cleared", !.node = Absent, !.prev = Absent]
  <2>1. q.at = "cleared" /\ q.prev = Absent /\ q.now = r.now /\ q.composed = r.composed
    BY DEF Round
  <2>2. round' = [round EXCEPT ![t] = q]
    BY <1>2
  <2>. HIDE DEF q
  <2>3. Clocked(q, clock')
    BY <2>1 DEF Clocked
  <2>. QED
    BY <1>2, <2>1, <2>2, <2>3, OneTaskFits
<1>. QED
  BY <1>1, <1>2 DEF NextEntry

\* The locals of a round that has awaited its first probe, and of one whose
\* probe returned.
LEMMA ContextFits ==
  ASSUME CInv, NEW t \in Tasks, ContextReady(t), NEW r, r = [round[t] EXCEPT !.now = clock']
  PROVE  /\ r \in Round /\ clock <= clock' /\ Clocked(r, clock')
         /\ t \notin overtaken => Composes(r, cache) /\ TimesPassed(cache, r.now)
<1>1. clock \in Time /\ round[t] \in Round /\ cache \in Cache
  BY DEF CInv, TInv, TypeOK
<1>2. clock' \in Time /\ clock <= clock'
  BY <1>1, RegistryAssumption DEF ContextReady, Time
<1>3. r \in Round /\ r.now = clock' /\ r.prev = round[t].prev /\ r.composed = round[t].composed
  BY <1>1, <1>2 DEF Round
<1>4. clock' <= clock'
  BY <1>2, RegistryAssumption DEF Time
<1>5. Clocked(r, clock')
  <2>1. Clocked(round[t], clock')
    BY <1>1, <1>2, StaysClocked DEF CInv
  <2>. QED
    BY <1>3, <1>4, <2>1 DEF Clocked
<1>6. TimesPassed(cache, r.now)
  BY <1>1, <1>2, <1>3, StaysClocked DEF CInv
<1>7. t \notin overtaken => Composes(r, cache)
  <2>. SUFFICES ASSUME t \notin overtaken PROVE Composes(r, cache)
    OBVIOUS
  <2>1. LoopFree /\ t \in InFlight /\ round[t].at = "context"
    BY DEF ContextReady, InFlight
  <2>2. round[t].composed = EmptyCache
    BY <2>1 DEF CInv, NotOvertaken, Fits
  <2>. QED
    BY <1>3, <2>2 DEF Composes, EmptyCache
<1>. QED
  BY <1>2, <1>3, <1>5, <1>6, <1>7

LEMMA ProbeFits ==
  ASSUME CInv, NEW t \in Tasks, NEW ok \in BOOLEAN, ProbeReturns(t, ok), NEW r,
         r = [round[t] EXCEPT !.composed[round[t].node] = Compose(round[t], ok)]
  PROVE  /\ r \in Round /\ Clocked(r, clock)
         /\ t \notin overtaken => Composes(r, cache) /\ TimesPassed(cache, r.now)
<1>1. PICK old \in Round : old = round[t]
  BY DEF CInv, TInv, TypeOK
<1>2. /\ clock \in Nat /\ cache \in Cache /\ old.at = "probing"
      /\ old.node \in Nodes /\ old.entries[old.node] # Absent
  BY <1>1, RegistryAssumption DEF CInv, TInv, TypeOK, Time, ProbesLoadedEntry, ProbeReturns
<1>3. PICK s \in Status : s = Compose(old, ok)
  BY <1>2, ComposeType
<1>4. /\ s.probedAt = old.now
      /\ s.okAt = IF ok THEN old.now ELSE IF old.prev = Absent THEN 0 ELSE old.prev.okAt
      /\ s.firstSeen = IF old.prev = Absent THEN old.now ELSE old.prev.firstSeen
  BY <1>3 DEF Compose
<1>5. /\ old.now \in Nat /\ old.composed \in Cache
      /\ old.prev # Absent => old.prev.okAt \in Nat /\ old.prev.firstSeen \in Nat
  BY RegistryAssumption DEF Round, Status, Time
<1>6. r = [old EXCEPT !.composed = [old.composed EXCEPT ![old.node] = s]]
  BY <1>1, <1>3
<1>7. /\ r.now = old.now /\ r.prev = old.prev
      /\ \A n \in Nodes : r.composed[n] = IF n = old.node THEN s ELSE old.composed[n]
  BY <1>2, <1>5, <1>6 DEF Round, Cache
<1>8. r \in Round
  BY <1>2, <1>5, <1>6 DEF Round, Cache
<1>9. Clocked(old, clock)
  BY <1>1 DEF CInv
<1>10. UpTo(s, clock)
  BY <1>2, <1>4, <1>5, <1>9 DEF UpTo, Clocked
<1>11. Clocked(r, clock)
  BY <1>7, <1>9, <1>10 DEF Clocked, TimesPassed
<1>12. t \notin overtaken => Composes(r, cache) /\ TimesPassed(cache, r.now)
  <2>. SUFFICES ASSUME t \notin overtaken
                PROVE  Composes(r, cache) /\ TimesPassed(cache, r.now)
    OBVIOUS
  <2>1. Fits(old, cache)
    BY <1>1, <1>2 DEF CInv, NotOvertaken, ProbeReturns, InFlight
  <2>2. old.prev = cache[old.node] /\ TimesPassed(cache, old.now) /\ Composes(old, cache)
    BY <1>2, <2>1 DEF Fits
  <2>3. old.prev # Absent => old.prev.firstSeen <= old.now /\ old.prev.okAt <= old.now
    BY <1>2, <2>2 DEF TimesPassed, UpTo
  <2>4. s.firstSeen <= s.probedAt /\ s.okAt <= s.probedAt
    BY <1>4, <1>5, <2>3
  <2>5. old.prev # Absent => s.firstSeen = old.prev.firstSeen /\ s.okAt >= old.prev.okAt
    BY <1>4, <1>5, <2>3
  <2>6. CarriesOver(s, cache[old.node])
    BY <2>2, <2>4, <2>5 DEF CarriesOver
  <2>. QED
    BY <1>7, <2>2, <2>6 DEF Composes
<1>. QED
  BY <1>8, <1>11, <1>12

LEMMA CInvStep == CInv /\ [Next]_vars => CInv'
<1>. SUFFICES ASSUME CInv, [Next]_vars PROVE CInv'
  OBVIOUS
<1>0. TInv /\ TInv'
  BY TInvStep DEF CInv
<1>1. clock \in Time /\ clock \in Nat
  BY <1>0, RegistryAssumption DEF TInv, TypeOK, Time
<1>2. ASSUME NEW t \in Tasks, NEW content, NEW log, NEW writes, LoopFree,
             BeginRound(t, content, log, writes), UNCHANGED <<cache, clock>>
      PROVE  CInv'
  <2>. DEFINE q == Locals("context", content, Len(log), writes)
  <2>1. round' = [round EXCEPT ![t] = q] /\ overtaken' = overtaken \ {t}
    BY <1>2 DEF BeginRound
  <2>2. Clocked(q, clock) /\ q.composed = EmptyCache /\ q.at = "context"
    BY <1>1, LocalsClocked
  <2>. HIDE DEF q
  <2>3. Fits(q, cache)
    BY <2>2 DEF Fits
  <2>4. clock <= clock' /\ Clocked(q, clock')
    BY <1>1, <1>2, <2>2
  <2>. QED
    BY <1>0, <1>2, <2>1, <2>2, <2>3, <2>4, OneTaskFits
<1>3. ASSUME NEW t \in Tasks, LoopFree, UNCHANGED <<cache, clock, overtaken>>,
             NEW place, place \notin {"context", "probing", "cleared"},
             round' = [round EXCEPT ![t] = At(place)]
      PROVE  CInv'
  <2>. DEFINE q == At(place)
  <2>1. Clocked(q, clock) /\ q.at = place
    BY <1>1, AtClocked
  <2>2. round' = [round EXCEPT ![t] = q]
    BY <1>3
  <2>. HIDE DEF q
  <2>3. clock <= clock' /\ Clocked(q, clock')
    BY <1>1, <1>3, <2>1
  <2>. QED
    BY <1>0, <1>3, <2>1, <2>2, <2>3, OneTaskFits
<1>4. ASSUME NEW t \in Tasks, Load(t) PROVE CInv'
  BY <1>2, <1>4 DEF Load
<1>5. ASSUME NEW t \in Tasks, LoadFails(t) PROVE CInv'
  <2>1. Over(t) = At("idle") \/ Over(t) = At("done")
    BY DEF Over
  <2>. QED
    BY <1>3, <1>5, <2>1 DEF LoadFails
<1>6. ASSUME NEW t \in Tasks, ContextReady(t) PROVE CInv'
  <2>1. PICK r : r = [round[t] EXCEPT !.now = clock']
    OBVIOUS
  <2>2. /\ r \in Round /\ clock <= clock' /\ Clocked(r, clock')
        /\ t \notin overtaken => Composes(r, cache) /\ TimesPassed(cache, r.now)
    BY <1>6, <2>1, ContextFits
  <2>3. NextEntry(t, r) /\ LoopFree /\ UNCHANGED overtaken
    BY <1>6, <2>1 DEF ContextReady
  <2>. QED
    BY <1>0, <2>2, <2>3, NextEntryFits
<1>7. ASSUME NEW t \in Tasks, NEW ok \in BOOLEAN, ProbeReturns(t, ok) PROVE CInv'
  <2>1. PICK r : r = [round[t] EXCEPT !.composed[round[t].node] = Compose(round[t], ok)]
    OBVIOUS
  <2>2. /\ r \in Round /\ Clocked(r, clock)
        /\ t \notin overtaken => Composes(r, cache) /\ TimesPassed(cache, r.now)
    BY <1>7, <2>1, ProbeFits
  <2>3. NextEntry(t, r) /\ LoopFree /\ UNCHANGED <<overtaken, clock>>
    BY <1>7, <2>1 DEF ProbeReturns
  <2>4. clock <= clock' /\ Clocked(r, clock')
    BY <1>1, <2>2, <2>3
  <2>. QED
    BY <1>0, <2>2, <2>3, <2>4, NextEntryFits
<1>8. ASSUME NEW t \in Tasks, Publish(t) PROVE CInv'
  <2>1. /\ cache' = round[t].composed /\ UNCHANGED clock
        /\ round' = [round EXCEPT ![t] = Over(t)]
        /\ overtaken' = (overtaken \cup InFlight) \ {t}
    BY <1>8 DEF Publish
  <2>2. Over(t).at \in {"idle", "done"} /\ Clocked(Over(t), clock)
    BY <1>1, AtClocked DEF Over
  <2>3. \A u \in Tasks : round'[u] = IF u = t THEN Over(t) ELSE round[u]
    BY <1>0, <2>1 DEF TInv, TypeOK
  <2>4. InFlight' \subseteq overtaken'
    BY <2>1, <2>2, <2>3 DEF InFlight
  <2>5. TimesPassed(cache', clock')
    BY <2>1 DEF CInv, Clocked
  <2>6. ASSUME NEW u \in Tasks PROVE Clocked(round'[u], clock')
    BY <2>1, <2>2, <2>3 DEF CInv
  <2>7. NotOvertaken'
    BY <2>4 DEF NotOvertaken
  <2>. QED
    BY <1>0, <2>5, <2>6, <2>7 DEF CInv
<1>9. ASSUME NEW r \in Requests, WriteRequest(r) PROVE CInv'
  <2>1. r \in Tasks
    BY DEF Tasks
  <2>2. ASSUME Rejected(r) \/ SaveFails(r), LoopFree PROVE CInv'
    BY <1>3, <2>1, <2>2 DEF Rejected, SaveFails
  <2>3. ASSUME NEW content, Save(r, content), LoopFree PROVE CInv'
    BY <1>2, <2>1, <2>3 DEF Save
  <2>4. LoopFree /\ (Rejected(r) \/ SaveFails(r) \/ \E content : Save(r, content))
    <3>1. ASSUME NEW n \in Nodes, DeleteNode(r, n)
          PROVE  LoopFree /\ (Rejected(r) \/ SaveFails(r) \/ \E content : Save(r, content))
      BY <3>1 DEF DeleteNode, Receives
    <3>2. ASSUME NEW n \in Nodes, NEW e \in Entries, CreateNode(r, n, e) \/ PatchOne(r, n, e)
          PROVE  LoopFree /\ (Rejected(r) \/ SaveFails(r) \/ \E content : Save(r, content))
      BY <3>2 DEF CreateNode, PatchOne, Receives
    <3>. QED
      BY <1>9, <3>1, <3>2 DEF WriteRequest
  <2>. QED
    BY <2>2, <2>3, <2>4
<1>10. ASSUME UNCHANGED <<cache, clock, round, overtaken>> PROVE CInv'
  BY <1>0, <1>10 DEF CInv, NotOvertaken, LoopFree, InFlight
<1>11. ASSUME NEW d \in Readers, ReaderStep(d) PROVE CInv'
  BY <1>10, <1>11 DEF ReaderStep, ListNodes, GetNode
<1>12. ASSUME Crash PROVE CInv'
  <2>1. /\ cache' = EmptyCache /\ UNCHANGED clock
        /\ \A t \in Tasks : \/ round'[t] = At("lost") \/ round'[t] = At("idle")
                            \/ round'[t] = round[t] /\ t \notin InFlight
    BY <1>12 DEF Crash
  <2>2. Clocked(At("lost"), clock) /\ Clocked(At("idle"), clock)
    BY <1>1, AtClocked
  <2>3. \A t \in Tasks : Clocked(round'[t], clock')
    BY <2>1, <2>2 DEF CInv
  <2>4. TimesPassed(cache', clock')
    BY <2>1 DEF TimesPassed, EmptyCache
  <2>5. InFlight' = {}
    BY <2>1 DEF InFlight, At, Locals
  <2>6. NotOvertaken'
    BY <2>5 DEF NotOvertaken
  <2>. QED
    BY <1>0, <2>3, <2>4, <2>6 DEF CInv
<1>13. EditFile \/ UNCHANGED vars => UNCHANGED <<cache, clock, round, overtaken>>
  BY DEF EditFile, vars
<1>. QED
  BY <1>4, <1>5, <1>6, <1>7, <1>8, <1>9, <1>10, <1>11, <1>12, <1>13 DEF Next, RoundStep

LEMMA CInvInit == Init => CInv
<1>. SUFFICES ASSUME Init PROVE CInv
  OBVIOUS
<1>1. TInv /\ clock \in Time
  BY TInvInit DEF TInv, TypeOK
<1>2. \A t \in Tasks : round[t].at = "idle" /\ Clocked(round[t], clock)
  BY <1>1, AtClocked DEF Init
<1>3. InFlight = {}
  BY <1>2 DEF InFlight
<1>4. TimesPassed(cache, clock)
  BY DEF Init, TimesPassed, EmptyCache
<1>. QED
  BY <1>1, <1>2, <1>3, <1>4 DEF CInv, NotOvertaken

\* A round ends composing when no entry is left, with what it composed last.
LEMMA ClearsWithComposed ==
  ASSUME TInv, NEW t \in Tasks, NEW r \in Round, NextEntry(t, r), round'[t].at = "cleared"
  PROVE  round'[t].composed = r.composed
<1>. DEFINE left == {n \in Nodes : r.entries[n] # Absent /\ r.composed[n] = Absent}
            q == [r EXCEPT !.at = "cleared", !.node = Absent, !.prev = Absent]
<1>1. ASSUME NEW n \in left,
             round' = [round EXCEPT ![t] =
               [r EXCEPT !.at = "probing", !.node = n, !.prev = cache[n]]]
      PROVE  FALSE
  <2>1. round'[t] = [r EXCEPT !.at = "probing", !.node = n, !.prev = cache[n]]
    BY <1>1 DEF TInv, TypeOK
  <2>. QED
    BY <2>1 DEF Round
<1>2. round' = [round EXCEPT ![t] = q]
  BY <1>1 DEF NextEntry
<1>3. q.composed = r.composed
  BY DEF Round
<1>. HIDE DEF q
<1>. QED
  BY <1>2, <1>3 DEF TInv, TypeOK

\* Only a round that is given its context or an answer may end composing.
LEMMA WhoClears ==
  ASSUME TInv, [Next]_vars, NEW t \in Tasks, round[t].at # "cleared", round'[t].at = "cleared"
  PROVE  ContextReady(t) \/ \E ok \in BOOLEAN : ProbeReturns(t, ok)
<1>. DEFINE Changes(u) == \E q : round' = [round EXCEPT ![u] = q]
<1>0. round \in [Tasks -> Round]
  BY DEF TInv, TypeOK
<1>1. ASSUME NEW u \in Tasks, NEW q, round' = [round EXCEPT ![u] = q]
      PROVE  u = t /\ q.at = "cleared"
  BY <1>0, <1>1
<1>2. \A place : At(place).at = place
  BY DEF At, Locals
<1>3. ASSUME NEW u \in Tasks, RoundStep(u)
      PROVE  ContextReady(t) \/ \E ok \in BOOLEAN : ProbeReturns(t, ok)
  <2>1. ~ Load(u)
    BY <1>1 DEF Load, BeginRound, Locals
  <2>2. ~ LoadFails(u)
    BY <1>1, <1>2 DEF LoadFails, Over
  <2>3. ~ Publish(u)
    BY <1>1, <1>2 DEF Publish, Over
  <2>4. ASSUME NEW r, NextEntry(u, r) PROVE u = t
    BY <1>1, <2>4 DEF NextEntry
  <2>. QED
    BY <1>3, <2>1, <2>2, <2>3, <2>4 DEF RoundStep, ContextReady, ProbeReturns
<1>4. ASSUME NEW r \in Requests, WriteRequest(r) PROVE FALSE
  <2>0. r \in Tasks
    BY DEF Tasks
  <2>1. ~ Rejected(r) /\ ~ SaveFails(r)
    BY <1>1, <1>2, <2>0 DEF Rejected, SaveFails
  <2>2. ASSUME NEW content, Save(r, content) PROVE FALSE
    BY <1>1, <2>0, <2>2 DEF Save, BeginRound, Locals
  <2>. QED
    BY <1>4, <2>1, <2>2 DEF WriteRequest, DeleteNode, CreateNode, PatchOne
<1>5. ~ Crash
  BY <1>2 DEF Crash
<1>6. ASSUME NEW d \in Readers, ReaderStep(d) PROVE FALSE
  BY <1>6 DEF ReaderStep, ListNodes, GetNode
<1>7. ~ EditFile /\ ~ UNCHANGED vars
  BY DEF EditFile, vars
<1>. QED
  BY <1>3, <1>4, <1>5, <1>6, <1>7 DEF Next

\* A round that no other round was published under hands over, for each entry,
\* when it was first seen and a last answer no older than the one shown before;
\* neither time is later than the probe that reports it.
THEOREM HistoryAlwaysCarriedOver == Spec => HistoryCarriedOver
<1>1. CInv /\ [Next]_vars =>
        [\A t \in Tasks \ overtaken :
           round[t].at # "cleared" /\ round'[t].at = "cleared" =>
             \A n \in Nodes : LET new == round'[t].composed[n] IN
               new # Absent =>
                 /\ new.firstSeen <= new.probedAt
                 /\ new.okAt <= new.probedAt
                 /\ cache[n] # Absent => /\ new.firstSeen = cache[n].firstSeen
                                        /\ new.okAt >= cache[n].okAt]_vars
  <2>. SUFFICES ASSUME CInv, [Next]_vars, NEW t \in Tasks \ overtaken,
                       round[t].at # "cleared", round'[t].at = "cleared",
                       NEW n \in Nodes, round'[t].composed[n] # Absent
                PROVE  CarriesOver(round'[t].composed[n], cache[n])
    BY DEF CarriesOver
  <2>1. ASSUME NEW r \in Round, NextEntry(t, r), Composes(r, cache)
        PROVE  CarriesOver(round'[t].composed[n], cache[n])
    <3>1. round'[t].composed = r.composed
      BY <2>1, ClearsWithComposed DEF CInv
    <3>. QED
      BY <2>1, <3>1 DEF Composes
  <2>2. CASE ContextReady(t)
    <3>1. PICK r : r = [round[t] EXCEPT !.now = clock']
      OBVIOUS
    <3>2. NextEntry(t, r)
      BY <2>2, <3>1 DEF ContextReady
    <3>. QED
      BY <2>1, <2>2, <3>1, <3>2, ContextFits
  <2>3. ASSUME NEW ok \in BOOLEAN, ProbeReturns(t, ok)
        PROVE  CarriesOver(round'[t].composed[n], cache[n])
    <3>1. PICK r : r = [round[t] EXCEPT !.composed[round[t].node] = Compose(round[t], ok)]
      OBVIOUS
    <3>2. NextEntry(t, r)
      BY <2>3, <3>1 DEF ProbeReturns
    <3>. QED
      BY <2>1, <2>3, <3>1, <3>2, ProbeFits
  <2>. QED
    BY <2>2, <2>3, WhoClears DEF CInv
<1>. QED
  BY <1>1, CInvInit, CInvStep, PTL DEF Spec, HistoryCarriedOver
=============================================================================
