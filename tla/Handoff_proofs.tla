--------------------------- MODULE Handoff_proofs ---------------------------
(***************************************************************************)
(* Proofs about the hand-off from a replay to the live stream: which rows  *)
(* a connection can miss or get twice when the streamer, the replay and    *)
(* the writers of the table interleave in any order.                       *)
(***************************************************************************)
EXTENDS EventStream_proofs

-----------------------------------------------------------------------------
(***************************************************************************)
(* The inductive invariant.                                                *)
(***************************************************************************)
\* No two rows share an id, in the log or about to be.
UniqueIds ==
    /\ \A e \in log : e.id < nextId
    /\ \A e, f \in log : e.id = f.id => e = f
    /\ \A w \in Writers : ins[w].phase = "drawn" =>
        /\ ins[w].row.id < nextId
        /\ \A e \in log : e.id # ins[w].row.id
        /\ \A v \in Writers \ {w} :
              ins[v].phase = "drawn" => ins[v].row.id # ins[w].row.id

\* The first timestamp a replay asks for.
From(r) == r.last + ZoneShift

\* A replay holds rows of the table only.  While it sends history the rows
\* left are not older than those sent, of which the last is remembered, and
\* none is older than last_seen; once it is past history, it has sent what its
\* connection had of the rows that the gap query can find.
Sound(r) ==
    /\ r.pc \in {"idle", "lock", "query", "clear"} =>
          r.got = {} /\ r.lastID = 0 /\ r.lastTime = 0
    /\ r.rows \cup r.got \subseteq log
    /\ r.lastID > 0 => \E e \in r.got : e.id = r.lastID
    /\ r.pc \in {"query", "history"} => r.last \in LastSeens
    /\ r.pc = "history" => \A e \in r.rows : r.lastTime <= e.ts /\ From(r) <= e.ts
    /\ r.pc = "history" /\ r.lastID > 0 => From(r) <= r.lastTime
    /\ r.pc \in {"history", "readId", "gapQuery"} => \A e \in r.got : e.ts <= r.lastTime
    /\ r.pc \in {"readId", "gapQuery"} => \A e \in r.had : e.ts <= r.lastTime \/ e \in r.got
    /\ r.pc = "gap" => \A e \in r.rows \cap (r.got \cup r.had) : e.ts = r.lastTime

\* Rows that a connection has from the streamer, or can get from the broadcast
\* under way.
Coming(c) ==
    live[c] \cup
    IF c \in targets \/ (spc \in {"scan", "pick", "send"} /\ c \in activeClients)
    THEN batch ELSE {}

\* While a replay sends history, all of these that it asked for are in it.
Covered(c, r) ==
    r.pc = "history" =>
        \A e \in Coming(c) : From(r) <= e.ts => e \in r.rows \cup r.got

ReplayInv == \A c \in Clients, k \in Subs :
                Sound(rep[<<c, k>>]) /\ Covered(c, rep[<<c, k>>])

Alive(c) == conn[c] \in {"open", "stalled"}

\* A connection with a replay is subscribed; a row that is being sent reaches
\* every connection of the snapshot; the streamed id is never behind.
DeliveryInv ==
    /\ \A c \in Clients, k \in Subs :
          rep[<<c, k>>].pc # "idle" => subscribed[c] /\ conn[c] # "new"
    /\ \A c \in scan \cup activeClients : conn[c] # "new"
    /\ spc \in {"pick", "send"} => scan = {}
    /\ spc = "send" =>
          \A c \in activeClients : Alive(c) => c \in targets \/ cur \in live[c]
    /\ \A e \in Broadcast : e.id <= lastStreamedEventID

\* A replay past its history, the only one of a living connection.
HandingOff(c, k) ==
    /\ Alive(c)
    /\ OnlyRequest(c, k)
    /\ rep[<<c, k>>].pc \in {"gapQuery", "gap", "done"}
    /\ rep[<<c, k>>].lastID > 0

\* What a row broadcast by now is to the connection: it has it or misses it
\* for a reason, or the replay is still to fetch or to send it.
Accounted(e, c, r) ==
    \/ Behind(e, r)
    \/ e.id = r.lastID
    \/ e \in live[c] \cup r.got \cup r.stale
    \/ r.pc = "gapQuery" /\ e.id <= r.upTo
    \/ r.pc = "gap" /\ e \in r.rows

\* A broadcast under way includes the connection or is the stale one.
Included(c, r) ==
    spc \in {"scan", "pick", "send"} => batch \subseteq r.stale \/ c \in scan \cup activeClients

HandoffInv ==
    \A c \in Clients, k \in Subs : HandingOff(c, k) =>
        LET r == rep[<<c, k>>]
        IN  (\A e \in Broadcast : Accounted(e, c, r)) /\ Included(c, r)

-----------------------------------------------------------------------------
(***************************************************************************)
(* Ids.                                                                    *)
(***************************************************************************)
\* The sequence hands out each id once, so no step of a writer makes two rows
\* share one (events.sql.go, InsertEvent).
LEMMA UniqueIdsStep ==
    ASSUME LogTypeOK, UniqueIds, LogNext
    PROVE  UniqueIds'
<1> USE DEF LogTypeOK, Insert, Row
<1>1. CASE Tick
  BY <1>1 DEF Tick, UniqueIds
<1>2. ASSUME NEW w \in Writers, BeginInsert(w) \/ AbortInsert(w) PROVE UniqueIds'
  <2>1. /\ \A v \in Writers \ {w} : ins'[v] = ins[v]
        /\ ins'[w].phase # "drawn" /\ UNCHANGED <<nextId, log>>
    BY <1>2 DEF BeginInsert, AbortInsert, IdleInsert
  <2> QED
    BY <2>1 DEF UniqueIds
<1>3. ASSUME NEW w \in Writers, DrawId(w) PROVE UniqueIds'
  <2>1. /\ \A v \in Writers \ {w} : ins'[v] = ins[v]
        /\ ins'[w].row.id = nextId /\ nextId' = nextId + 1 /\ log' = log
    BY <1>3 DEF DrawId
  <2>2. \A v \in Writers : ins[v].row.id \in Nat
    OBVIOUS
  <2>3. \A e \in log : e.id \in Nat
    OBVIOUS
  <2> QED
    BY <2>1, <2>2, <2>3 DEF UniqueIds
<1>4. ASSUME NEW w \in Writers, CommitInsert(w) PROVE UniqueIds'
  <2>1. /\ \A v \in Writers \ {w} : ins'[v] = ins[v]
        /\ ins[w].phase = "drawn" /\ ins'[w].phase = "idle"
        /\ nextId' = nextId /\ log' = log \cup {ins[w].row}
    BY <1>4 DEF CommitInsert, IdleInsert
  <2> QED
    BY <2>1 DEF UniqueIds
<1> QED
  BY <1>1, <1>2, <1>3, <1>4 DEF LogNext, InsertNext

\* Only writers change the table.
LEMMA OnlyWritersWrite ==
    ASSUME [Next]_vars, ~TableStep
    PROVE  UNCHANGED logVars
<1>1. CASE UNCHANGED vars \/ StreamIdle \/ Start \/ Crash \/ StreamerStep
  BY <1>1 DEF vars, StreamIdle, Start, Crash, StreamerStep, StreamStart, StreamQuery,
     LockClients, ScanClient, PickEvent, SendLive, AdvanceCursor, Reads
<1>2. ASSUME NEW c \in Clients, ConnectionNext(c) PROVE UNCHANGED logVars
  BY <1>2 DEF ConnectionNext, Connect, Stall, Resume, Break, Disconnect, Subscribe, Reads
<1>3. ASSUME NEW c \in Clients, NEW k \in Subs, ReplayStep(c, k) PROVE UNCHANGED logVars
  BY <1>3 DEF ReplayStep, Lock, HistoryQuery, HistoryQueryFails, SendHistory,
     SendHistoryFails, ClearHistory, ReadStreamedId, GapQuery, GapQueryFails,
     SendGap, SendGapFails, GapDone, Reads
<1> QED
  BY <1>1, <1>2, <1>3 DEF Next

\* Rows of the table are told apart by their ids.
THEOREM IdsAreUnique == Spec => []UniqueIds
<1>1. Init => UniqueIds
  BY DEF Init, LogInit, IdleInsert, UniqueIds
<1>2. TypeOK /\ UniqueIds /\ [Next]_vars => UniqueIds'
  <2> SUFFICES ASSUME TypeOK, UniqueIds, [Next]_vars PROVE UniqueIds'
    OBVIOUS
  <2>1. CASE TableStep
    BY <2>1, UniqueIdsStep DEF TableStep, TypeOK
  <2>2. CASE ~TableStep
    BY <2>2, OnlyWritersWrite DEF logVars, UniqueIds
  <2> QED
    BY <2>1, <2>2
<1> QED
  BY <1>1, <1>2, TypeCorrect, PTL DEF Spec

-----------------------------------------------------------------------------
(***************************************************************************)
(* What a step of a replay does to its local variables.                    *)
(***************************************************************************)
Kept(r, q) == q.got = r.got /\ q.lastID = r.lastID /\ q.lastTime = r.lastTime

\* One row of those left, an earliest one, is delivered.
Delivers(r, q, e) ==
    /\ e \in Earliest(r.rows)
    /\ q.pc = r.pc
    /\ q.rows = r.rows \ {e}
    /\ q.got = r.got \cup {e}

\* From state r to state q, up to the end of history and past it.
HistoryMove(c, r, q) ==
    \/ r.pc = "lock" /\ q.pc \in {"query", "clear"} /\ q.rows = r.rows /\ Kept(r, q)
          /\ (q.pc = "query" => q.last \in LastSeens)
    \/ r.pc = "query" /\ q.pc = "history" /\ q.rows = RowsFrom(From(r)) /\ Kept(r, q)
          /\ q.last = r.last
    \/ q.pc = "failed" /\ q.rows = {} /\ Kept(r, q)
    \/ r.pc = "history" /\ \E e \in r.rows :
          Delivers(r, q, e) /\ q.lastID = e.id /\ q.lastTime = e.ts /\ q.last = r.last
    \/ (r.pc = "clear" \/ (r.pc = "history" /\ r.rows = {}))
          /\ r.lastID > 0 /\ q.pc = "readId" /\ q.rows = r.rows /\ Kept(r, q)
          /\ q.had = live[c]
    \/ q.pc = "done" /\ r.lastID = 0 /\ q.rows = {} /\ Kept(r, q)

GapMove(c, r, q) ==
    \/ r.pc = "readId" /\ q.pc = "gapQuery" /\ q.rows = r.rows /\ Kept(r, q)
          /\ q.upTo = lastStreamedEventID /\ q.stale = BroadcastWithout(c) /\ q.had = r.had
    \/ r.pc = "readId" /\ q.pc = "done" /\ q.rows = r.rows /\ Kept(r, q)
          /\ lastStreamedEventID <= r.lastID /\ q.stale = BroadcastWithout(c)
    \/ r.pc = "gapQuery" /\ q.pc = "gap" /\ q.rows = GapRows(r) /\ Kept(r, q)
          /\ q.stale = r.stale /\ q.had = r.had
    \/ r.pc = "gap" /\ \E e \in r.rows :
          Delivers(r, q, e) /\ q.lastID = r.lastID /\ q.lastTime = r.lastTime
          /\ q.stale = r.stale /\ q.had = r.had
    \/ r.pc = "gap" /\ r.rows = {} /\ q.pc = "done" /\ q.rows = {} /\ Kept(r, q)
          /\ q.stale = r.stale

\* A return leaves what was delivered and remembered as it is.
LEMMA ReturnMove ==
    ASSUME TypeOK, NEW c \in Clients, NEW k \in Subs, NEW how \in {"done", "failed"},
           rep' = [rep EXCEPT ![<<c, k>>].pc = how, ![<<c, k>>].rows = {}]
    PROVE  LET r == rep[<<c, k>>]
               q == rep'[<<c, k>>]
           IN  q.pc = how /\ q.rows = {} /\ Kept(r, q) /\ q.stale = r.stale
<1>1. rep[<<c, k>>] \in ReplayState /\ <<c, k>> \in DOMAIN rep
  BY DEF TypeOK, Replays
<1>2. rep'[<<c, k>>] = [rep[<<c, k>>] EXCEPT !.pc = how, !.rows = {}]
  BY <1>1
<1> QED
  BY <1>1, <1>2 DEF Kept, ReplayState

\* Each step of a replay is one of these moves (events.go:120-197).
LEMMA ReplayEffect ==
    ASSUME TypeOK, NEW c \in Clients, NEW k \in Subs, ReplayStep(c, k)
    PROVE  \/ HistoryMove(c, rep[<<c, k>>], rep'[<<c, k>>])
           \/ GapMove(c, rep[<<c, k>>], rep'[<<c, k>>])
<1> DEFINE r == rep[<<c, k>>]
           q == rep'[<<c, k>>]
<1>1. r \in ReplayState /\ <<c, k>> \in DOMAIN rep
  BY DEF TypeOK, Replays
<1>2. LogTypeOK
  BY DEF TypeOK
<1>3. CASE Lock(c, k)
  <2>1. PICK p \in {"query", "clear"} :
          q = [r EXCEPT !.pc = p] /\ (p = "query" => r.last # NoLastSeen)
    BY <1>3, <1>1 DEF Lock
  <2>2. r.last # NoLastSeen => r.last \in LastSeens
    BY <1>1 DEF ReplayState
  <2> QED
    BY <1>1, <1>3, <2>1, <2>2 DEF Lock, HistoryMove, Kept, ReplayState
<1>4. CASE HistoryQuery(c, k)
  <2>1. q = [r EXCEPT !.rows = RowsFrom(From(r)), !.pc = "history"]
    BY <1>4, <1>1 DEF HistoryQuery, From
  <2> QED
    BY <1>1, <1>4, <2>1 DEF HistoryQuery, HistoryMove, Kept, ReplayState
<1>5. CASE HistoryQueryFails(c, k) \/ SendHistoryFails(c, k) \/ GapQueryFails(c, k)
           \/ SendGapFails(c, k)
  <2>1. rep' = [rep EXCEPT ![<<c, k>>].pc = "failed", ![<<c, k>>].rows = {}]
    BY <1>5 DEF HistoryQueryFails, SendHistoryFails, GapQueryFails, SendGapFails,
       ReturnFromHistory, Return
  <2> QED
    BY <2>1, ReturnMove DEF HistoryMove
<1>6. CASE SendHistory(c, k)
  <2>1. PICK e \in Earliest(r.rows) :
          q = [r EXCEPT !.rows = @ \ {e}, !.got = @ \cup {e},
                        !.lastID = e.id, !.lastTime = e.ts]
    BY <1>6, <1>1 DEF SendHistory
  <2>2. e \in r.rows /\ r.pc = "history"
    BY <1>6, EarliestSubset DEF SendHistory
  <2> QED
    BY <1>1, <2>1, <2>2 DEF HistoryMove, Delivers, ReplayState
<1>7. CASE ClearHistory(c, k)
  <2>1. /\ r.pc = "clear" \/ (r.pc = "history" /\ r.rows = {})
        /\ r.lastID \in Nat
    BY <1>7, <1>1 DEF ClearHistory, ReplayState
  <2>2. CASE r.lastID > 0
    <3>1. q = [r EXCEPT !.pc = "readId", !.had = live[c]]
      BY <1>7, <1>1, <2>2 DEF ClearHistory
    <3> QED
      BY <1>1, <2>1, <2>2, <3>1 DEF HistoryMove, Kept, ReplayState
  <2>3. CASE ~(r.lastID > 0)
    <3>1. rep' = [rep EXCEPT ![<<c, k>>].pc = "done", ![<<c, k>>].rows = {}]
      BY <1>7, <2>3 DEF ClearHistory, Return
    <3>2. q.pc = "done" /\ q.rows = {} /\ Kept(r, q)
      BY <3>1, ReturnMove
    <3>3. r.lastID = 0
      BY <2>1, <2>3
    <3> QED
      BY <3>2, <3>3 DEF HistoryMove
  <2> QED
    BY <2>2, <2>3
<1>8. CASE ReadStreamedId(c, k)
  <2>1. r.pc = "readId" /\ r.lastID \in Nat /\ lastStreamedEventID \in Nat
    BY <1>8, <1>1 DEF ReadStreamedId, ReplayState, TypeOK
  <2>2. CASE lastStreamedEventID > r.lastID
    <3>1. q = [r EXCEPT !.upTo = lastStreamedEventID, !.stale = BroadcastWithout(c),
                        !.pc = "gapQuery"]
      BY <1>8, <1>1, <2>2 DEF ReadStreamedId
    <3> QED
      BY <1>1, <2>1, <3>1 DEF GapMove, Kept, ReplayState
  <2>3. CASE ~(lastStreamedEventID > r.lastID)
    <3>1. q = [r EXCEPT !.stale = BroadcastWithout(c), !.pc = "done"]
      BY <1>8, <1>1, <2>3 DEF ReadStreamedId
    <3> QED
      BY <1>1, <2>1, <2>3, <3>1 DEF GapMove, Kept, ReplayState
  <2> QED
    BY <2>2, <2>3
<1>9. CASE GapQuery(c, k)
  <2>1. q = [r EXCEPT !.rows = GapRows(r), !.pc = "gap"] /\ r.pc = "gapQuery"
    BY <1>9, <1>1 DEF GapQuery
  <2> QED
    BY <1>1, <2>1 DEF GapMove, Kept, ReplayState
<1>10. CASE SendGap(c, k)
  <2>1. PICK e \in Earliest(r.rows) : q = [r EXCEPT !.rows = @ \ {e}, !.got = @ \cup {e}]
    BY <1>10, <1>1 DEF SendGap
  <2>2. e \in r.rows /\ r.pc = "gap"
    BY <1>10, EarliestSubset DEF SendGap
  <2> QED
    BY <1>1, <2>1, <2>2 DEF GapMove, Delivers, ReplayState
<1>11. CASE GapDone(c, k)
  <2>1. rep' = [rep EXCEPT ![<<c, k>>].pc = "done", ![<<c, k>>].rows = {}]
    BY <1>11 DEF GapDone, Return
  <2>2. r.pc = "gap" /\ r.rows = {}
    BY <1>11 DEF GapDone
  <2> QED
    BY <2>1, <2>2, ReturnMove DEF GapMove
<1> QED
  BY <1>3, <1>4, <1>5, <1>6, <1>7, <1>8, <1>9, <1>10, <1>11 DEF ReplayStep

\* A step of one replay leaves the others alone.
LEMMA OtherReplays ==
    ASSUME TypeOK, NEW c \in Clients, NEW k \in Subs, ReplayStep(c, k),
           NEW s \in Replays, s # <<c, k>>
    PROVE  rep'[s] = rep[s]
BY DEF TypeOK, ReplayStep, Lock, HistoryQuery, HistoryQueryFails, SendHistory,
   SendHistoryFails, ClearHistory, ReadStreamedId, GapQuery, GapQueryFails, SendGap,
   SendGapFails, GapDone, ReturnFromHistory, Return

\* A subscription: its replay is spawned, and has done nothing yet.
Spawned(r, q) == r.pc = "idle" /\ q.pc = "lock" /\ q.rows = r.rows /\ Kept(r, q)

\* A subscribe request changes its own replay only (events.go:103-118).
LEMMA SubscribeEffect ==
    ASSUME TypeOK, NEW c \in Clients, NEW k \in Subs, Subscribe(c, k)
    PROVE  /\ Spawned(rep[<<c, k>>], rep'[<<c, k>>])
           /\ \A s \in Replays : s # <<c, k>> => rep'[s] = rep[s]
<1>1. rep[<<c, k>>] \in ReplayState /\ <<c, k>> \in DOMAIN rep
  BY DEF TypeOK, Replays
<1>2. PICK ls \in LastSeens \cup {NoLastSeen} :
        rep' = [rep EXCEPT ![<<c, k>>].pc = "lock", ![<<c, k>>].last = ls]
  BY DEF Subscribe
<1>3. rep'[<<c, k>>] = [rep[<<c, k>>] EXCEPT !.pc = "lock", !.last = ls]
  BY <1>1, <1>2
<1>4. \A s \in Replays : s # <<c, k>> => rep'[s] = rep[s]
  BY <1>2 DEF TypeOK
<1> QED
  BY <1>1, <1>3, <1>4 DEF Spawned, Kept, ReplayState, Subscribe

\* All that a step of the living process can do to one replay.
LEMMA ReplayChange ==
    ASSUME TypeOK, [Next]_vars, ~Crash, NEW c \in Clients, NEW k \in Subs
    PROVE  LET r == rep[<<c, k>>]
               q == rep'[<<c, k>>]
           IN  \/ q = r
               \/ Subscribe(c, k) /\ Spawned(r, q)
               \/ ReplayStep(c, k) /\ (HistoryMove(c, r, q) \/ GapMove(c, r, q))
<1> DEFINE s == <<c, k>>
<1>1. s \in Replays
  BY DEF Replays
<1>2. CASE UNCHANGED rep
  BY <1>2
<1>3. ASSUME NEW d \in Clients, NEW j \in Subs, Subscribe(d, j)
      PROVE  rep'[s] = rep[s] \/ (Subscribe(c, k) /\ Spawned(rep[s], rep'[s]))
  BY <1>1, <1>3, SubscribeEffect
<1>4. ASSUME NEW d \in Clients, NEW j \in Subs, ReplayStep(d, j)
      PROVE  \/ rep'[s] = rep[s]
             \/ ReplayStep(c, k) /\ (HistoryMove(c, rep[s], rep'[s]) \/ GapMove(c, rep[s], rep'[s]))
  BY <1>1, <1>4, OtherReplays, ReplayEffect
<1>5. \/ UNCHANGED rep
      \/ \E d \in Clients, j \in Subs : Subscribe(d, j) \/ ReplayStep(d, j)
  <2>1. CASE TableStep \/ Start \/ StreamIdle \/ StreamerStep \/ UNCHANGED vars
    BY <2>1 DEF TableStep, Start, StreamIdle, vars, StreamerStep, StreamStart,
       StreamQuery, LockClients, ScanClient, PickEvent, SendLive, AdvanceCursor, replayVars
  <2>2. ASSUME NEW d \in Clients,
               Connect(d) \/ Stall(d) \/ Resume(d) \/ Break(d) \/ Disconnect(d)
        PROVE  UNCHANGED rep
    BY <2>2 DEF Connect, Stall, Resume, Break, Disconnect, replayVars
  <2> QED
    BY <2>1, <2>2 DEF Next, ConnectionNext
<1> QED
  BY <1>2, <1>3, <1>4, <1>5

-----------------------------------------------------------------------------
(***************************************************************************)
(* The local state of a replay is sound.                                   *)
(***************************************************************************)
\* The table only grows while the process lives.
LEMMA LogOnlyGrows == ASSUME [Next]_vars PROVE log \subseteq log'
BY LogGrows, OnlyWritersWrite DEF TableStep, logVars

\* Every move of a replay keeps its local state sound: history is sent in the
\* order of time, so the last row sent is the newest, and the gap starts there
\* (events.go:144-196).
LEMMA SoundMove ==
    ASSUME LogTypeOK, NEW c \in Clients, NEW r \in ReplayState, NEW q, Sound(r),
           Covered(c, r), live[c] \subseteq log,
           HistoryMove(c, r, q) \/ GapMove(c, r, q) \/ Spawned(r, q)
    PROVE  Sound(q)
<1> USE DEF Kept
<1>0. /\ \A e \in log : e.ts \in Nat /\ e.id \in Nat
      /\ r.lastTime \in Nat /\ r.lastID \in Nat
      /\ r.rows \subseteq log /\ r.got \subseteq log
  BY DEF LogTypeOK, Row, ReplayState, Sound
<1>1. CASE Spawned(r, q)
  BY <1>1 DEF Spawned, Sound
<1>2. ASSUME NEW e \in r.rows, r.pc = "history", Delivers(r, q, e),
             q.lastID = e.id, q.lastTime = e.ts, q.last = r.last
      PROVE  Sound(q)
  <2>1. /\ q.pc = "history" /\ q.rows = r.rows \ {e} /\ q.got = r.got \cup {e}
        /\ \A f \in r.rows : e.ts <= f.ts
    BY <1>2 DEF Delivers, Earliest
  <2>2. /\ r.lastTime <= e.ts /\ \A f \in r.got : f.ts <= r.lastTime
        /\ r.last \in LastSeens /\ \A f \in r.rows : From(r) <= f.ts
    BY <1>2 DEF Sound
  <2>3. \A f \in q.got : f.ts <= q.lastTime
    BY <1>0, <1>2, <2>1, <2>2
  <2>4. From(q) = From(r)
    BY <1>2 DEF From
  <2> QED
    BY <1>0, <1>2, <2>1, <2>2, <2>3, <2>4 DEF Sound
<1>3. CASE r.pc = "query" /\ q.pc = "history" /\ q.rows = RowsFrom(From(r)) /\ Kept(r, q)
           /\ q.last = r.last
  <2>1. r.last \in LastSeens /\ r.got = {} /\ r.lastID = 0 /\ r.lastTime = 0
    BY <1>3 DEF Sound
  <2>2. From(r) \in Int /\ From(q) = From(r)
    <3>1. r.last \in Int /\ ZoneShift \in Int
      BY <2>1, EventStreamAssumption
    <3>2. From(q) = From(r)
      BY <1>3 DEF From
    <3> QED
      BY <3>1, <3>2 DEF From
  <2>3. \A e \in q.rows : e \in log /\ From(r) <= e.ts
    BY <1>0, <1>3, <2>2 DEF RowsFrom
  <2> QED
    BY <1>0, <1>3, <2>1, <2>2, <2>3 DEF Sound
<1>4. CASE /\ r.pc = "history" /\ r.rows = {} /\ r.lastID > 0 /\ q.pc = "readId"
           /\ q.rows = r.rows /\ Kept(r, q) /\ q.had = live[c]
  <2>1. From(r) \in Int /\ From(r) <= r.lastTime /\ \A e \in r.got : e.ts <= r.lastTime
    BY <1>4, EventStreamAssumption DEF Sound, From
  <2>2. \A e \in live[c] : From(r) <= e.ts => e \in r.got
    BY <1>4 DEF Covered, Coming
  <2>3. \A e \in q.had : e.ts <= q.lastTime \/ e \in q.got
    BY <1>0, <1>4, <2>1, <2>2
  <2> QED
    BY <1>0, <1>4, <2>1, <2>3 DEF Sound
<1>5. CASE HistoryMove(c, r, q)
  BY <1>0, <1>2, <1>3, <1>4, <1>5 DEF HistoryMove, Sound
<1>6. ASSUME NEW e \in r.rows, r.pc = "gap", Delivers(r, q, e),
             q.lastID = r.lastID, q.lastTime = r.lastTime, q.had = r.had
      PROVE  Sound(q)
  BY <1>0, <1>6 DEF Delivers, Sound
<1>7. CASE /\ r.pc = "gapQuery" /\ q.pc = "gap" /\ q.rows = GapRows(r) /\ Kept(r, q)
           /\ q.had = r.had
  <2>1. \A e \in q.rows : e \in log /\ e.ts >= r.lastTime
    BY <1>7 DEF GapRows, RowsFrom
  <2>2. /\ \A e \in q.got : e.ts <= r.lastTime
        /\ \A e \in q.had : e.ts <= r.lastTime \/ e \in q.got
    BY <1>7 DEF Sound
  <2>3. \A e \in q.rows \cap (q.got \cup q.had) : e.ts = q.lastTime
    BY <1>0, <1>7, <2>1, <2>2
  <2> QED
    BY <1>0, <1>7, <2>1, <2>3 DEF Sound
<1>8. CASE GapMove(c, r, q)
  BY <1>0, <1>6, <1>7, <1>8 DEF GapMove, Sound
<1> QED
  BY <1>1, <1>5, <1>8

\* What a connection has from the streamer, or can get, is in the table.
LEMMA ComingIsLogged ==
    ASSUME StreamerInv, NEW c \in Clients
    PROVE  Coming(c) \subseteq log
BY DEF StreamerInv, Coming, Broadcast, Earliest

\* While the flag silences a connection no snapshot takes it in, so nothing new
\* comes its way (events.go:128-130, 257-266).
LEMMA SilencedGetsNothingNew ==
    ASSUME TypeOK, StreamerInv, HistoryFlagIsAccurate, [Next]_vars, ~Crash,
           NEW c \in Clients, isStreamingHistory[c]
    PROVE  Coming(c)' \subseteq Coming(c)
<1> USE DEF Coming
<1>1. CASE StreamStart \/ StreamQuery \/ LockClients \/ PickEvent \/ Start
  BY <1>1 DEF StreamStart, StreamQuery, LockClients, PickEvent, Start, historyVars, StreamerInv
<1>2. ASSUME NEW d \in Clients, ScanClient(d) PROVE Coming(c)' \subseteq Coming(c)
  BY <1>2 DEF ScanClient, historyVars
<1>3. ASSUME NEW d \in Clients, SendLive(d) PROVE Coming(c)' \subseteq Coming(c)
  <2>1. cur \in batch
    BY <1>3 DEF SendLive, StreamerInv, Earliest
  <2> QED
    BY <1>3, <2>1 DEF SendLive, TypeOK
<1>4. CASE AdvanceCursor
  BY <1>4 DEF AdvanceCursor
<1>5. CASE ~StreamerStep /\ ~Start
  BY <1>5, BystanderStep DEF streamerVars, historyVars
<1> QED
  BY <1>1, <1>2, <1>3, <1>4, <1>5 DEF StreamerStep

\* What history covers when it is queried stays covered: rows only move from
\* those left to those sent (events.go:134-162).
LEMMA CoveredStep ==
    ASSUME TypeOK, StreamerInv, HistoryFlagIsAccurate, ReplayInv, [Next]_vars, ~Crash,
           NEW c \in Clients, NEW k \in Subs
    PROVE  Covered(c, rep[<<c, k>>])'
<1> DEFINE r == rep[<<c, k>>]
           q == rep'[<<c, k>>]
<1>1. SUFFICES ASSUME q.pc = "history", NEW e \in Coming(c)', From(q) <= e.ts
               PROVE  e \in q.rows \cup q.got
  BY DEF Covered, From
<1>2. Sound(r) /\ Covered(c, r) /\ r \in ReplayState
  BY DEF ReplayInv, TypeOK, Replays
<1>3. CASE r.pc = "history"
  <2>1. isStreamingHistory[c]
    BY <1>3 DEF HistoryFlagIsAccurate
  <2>2. e \in Coming(c)
    BY <2>1, SilencedGetsNothingNew
  <2>3. q.rows \cup q.got = r.rows \cup r.got /\ q.last = r.last
    BY <1>1, <1>3, ReplayChange DEF Spawned, HistoryMove, GapMove, Delivers
  <2>4. From(q) = From(r)
    BY <2>3 DEF From
  <2> QED
    BY <1>1, <1>2, <1>3, <2>2, <2>3, <2>4 DEF Covered
<1>4. CASE r.pc # "history"
  <2>1. /\ ReplayStep(c, k) /\ q.rows = RowsFrom(From(r)) /\ q.last = r.last
        /\ r.pc = "query"
    BY <1>1, <1>4, ReplayChange DEF Spawned, HistoryMove, GapMove, Delivers
  <2>2. Coming(c)' = Coming(c)
    BY <2>1 DEF ReplayStep, Lock, HistoryQuery, HistoryQueryFails, SendHistory,
       SendHistoryFails, ClearHistory, ReadStreamedId, GapQuery, GapQueryFails, SendGap,
       SendGapFails, GapDone, ReplayFrame, Coming, streamerVars, historyVars
  <2>3. e \in log /\ e.ts \in Nat
    BY <1>1, <2>2, ComingIsLogged DEF TypeOK, LogTypeOK, Row
  <2>4. From(r) \in Int /\ From(q) = From(r)
    <3>1. r.last \in Int /\ ZoneShift \in Int
      BY <1>2, <2>1, EventStreamAssumption DEF Sound
    <3>2. From(q) = From(r)
      BY <2>1 DEF From
    <3> QED
      BY <3>1, <3>2 DEF From
  <2> QED
    BY <1>1, <2>1, <2>3, <2>4 DEF RowsFrom
<1> QED
  BY <1>3, <1>4

\* The local state of every replay is sound.
THEOREM ReplaysAreSound == Spec => []ReplayInv
<1> DEFINE Known == TypeOK /\ StreamerInv /\ HistoryFlagIsAccurate
<1>1. Init => ReplayInv
  BY DEF Init, IdleReplay, ReplayInv, Replays, Sound, Covered
<1>2. Known /\ ReplayInv /\ [Next]_vars => ReplayInv'
  <2> SUFFICES ASSUME Known, ReplayInv, [Next]_vars, NEW c \in Clients, NEW k \in Subs
               PROVE  Sound(rep[<<c, k>>])' /\ Covered(c, rep[<<c, k>>])'
    BY DEF ReplayInv
  <2>1. CASE Crash
    <3>1. rep'[<<c, k>>] = IdleReplay
      BY <2>1 DEF Crash, Replays
    <3> QED
      BY <3>1 DEF IdleReplay, Sound, Covered
  <2>2. CASE ~Crash
    <3>1. /\ Sound(rep[<<c, k>>]) /\ Covered(c, rep[<<c, k>>])
          /\ rep[<<c, k>>] \in ReplayState /\ LogTypeOK
      BY DEF ReplayInv, TypeOK, Replays
    <3>2. live[c] \subseteq log
      BY ComingIsLogged DEF Coming
    <3>3. Sound(rep'[<<c, k>>])
      BY <2>2, <3>1, <3>2, ReplayChange, SoundMove
    <3>4. log \subseteq log'
      BY LogOnlyGrows
    <3>5. Sound(rep[<<c, k>>])'
      BY <3>3, <3>4 DEF Sound, From
    <3> QED
      BY <2>2, <3>5, CoveredStep
  <2> QED
    BY <2>1, <2>2
<1> QED
  BY <1>1, <1>2, TypeCorrect, StreamerInvariant, ReplayDiscipline, PTL DEF Spec

\* A row that the connection had before is repeated in the gap only if it ties
\* with the last row of history.
THEOREM GapRepeats == Spec => []GapRepeatsLittle
<1>1. ReplayInv => GapRepeatsLittle
  BY DEF ReplayInv, Replays, Sound, GapRepeatsLittle
<1> QED
  BY <1>1, ReplaysAreSound, PTL

\* The flag that silences the live stream for a connection is raised exactly
\* while one of its replays sends history.
THEOREM HistoryFlag == Spec => []HistoryFlagIsAccurate
BY ReplayDiscipline, PTL

-----------------------------------------------------------------------------
(***************************************************************************)
(* The streamer and its snapshot of connections.                           *)
(***************************************************************************)
\* Steps that change neither the streamer nor what it has delivered, nor make
\* a connection new or alive again, nor undo a subscription.
LEMMA DeliveryFrame ==
    ASSUME DeliveryInv, UNCHANGED <<streamerVars, lastStreamedEventID, historyVars>>,
           \A c \in Clients : conn[c] # "new" => conn'[c] # "new",
           \A c \in scan \cup activeClients : Alive(c)' => Alive(c),
           \A c \in Clients : subscribed[c] => subscribed'[c],
           \A c \in Clients, k \in Subs :
              \/ rep'[<<c, k>>].pc = "idle"
              \/ rep[<<c, k>>].pc # "idle"
              \/ subscribed'[c] /\ conn'[c] # "new",
           scan \cup activeClients \subseteq Clients
    PROVE  DeliveryInv'
<1>1. \A c \in Clients, k \in Subs :
        rep'[<<c, k>>].pc # "idle" => subscribed'[c] /\ conn'[c] # "new"
  BY DEF DeliveryInv
<1>2. \A c \in scan \cup activeClients : conn'[c] # "new"
  BY DEF DeliveryInv
<1>3. Broadcast' = Broadcast
  BY DEF Broadcast, historyVars
<1> QED
  BY <1>1, <1>2, <1>3 DEF DeliveryInv, streamerVars, historyVars

\* The streamer's steps: the snapshot is taken of registered connections, and
\* the cursor leaves a row once every connection of the snapshot had its turn
\* (events.go:243-286).
LEMMA DeliveryStreamer ==
    ASSUME TypeOK, StreamerInv, DeliveryInv, Start \/ StreamerStep
    PROVE  DeliveryInv'
<1> USE DEF Reads, logVars, clientVars, replayVars, historyVars, Alive
<1>1. CASE Start \/ StreamStart \/ StreamQuery
  BY <1>1 DEF Start, StreamStart, StreamQuery, DeliveryInv, Broadcast
<1>2. CASE LockClients
  BY <1>2 DEF LockClients, Registered, DeliveryInv, Broadcast
<1>3. ASSUME NEW c \in Clients, ScanClient(c) PROVE DeliveryInv'
  BY <1>3 DEF ScanClient, DeliveryInv, Broadcast
<1>4. CASE PickEvent
  BY <1>4 DEF PickEvent, DeliveryInv, Broadcast
<1>5. ASSUME NEW c \in Clients, SendLive(c) PROVE DeliveryInv'
  <2>1. /\ spc' = "send" /\ targets' = targets \ {c} /\ activeClients' = activeClients
        /\ cur' = cur /\ conn[c] # "stalled" /\ conn' = conn
        /\ scan' = scan /\ rep' = rep /\ subscribed' = subscribed /\ streamed' = streamed
        /\ lastStreamedEventID' = lastStreamedEventID
    BY <1>5 DEF SendLive
  <2>2. spc = "send" /\ live \in [Clients -> SUBSET Row]
    BY <1>5 DEF SendLive, TypeOK
  <2>3. conn[c] = "open" => cur \in live'[c]
    BY <1>5, <2>2 DEF SendLive
  <2>4. \A d \in Clients : live[d] \subseteq live'[d]
    BY <1>5, <2>2 DEF SendLive
  <2>5. \A d \in activeClients : Alive(d) => d \in targets' \/ cur \in live'[d]
    <3> SUFFICES ASSUME NEW d \in activeClients, Alive(d)
                 PROVE  d \in targets' \/ cur \in live'[d]
      OBVIOUS
    <3>1. d \in Clients /\ (d \in targets \/ cur \in live[d])
      BY <2>2 DEF DeliveryInv, TypeOK
    <3>2. CASE d = c
      BY <2>1, <2>3, <3>2
    <3>3. CASE d # c
      BY <2>1, <2>4, <3>1, <3>3
    <3> QED
      BY <3>2, <3>3
  <2> QED
    BY <2>1, <2>2, <2>5 DEF DeliveryInv, Broadcast
<1>6. CASE AdvanceCursor
  <2>1. /\ cur \in Row /\ streamed \in Seq(Row) /\ streamed' = Append(streamed, cur)
        /\ spc' \in {"wait", "pick"} /\ spc = "send" /\ scan' = scan
        /\ activeClients' \subseteq activeClients
        /\ UNCHANGED <<conn, subscribed, rep>>
        /\ lastStreamedEventID \in Nat /\ cur.id \in Nat
        /\ lastStreamedEventID' =
             IF cur.id > lastStreamedEventID THEN cur.id ELSE lastStreamedEventID
    BY <1>6 DEF AdvanceCursor, TypeOK, Row
  <2>2. Broadcast' = Broadcast \cup {cur}
    BY <2>1, BroadcastAppend DEF Broadcast
  <2>3. \A e \in Broadcast : e.id \in Nat
    <3>1. \A i \in DOMAIN streamed : streamed[i] \in Row
      BY <2>1
    <3> QED
      BY <3>1 DEF Broadcast, Row
  <2>4. \A e \in Broadcast' : e.id <= lastStreamedEventID'
    BY <2>1, <2>2, <2>3 DEF DeliveryInv
  <2> QED
    BY <2>1, <2>4 DEF DeliveryInv
<1> QED
  BY <1>1, <1>2, <1>3, <1>4, <1>5, <1>6 DEF StreamerStep

\* The steps of connections (events.go:56-118).
LEMMA DeliveryConnection ==
    ASSUME TypeOK, DeliveryInv, NEW c \in Clients, ConnectionNext(c)
    PROVE  DeliveryInv'
<1>1. scan \cup activeClients \subseteq Clients
  BY DEF TypeOK
<1>2. conn \in [Clients -> {"new", "open", "stalled", "broken", "closed"}]
      /\ subscribed \in [Clients -> BOOLEAN]
  BY DEF TypeOK
<1>3. CASE Connect(c)
  <2>1. c \notin scan \cup activeClients
    BY <1>3 DEF Connect, DeliveryInv
  <2> QED
    BY <1>1, <1>2, <1>3, <2>1, DeliveryFrame DEF Connect, Alive, replayVars
<1>4. CASE Stall(c) \/ Resume(c) \/ Break(c) \/ Disconnect(c)
  BY <1>1, <1>2, <1>4, DeliveryFrame
  DEF Stall, Resume, Break, Disconnect, Alive, replayVars
<1>5. ASSUME NEW k \in Subs, Subscribe(c, k) PROVE DeliveryInv'
  <2>1. \A d \in Clients, j \in Subs :
          rep'[<<d, j>>].pc # "idle" /\ rep[<<d, j>>].pc = "idle" => d = c
    BY <1>5, SubscribeEffect DEF Replays
  <2>2. subscribed'[c] /\ conn'[c] # "new" /\ conn' = conn
    BY <1>2, <1>5 DEF Subscribe
  <2> QED
    BY <1>1, <1>2, <1>5, <2>1, <2>2, DeliveryFrame DEF Subscribe, Alive
<1> QED
  BY <1>3, <1>4, <1>5 DEF ConnectionNext

\* What the streamer promises a connection holds in every reachable state.
THEOREM Delivery == Spec => []DeliveryInv
<1>1. Init => DeliveryInv
  BY DEF Init, IdleReplay, DeliveryInv, Broadcast, Replays
<1>2. TypeOK /\ StreamerInv /\ DeliveryInv /\ [Next]_vars => DeliveryInv'
  <2> SUFFICES ASSUME TypeOK, StreamerInv, DeliveryInv, [Next]_vars PROVE DeliveryInv'
    OBVIOUS
  <2>0. scan \cup activeClients \subseteq Clients
    BY DEF TypeOK
  <2>1. CASE Crash
    BY <2>1 DEF Crash, IdleReplay, DeliveryInv, Broadcast, Replays
  <2>2. CASE TableStep \/ StreamIdle \/ UNCHANGED vars
    <3>1. UNCHANGED <<streamerVars, lastStreamedEventID, clientVars, replayVars, historyVars>>
      BY <2>2 DEF TableStep, StreamIdle, vars
    <3> QED
      BY <2>0, <3>1, DeliveryFrame DEF clientVars, replayVars, Alive
  <2>3. ASSUME NEW c \in Clients, NEW k \in Subs, ReplayStep(c, k) PROVE DeliveryInv'
    <3>1. UNCHANGED <<streamerVars, lastStreamedEventID, clientVars, historyVars>>
      BY <2>3 DEF ReplayStep, Lock, HistoryQuery, HistoryQueryFails, SendHistory,
         SendHistoryFails, ClearHistory, ReadStreamedId, GapQuery, GapQueryFails,
         SendGap, SendGapFails, GapDone, ReplayFrame
    <3>2. rep[<<c, k>>].pc # "idle"
      BY <2>3 DEF ReplayStep, Lock, HistoryQuery, HistoryQueryFails, SendHistory,
         SendHistoryFails, ClearHistory, ReadStreamedId, GapQuery, GapQueryFails,
         SendGap, SendGapFails, GapDone
    <3>3. \A d \in Clients, j \in Subs : <<d, j>> # <<c, k>> => rep'[<<d, j>>] = rep[<<d, j>>]
      BY <2>3, OtherReplays DEF Replays
    <3> QED
      BY <2>0, <3>1, <3>2, <3>3, DeliveryFrame DEF clientVars, Alive
  <2> QED
    BY <2>1, <2>2, <2>3, DeliveryStreamer, DeliveryConnection DEF Next
<1> QED
  BY <1>1, <1>2, TypeCorrect, StreamerInvariant, PTL DEF Spec

-----------------------------------------------------------------------------
(***************************************************************************)
(* The hand-off.                                                           *)
(***************************************************************************)
\* A connection that is handed off after a step was alive and had one request
\* before it, and was handed off already unless its replay has just moved on.
LEMMA HandingOffBefore ==
    ASSUME TypeOK, DeliveryInv, [Next]_vars, ~Crash,
           NEW c \in Clients, NEW k \in Subs, HandingOff(c, k)'
    PROVE  LET r == rep[<<c, k>>]
               q == rep'[<<c, k>>]
           IN  /\ Alive(c) /\ OnlyRequest(c, k)
               /\ \/ q = r /\ HandingOff(c, k)
                  \/ ReplayStep(c, k) /\ GapMove(c, r, q)
<1> DEFINE r == rep[<<c, k>>]
           q == rep'[<<c, k>>]
<1>1. q.pc \in {"gapQuery", "gap", "done"} /\ q.lastID > 0 /\ Alive(c)' /\ OnlyRequest(c, k)'
  BY DEF HandingOff
<1>2. r.pc # "idle" /\ (q = r \/ (ReplayStep(c, k) /\ GapMove(c, r, q)))
  <2>1. ~Spawned(r, q)
    BY <1>1 DEF Spawned
  <2>2. HistoryMove(c, r, q) => FALSE
    BY <1>1 DEF HistoryMove, Kept, Delivers
  <2>3. GapMove(c, r, q) => r.pc # "idle"
    BY DEF GapMove
  <2> QED
    BY <1>1, <2>1, <2>2, <2>3, ReplayChange
<1>3. Alive(c)
  <2>1. conn[c] # "new"
    BY <1>2 DEF DeliveryInv
  <2>2. conn[c] \in {"broken", "closed"} => conn'[c] \in {"broken", "closed"}
    <3>1. CASE UNCHANGED conn
      BY <3>1
    <3>2. ASSUME NEW d \in Clients, ConnectionNext(d)
          PROVE  conn[c] \in {"broken", "closed"} => conn'[c] \in {"broken", "closed"}
      BY <3>2 DEF ConnectionNext, Connect, Stall, Resume, Break, Disconnect, Subscribe, TypeOK
    <3>3. ASSUME NEW d \in Clients, NEW j \in Subs, ReplayStep(d, j) PROVE UNCHANGED conn
      BY <3>3 DEF ReplayStep, Lock, HistoryQuery, HistoryQueryFails, SendHistory,
         SendHistoryFails, ClearHistory, ReadStreamedId, GapQuery, GapQueryFails, SendGap,
         SendGapFails, GapDone, ReplayFrame, clientVars
    <3>4. CASE TableStep \/ StreamIdle \/ Start \/ StreamerStep \/ UNCHANGED vars
      BY <3>4 DEF TableStep, StreamIdle, Start, StreamerStep, StreamStart, StreamQuery,
         LockClients, ScanClient, PickEvent, SendLive, AdvanceCursor, vars, clientVars
    <3> QED
      BY <3>1, <3>2, <3>3, <3>4 DEF Next
  <2> QED
    BY <1>1, <2>1, <2>2 DEF Alive, TypeOK
<1>4. OnlyRequest(c, k)
  <2> SUFFICES ASSUME NEW j \in Subs \ {k} PROVE rep[<<c, j>>].pc = "idle"
    BY DEF OnlyRequest
  <2>1. rep'[<<c, j>>].pc = "idle"
    BY <1>1 DEF OnlyRequest
  <2> QED
    BY <2>1, ReplayChange DEF Spawned, HistoryMove, GapMove, Delivers
<1> QED
  BY <1>1, <1>2, <1>3, <1>4 DEF HandingOff

\* The streamer keeps every row accounted for: a connection that is handed off
\* is subscribed and not silenced, so each snapshot includes it and each row
\* broadcast to a snapshot that does reaches it (events.go:257-286).
LEMMA HandoffStreamer ==
    ASSUME TypeOK, StreamerInv, DeliveryInv, HistoryFlagIsAccurate, StreamerStep,
           NEW c \in Clients, NEW k \in Subs, HandingOff(c, k),
           \A e \in Broadcast : Accounted(e, c, rep[<<c, k>>]),
           Included(c, rep[<<c, k>>])
    PROVE  /\ \A e \in Broadcast' : Accounted(e, c, rep[<<c, k>>])'
           /\ Included(c, rep[<<c, k>>])'
<1> DEFINE r == rep[<<c, k>>]
<1> USE DEF Reads, logVars, clientVars, replayVars, historyVars
<1>0. rep' = rep
  BY DEF StreamerStep, StreamStart, StreamQuery, LockClients, ScanClient, PickEvent,
     SendLive, AdvanceCursor
<1>1. ASSUME streamed' = streamed, \A d \in Clients : live[d] \subseteq live'[d]
      PROVE  \A e \in Broadcast' : Accounted(e, c, r)'
  BY <1>0, <1>1 DEF Accounted, Behind, Broadcast
<1>2. CASE StreamStart \/ StreamQuery
  BY <1>0, <1>1, <1>2 DEF StreamStart, StreamQuery, Included
<1>3. CASE LockClients
  <2>1. c \in Registered
    BY DEF HandingOff, Alive, Registered
  <2> QED
    BY <1>0, <1>1, <1>3, <2>1 DEF LockClients, Included
<1>4. ASSUME NEW d \in Clients, ScanClient(d)
      PROVE  /\ \A e \in Broadcast' : Accounted(e, c, r)'
             /\ Included(c, r)'
  <2>1. subscribed[c]
    BY DEF HandingOff, DeliveryInv
  <2>2. ~isStreamingHistory[c]
    <3>1. \A j \in Subs : rep[<<c, j>>].pc \notin {"query", "history", "clear"}
      BY DEF HandingOff, OnlyRequest
    <3> QED
      BY <3>1 DEF HistoryFlagIsAccurate
  <2>3. c \in scan \cup activeClients => c \in scan' \cup activeClients'
    BY <1>4, <2>1, <2>2 DEF ScanClient
  <2>4. batch' = batch /\ spc = "scan"
    BY <1>4 DEF ScanClient
  <2>5. Included(c, r)'
    BY <1>0, <2>3, <2>4 DEF Included
  <2> QED
    BY <1>1, <1>4, <2>5 DEF ScanClient
<1>5. CASE PickEvent
  BY <1>0, <1>1, <1>5 DEF PickEvent, Included
<1>6. ASSUME NEW d \in Clients, SendLive(d)
      PROVE  /\ \A e \in Broadcast' : Accounted(e, c, r)'
             /\ Included(c, r)'
  <2>1. \A b \in Clients : live[b] \subseteq live'[b]
    BY <1>6 DEF SendLive, TypeOK
  <2> QED
    BY <1>0, <1>1, <1>6, <2>1 DEF SendLive, Included
<1>7. CASE AdvanceCursor
  <2>1. /\ cur \in batch /\ scan = {} /\ spc = "send" /\ targets = {}
    BY <1>7 DEF AdvanceCursor, StreamerInv, Earliest, DeliveryInv
  <2>2. cur \in r.stale \/ cur \in live[c]
    <3>1. batch \subseteq r.stale \/ c \in activeClients
      BY <2>1 DEF Included
    <3>2. c \in activeClients => cur \in live[c]
      BY <2>1 DEF DeliveryInv, HandingOff
    <3> QED
      BY <2>1, <3>1, <3>2
  <2>3. Broadcast' = Broadcast \cup {cur}
    BY <1>7, BroadcastAppend DEF AdvanceCursor, TypeOK, Broadcast
  <2>4. live' = live
    BY <1>7 DEF AdvanceCursor
  <2>5. \A e \in Broadcast' : Accounted(e, c, r)'
    BY <1>0, <2>2, <2>3, <2>4 DEF Accounted, Behind
  <2>6. Included(c, r)'
    BY <1>0, <1>7, <2>1 DEF AdvanceCursor, Included
  <2> QED
    BY <2>5, <2>6
<1> QED
  BY <1>2, <1>3, <1>4, <1>5, <1>6, <1>7 DEF StreamerStep

\* A step of the replay itself: what it has not received by the time it reads
\* the streamed id is behind it, or in the gap it then fetches and sends, or in
\* the broadcast under way (events.go:169-196).
LEMMA HandoffReplay ==
    ASSUME TypeOK, StreamerInv, DeliveryInv, HandoffInv,
           NEW c \in Clients, NEW k \in Subs, ReplayStep(c, k),
           GapMove(c, rep[<<c, k>>], rep'[<<c, k>>]),
           Alive(c), OnlyRequest(c, k), HandingOff(c, k)'
    PROVE  /\ \A e \in Broadcast' : Accounted(e, c, rep[<<c, k>>])'
           /\ Included(c, rep[<<c, k>>])'
<1> DEFINE r == rep[<<c, k>>]
           q == rep'[<<c, k>>]
<1>1. UNCHANGED <<streamerVars, lastStreamedEventID, clientVars, historyVars>>
  BY DEF ReplayStep, Lock, HistoryQuery, HistoryQueryFails, SendHistory, SendHistoryFails,
     ClearHistory, ReadStreamedId, GapQuery, GapQueryFails, SendGap, SendGapFails, GapDone,
     ReplayFrame
<1>2. Broadcast' = Broadcast
  BY <1>1 DEF Broadcast, historyVars
<1>3. SUFFICES (\A e \in Broadcast : Accounted(e, c, q)) /\ Included(c, q)
  BY <1>1, <1>2 DEF Accounted, Behind, Included, streamerVars, historyVars
<1>4. /\ \A e \in Broadcast : e \in log /\ e.id \in Nat /\ e.ts \in Nat
      /\ r.lastID \in Nat /\ r.lastTime \in Nat /\ lastStreamedEventID \in Nat
  <2>1. \A e \in Broadcast : e \in log
    BY DEF Broadcast, StreamerInv
  <2>2. r \in ReplayState
    BY DEF TypeOK, Replays
  <2> QED
    BY <2>1, <2>2 DEF TypeOK, LogTypeOK, Row, ReplayState
<1>5. r.pc \in {"gapQuery", "gap"} /\ q.lastID = r.lastID => HandingOff(c, k)
  BY DEF HandingOff
<1>6. Kept(r, q) => /\ q.got = r.got
                    /\ \A e : Behind(e, q) <=> Behind(e, r)
  BY DEF Kept, Behind
<1>7. CASE /\ r.pc = "readId" /\ q.pc = "gapQuery" /\ Kept(r, q)
           /\ q.upTo = lastStreamedEventID /\ q.stale = BroadcastWithout(c)
  BY <1>7 DEF Accounted, Included, DeliveryInv, BroadcastWithout
<1>8. CASE /\ r.pc = "readId" /\ q.pc = "done" /\ Kept(r, q)
           /\ lastStreamedEventID <= r.lastID /\ q.stale = BroadcastWithout(c)
  <2>1. \A e \in Broadcast : e.id < q.lastID \/ e.id = q.lastID
    BY <1>4, <1>8 DEF Kept, DeliveryInv
  <2> QED
    BY <1>8, <2>1 DEF Accounted, Behind, Included, BroadcastWithout
<1>9. CASE /\ r.pc = "gapQuery" /\ q.pc = "gap" /\ q.rows = GapRows(r) /\ Kept(r, q)
           /\ q.stale = r.stale
  <2>1. HandingOff(c, k)
    BY <1>5, <1>9 DEF Kept
  <2>2. (\A e \in Broadcast : Accounted(e, c, r)) /\ Included(c, r)
    BY <2>1 DEF HandoffInv
  <2>3. ASSUME NEW e \in Broadcast, ~Behind(e, r), e.id # r.lastID, e.id <= r.upTo
        PROVE  e \in q.rows
    <3>1. e \in log /\ e.ts >= r.lastTime /\ e.id > r.lastID
      BY <1>4, <2>3 DEF Behind
    <3> QED
      BY <1>9, <2>3, <3>1 DEF GapRows, RowsFrom
  <2>4. ASSUME NEW e \in Broadcast PROVE Accounted(e, c, q)
    <3>1. Accounted(e, c, r)
      BY <2>2
    <3> QED
      BY <1>6, <1>9, <2>3, <3>1 DEF Accounted, Kept
  <2> QED
    BY <1>9, <2>2, <2>4 DEF Included
<1>10. CASE r.pc = "gap" /\ q.stale = r.stale /\ q.lastID = r.lastID /\ q.lastTime = r.lastTime
            /\ \/ \E e \in r.rows : Delivers(r, q, e)
               \/ r.rows = {} /\ q.pc = "done" /\ q.got = r.got
  <2>1. HandingOff(c, k)
    BY <1>5, <1>10
  <2>2. (\A e \in Broadcast : Accounted(e, c, r)) /\ Included(c, r)
    BY <2>1 DEF HandoffInv
  <2>3. ASSUME NEW e \in Broadcast PROVE Accounted(e, c, q)
    <3>1. Accounted(e, c, r) /\ (Behind(e, q) <=> Behind(e, r))
      BY <1>10, <2>2 DEF Behind
    <3> QED
      BY <1>10, <3>1 DEF Accounted, Delivers
  <2> QED
    BY <1>10, <2>2, <2>3 DEF Included
<1> QED
  BY <1>7, <1>8, <1>9, <1>10 DEF GapMove, Kept

\* Every row broadcast is accounted for to every connection handed off.
THEOREM HandoffAccounts == Spec => []HandoffInv
<1> DEFINE Known == TypeOK /\ StreamerInv /\ DeliveryInv /\ HistoryFlagIsAccurate
<1>1. Init => HandoffInv
  BY DEF Init, IdleReplay, HandoffInv, HandingOff, Replays
<1>2. Known /\ HandoffInv /\ [Next]_vars => HandoffInv'
  <2> SUFFICES ASSUME Known, HandoffInv, [Next]_vars,
                      NEW c \in Clients, NEW k \in Subs, HandingOff(c, k)'
               PROVE  /\ \A e \in Broadcast' : Accounted(e, c, rep[<<c, k>>])'
                      /\ Included(c, rep[<<c, k>>])'
    BY DEF HandoffInv
  <2>1. ~Crash
    BY DEF Crash, HandingOff, IdleReplay, Replays
  <2>2. CASE ReplayStep(c, k) /\ GapMove(c, rep[<<c, k>>], rep'[<<c, k>>])
    BY <2>1, <2>2, HandingOffBefore, HandoffReplay
  <2>3. CASE rep'[<<c, k>>] = rep[<<c, k>>] /\ HandingOff(c, k)
    <3>1. (\A e \in Broadcast : Accounted(e, c, rep[<<c, k>>])) /\ Included(c, rep[<<c, k>>])
      BY <2>3 DEF HandoffInv
    <3>2. CASE StreamerStep
      BY <2>3, <3>1, <3>2, HandoffStreamer
    <3>3. CASE Start
      BY <2>3, <3>1, <3>3 DEF Start, historyVars, Accounted, Behind, Included, Broadcast
    <3>4. CASE ~StreamerStep /\ ~Start
      BY <2>1, <2>3, <3>1, <3>4, BystanderStep
      DEF streamerVars, historyVars, Accounted, Behind, Included, Broadcast
    <3> QED
      BY <3>2, <3>3, <3>4
  <2> QED
    BY <2>1, <2>2, <2>3, HandingOffBefore
<1> QED
  BY <1>1, <1>2, TypeCorrect, StreamerInvariant, Delivery, HistoryFlag, PTL DEF Spec

\* The hand-off loses rows of one broadcast under way at most, and rows behind
\* the last history row.
THEOREM HandoffLosesLittle == Spec => []HandoffLosesOneBatch
<1>1. TypeOK /\ StreamerInv /\ UniqueIds /\ ReplayInv /\ HandoffInv => HandoffLosesOneBatch
  <2> SUFFICES ASSUME TypeOK, StreamerInv, UniqueIds, ReplayInv, HandoffInv,
                      NEW c \in Clients, NEW k \in Subs, conn[c] = "open",
                      OnlyRequest(c, k), rep[<<c, k>>].pc = "done",
                      rep[<<c, k>>].lastID > 0, NEW e \in Broadcast
               PROVE  \/ e \in Received(c) \cup rep[<<c, k>>].stale
                      \/ Behind(e, rep[<<c, k>>])
    BY DEF HandoffLosesOneBatch
  <2> DEFINE r == rep[<<c, k>>]
  <2>1. Accounted(e, c, r)
    BY DEF HandoffInv, HandingOff, Alive
  <2>2. e.id = r.lastID => e \in r.got
    <3>1. Sound(r) /\ e \in log
      BY DEF ReplayInv, Replays, Broadcast, StreamerInv
    <3> QED
      BY <3>1 DEF Sound, UniqueIds
  <2> QED
    BY <2>1, <2>2 DEF Accounted, Received
<1> QED
  BY <1>1, TypeCorrect, StreamerInvariant, IdsAreUnique, ReplaysAreSound, HandoffAccounts, PTL

-----------------------------------------------------------------------------
(***************************************************************************)
(* Nobody is wedged.                                                       *)
(***************************************************************************)
\* The streamer leaves its scan with the last connection it looks at.
ScanInv == spc = "scan" => scan # {}

LEMMA ScanInvStep == ASSUME ScanInv, [Next]_vars PROVE ScanInv'
<1>1. CASE UNCHANGED <<spc, scan>>
  BY <1>1 DEF ScanInv
<1>2. CASE TableStep \/ StreamIdle \/ UNCHANGED vars
  BY <1>1, <1>2 DEF TableStep, StreamIdle, vars, streamerVars
<1>3. CASE Start \/ Crash \/ StreamerStep
  BY <1>3 DEF ScanInv, Start, Crash, StreamerStep, StreamStart, StreamQuery,
     LockClients, ScanClient, PickEvent, SendLive, AdvanceCursor
<1>4. ASSUME NEW c \in Clients, ConnectionNext(c) PROVE ScanInv'
  BY <1>1, <1>4 DEF ConnectionNext, Connect, Stall, Resume, Break, Disconnect,
     Subscribe, streamerVars
<1>5. ASSUME NEW c \in Clients, NEW k \in Subs, ReplayStep(c, k) PROVE ScanInv'
  BY <1>1, <1>5 DEF ReplayStep, Lock, HistoryQuery, HistoryQueryFails, SendHistory,
     SendHistoryFails, ClearHistory, ReadStreamedId, GapQuery, GapQueryFails,
     SendGap, SendGapFails, GapDone, ReplayFrame, streamerVars
<1> QED
  BY <1>2, <1>3, <1>4, <1>5 DEF Next

\* A replay that has started stops only for a peer that does not read: there is
\* an earliest row to send whenever there is one.
LEMMA RunningReplayCanStep ==
    ASSUME TypeOK, DeliveryInv, NEW c \in Clients, NEW k \in Subs, Running(c, k)
    PROVE  ReplayCanStep(c, k) \/ conn[c] = "stalled"
<1> DEFINE r == rep[<<c, k>>]
<1>1. r \in ReplayState /\ conn[c] \in {"new", "open", "stalled", "broken", "closed"}
  BY DEF TypeOK, Replays
<1>2. r.rows \in SUBSET Row /\ r.pc \in {"query", "history", "clear", "readId", "gapQuery", "gap"}
  BY <1>1 DEF ReplayState, Running
<1>3. r.rows # {} => Earliest(r.rows) # {}
  BY <1>2, EarliestExists
<1>4. conn[c] # "new"
  BY DEF DeliveryInv, Running
<1> QED
  BY <1>1, <1>2, <1>3, <1>4 DEF ReplayCanStep

\* No goroutine is left behind: whoever cannot go on waits for a peer that does
\* not read, or for a replay of its own connection that can go on.
THEOREM NobodyIsWedged == Spec => []NobodyWedged
<1>1. TypeOK /\ DeliveryInv /\ ReplayExclusive /\ ScanInv => NobodyWedged
  <2> SUFFICES ASSUME TypeOK, DeliveryInv, ReplayExclusive, ScanInv PROVE NobodyWedged
    OBVIOUS
  <2>1. spc # "down" =>
          StreamerCanStep \/ (spc = "send" /\ \A c \in targets : conn[c] = "stalled")
    <3>1. spc = "pick" => batch \in SUBSET Row /\ batch # {}
      BY DEF TypeOK
    <3>2. spc = "pick" => Earliest(batch) # {}
      BY <3>1, EarliestExists
    <3>3. spc \in {"down", "starting", "wait", "lock", "scan", "pick", "send"}
      BY DEF TypeOK
    <3> QED
      BY <3>2, <3>3 DEF StreamerCanStep, ScanInv
  <2>2. ASSUME NEW c \in Clients, NEW k \in Subs,
               rep[<<c, k>>].pc \notin {"idle", "done", "failed"}, conn[c] # "stalled"
        PROVE  \/ ReplayCanStep(c, k)
               \/ \E j \in Subs \ {k} : Running(c, j) /\ ReplayCanStep(c, j)
    <3>1. CASE Running(c, k)
      BY <2>2, <3>1, RunningReplayCanStep
    <3>2. CASE ~Running(c, k)
      <4>1. rep[<<c, k>>].pc = "lock"
        BY <2>2, <3>2 DEF Running
      <4>2. CASE ~replayMutex[c]
        BY <4>1, <4>2 DEF ReplayCanStep
      <4>3. CASE replayMutex[c]
        <5>1. PICK j \in Subs : Running(c, j)
          BY <4>3 DEF ReplayExclusive
        <5> QED
          BY <2>2, <3>2, <5>1, RunningReplayCanStep
      <4> QED
        BY <4>2, <4>3
    <3> QED
      BY <3>1, <3>2
  <2> QED
    BY <2>1, <2>2 DEF NobodyWedged
<1>2. Init => ScanInv
  BY DEF Init, ScanInv
<1>3. ScanInv /\ [Next]_vars => ScanInv'
  BY ScanInvStep
<1> QED
  BY <1>1, <1>2, <1>3, TypeCorrect, Delivery, ReplayDiscipline, PTL DEF Spec

=============================================================================
