------------------------- MODULE EventStream_proofs -------------------------
(***************************************************************************)
(* Theorems about EventStream, for every number of writers, connections    *)
(* and subscriptions and every choice of clocks and bounds.                *)
(***************************************************************************)
EXTENDS EventStream, WellFoundedInduction, TLAPS

-----------------------------------------------------------------------------
(***************************************************************************)
(* Type correctness.                                                       *)
(***************************************************************************)
\* Every step of the table preserves the types of its variables (the
\* system_events table written by InsertEvent).
LEMMA LogTypeStep == LogTypeOK /\ LogNext => LogTypeOK'
<1> SUFFICES ASSUME LogTypeOK, LogNext PROVE LogTypeOK'
  OBVIOUS
<1> USE DEF LogTypeOK, Insert, Row, NoRow, IdleInsert
<1>1. CASE Tick
  BY <1>1 DEF Tick
<1>2. ASSUME NEW w \in Writers, BeginInsert(w) PROVE LogTypeOK'
  BY <1>2 DEF BeginInsert
<1>3. ASSUME NEW w \in Writers, DrawId(w) PROVE LogTypeOK'
  BY <1>3 DEF DrawId
<1>4. ASSUME NEW w \in Writers, CommitInsert(w) PROVE LogTypeOK'
  BY <1>4 DEF CommitInsert
<1>5. ASSUME NEW w \in Writers, AbortInsert(w) PROVE LogTypeOK'
  BY <1>5 DEF AbortInsert
<1>6. QED
  BY <1>1, <1>2, <1>3, <1>4, <1>5 DEF LogNext, InsertNext

\* What a query returns is a set of rows, and so is what a replay keeps of it.
LEMMA QueryType ==
    ASSUME LogTypeOK, NEW t
    PROVE  /\ RowsFrom(t) \in SUBSET Row
           /\ RowsFrom(t) \subseteq log
BY DEF RowsFrom, LogTypeOK

\* The earliest rows of a set are rows of the set.
LEMMA EarliestSubset == ASSUME NEW S PROVE Earliest(S) \subseteq S
BY DEF Earliest

\* Timestamps are numbers, so a set of rows that is not empty has an earliest
\* one, whether or not it is finite: a reader is never stuck on its rows.
LEMMA EarliestExists == ASSUME NEW S \in SUBSET Row, S # {} PROVE Earliest(S) # {}
<1> DEFINE T == {e.ts : e \in S}
           Less == {p \in Nat \X Nat : p[1] < p[2]}
<1>1. T \subseteq Nat /\ T # {}
  BY DEF Row
<1>2. IsWellFoundedOn(Less, Nat)
  BY NatLessThanWellFounded DEF OpToRel
<1>3. PICK m \in T : \A n \in T : <<n, m>> \notin Less
  <2> HIDE DEF T, Less
  <2> QED
    BY <1>1, <1>2, WFMin
<1>4. \A n \in T : ~(n < m)
  BY <1>1, <1>3
<1>5. PICK e \in S : e.ts = m
  BY <1>3
<1>6. ASSUME NEW f \in S PROVE e.ts <= f.ts
  <2>1. f.ts \in T /\ f.ts \in Nat /\ m \in Nat
    BY <1>1
  <2> QED
    BY <1>4, <1>5, <2>1
<1> QED
  BY <1>5, <1>6 DEF Earliest

\* Replacing the state of one replay by a well-typed one keeps rep well typed.
LEMMA RepUpdate ==
    ASSUME rep \in [Replays -> ReplayState], NEW c \in Clients, NEW k \in Subs,
           NEW r \in ReplayState, rep' = [rep EXCEPT ![<<c, k>>] = r]
    PROVE  rep' \in [Replays -> ReplayState]
BY DEF Replays

\* The initial state of the agent is well typed (events.go:34-54, 239).
LEMMA TypeInit == Init => TypeOK
<1> SUFFICES ASSUME Init PROVE TypeOK
  OBVIOUS
<1>1. LogTypeOK
  BY SystemEventsAssumption
     DEF Init, LogInit, LogTypeOK, Insert, Row, NoRow, IdleInsert
<1>2. rep \in [Replays -> ReplayState]
  BY DEF Init, ReplayState, IdleReplay, Replays
<1>3. QED
  BY <1>1, <1>2 DEF Init, TypeOK, Row, NoRow

\* The streamer's loop keeps its variables well typed, and has a row to
\* broadcast whenever it is past its query (events.go:243-286).
LEMMA TypeStreamer == TypeOK /\ (Start \/ StreamerStep) => TypeOK'
<1> SUFFICES ASSUME TypeOK, Start \/ StreamerStep PROVE TypeOK'
  OBVIOUS
<1> USE DEF TypeOK, Reads, logVars, clientVars, replayVars, historyVars, LogTypeOK
<1>1. CASE Start
  BY <1>1 DEF Start
<1>2. CASE StreamStart
  BY <1>2, EventStreamAssumption DEF StreamStart
<1>3. CASE StreamQuery
  BY <1>3, QueryType DEF StreamQuery
<1>4. CASE LockClients
  BY <1>4 DEF LockClients, Registered
<1>5. ASSUME NEW c \in Clients, ScanClient(c) PROVE TypeOK'
  BY <1>5 DEF ScanClient
<1>6. CASE PickEvent
  BY <1>6, EarliestSubset DEF PickEvent
<1>7. ASSUME NEW c \in Clients, SendLive(c) PROVE TypeOK'
  <2>1. live' \in [Clients -> SUBSET Row]
    BY <1>7 DEF SendLive
  <2>2. QED
    BY <1>7, <2>1 DEF SendLive
<1>8. CASE AdvanceCursor
  <2>1. cur \in Row /\ cur.ts \in Nat /\ cur.id \in Nat
    BY DEF Row
  <2>2. lastSeen' \in Int /\ lastStreamedEventID' \in Nat
    BY <1>8, <2>1, EventStreamAssumption DEF AdvanceCursor, NextCursor
  <2>3. streamed' \in Seq(Row)
    BY <1>8, <2>1 DEF AdvanceCursor
  <2>4. batch' \in SUBSET Row /\ activeClients' \in SUBSET Clients /\ cur' \in Row
    BY <1>8 DEF AdvanceCursor, NoRow, Row
  <2>5. QED
    BY <1>8, <2>2, <2>3, <2>4 DEF AdvanceCursor
<1>9. QED
  BY <1>1, <1>2, <1>3, <1>4, <1>5, <1>6, <1>7, <1>8 DEF StreamerStep

\* The death of the process leaves a well-typed state.
LEMMA TypeCrash == TypeOK /\ Crash => TypeOK'
<1> SUFFICES ASSUME TypeOK, Crash PROVE TypeOK'
  OBVIOUS
<1>1. rep' \in [Replays -> ReplayState]
  BY DEF Crash, ReplayState, IdleReplay
<1>2. conn' \in [Clients -> {"new", "open", "stalled", "broken", "closed"}]
  BY DEF Crash
<1>3. streamed' \in Seq(Row)
  BY DEF Crash
<1>4. QED
  BY <1>1, <1>2, <1>3 DEF Crash, TypeOK, LogTypeOK, logVars, Row, NoRow

\* A connection that opens, breaks, closes or subscribes keeps the types
\* (events.go:56-118).
LEMMA TypeConnection ==
    ASSUME TypeOK, NEW c \in Clients, ConnectionNext(c)
    PROVE  TypeOK'
<1> USE DEF TypeOK, Reads, logVars, streamerVars, replayVars, historyVars, LogTypeOK
<1>1. CASE Connect(c)
  BY <1>1 DEF Connect
<1>2. CASE Break(c)
  BY <1>2 DEF Break
<1>3. CASE Disconnect(c)
  BY <1>3 DEF Disconnect
<1>4. ASSUME NEW k \in Subs, Subscribe(c, k) PROVE TypeOK'
  <2>1. PICK ls \in LastSeens \cup {NoLastSeen} :
          rep' = [rep EXCEPT ![<<c, k>>].pc = "lock", ![<<c, k>>].last = ls]
    BY <1>4 DEF Subscribe
  <2>2. rep[<<c, k>>] \in ReplayState
    BY DEF Replays
  <2>3. [rep[<<c, k>>] EXCEPT !.pc = "lock", !.last = ls] \in ReplayState
    BY <2>2 DEF ReplayState
  <2>4. rep' \in [Replays -> ReplayState]
    BY <2>1, <2>3 DEF Replays
  <2>5. QED
    BY <1>4, <2>4 DEF Subscribe
<1>5. CASE Stall(c)
  BY <1>5 DEF Stall
<1>6. CASE Resume(c)
  BY <1>6 DEF Resume
<1>7. QED
  BY <1>1, <1>2, <1>3, <1>4, <1>5, <1>6 DEF ConnectionNext

\* Every step of a replay keeps the types: what it remembers of the history
\* are a row's id and time (events.go:120-197).
LEMMA TypeReplay ==
    ASSUME TypeOK, NEW c \in Clients, NEW k \in Subs, ReplayStep(c, k)
    PROVE  TypeOK'
<1> DEFINE r == rep[<<c, k>>]
<1> USE DEF Reads, logVars, streamerVars, clientVars, historyVars, ReplayFrame
<1>1. r \in ReplayState /\ rep \in [Replays -> ReplayState]
  BY DEF TypeOK, Replays
<1>2. SUFFICES /\ rep' \in [Replays -> ReplayState]
               /\ isStreamingHistory' \in [Clients -> BOOLEAN]
               /\ replayMutex' \in [Clients -> BOOLEAN]
  <2>1. UNCHANGED <<logVars, restarts, streamerVars, lastStreamedEventID, clientVars,
                    historyVars>>
    BY DEF ReplayStep, Lock, HistoryQuery, HistoryQueryFails, SendHistory,
           SendHistoryFails, ClearHistory, ReadStreamedId, GapQuery, GapQueryFails,
           SendGap, SendGapFails, GapDone
  <2>2. QED
    BY <1>2, <2>1 DEF TypeOK, LogTypeOK
<1>3. LogTypeOK /\ isStreamingHistory \in [Clients -> BOOLEAN]
      /\ replayMutex \in [Clients -> BOOLEAN] /\ lastStreamedEventID \in Nat
      /\ batch \in SUBSET Row
  BY DEF TypeOK
<1>4. ASSUME NEW how \in {"done", "failed"}
      PROVE  [rep EXCEPT ![<<c, k>>].pc = how, ![<<c, k>>].rows = {}]
               \in [Replays -> ReplayState]
  <2>1. [r EXCEPT !.pc = how, !.rows = {}] \in ReplayState
    BY <1>1, <1>4 DEF ReplayState
  <2>2. QED
    BY <1>1, <2>1 DEF Replays
<1>5. ASSUME NEW p \in {"query", "clear"}
      PROVE  [rep EXCEPT ![<<c, k>>].pc = p] \in [Replays -> ReplayState]
  <2>1. [r EXCEPT !.pc = p] \in ReplayState
    BY <1>1, <1>5 DEF ReplayState
  <2>2. QED
    BY <1>1, <2>1 DEF Replays
<1>6. ASSUME NEW p \in {"history", "gap"}, NEW S \in SUBSET Row
      PROVE  [rep EXCEPT ![<<c, k>>].rows = S, ![<<c, k>>].pc = p]
               \in [Replays -> ReplayState]
  <2>1. [r EXCEPT !.rows = S, !.pc = p] \in ReplayState
    BY <1>1, <1>6 DEF ReplayState
  <2>2. QED
    BY <1>1, <2>1 DEF Replays
<1>7. CASE Lock(c, k)
  BY <1>7, <1>3, <1>5 DEF Lock
<1>8. CASE HistoryQuery(c, k)
  BY <1>8, <1>3, <1>6, QueryType DEF HistoryQuery
<1>9. CASE HistoryQueryFails(c, k)
  BY <1>9, <1>3, <1>4 DEF HistoryQueryFails, ReturnFromHistory, Return
<1>10. CASE SendHistory(c, k)
  <2>1. PICK e \in Earliest(r.rows) :
          rep' = [rep EXCEPT ![<<c, k>>].rows = @ \ {e}, ![<<c, k>>].got = @ \cup {e},
                             ![<<c, k>>].lastID = e.id, ![<<c, k>>].lastTime = e.ts]
    BY <1>10 DEF SendHistory
  <2>2. e \in Row /\ e.id \in Nat /\ e.ts \in Nat
    BY <1>1, EarliestSubset DEF ReplayState, Row
  <2>3. [r EXCEPT !.rows = @ \ {e}, !.got = @ \cup {e}, !.lastID = e.id,
                  !.lastTime = e.ts] \in ReplayState
    BY <1>1, <2>2 DEF ReplayState
  <2>4. rep' \in [Replays -> ReplayState]
    BY <1>1, <2>1, <2>3 DEF Replays
  <2>5. QED
    BY <1>10, <1>3, <2>4 DEF SendHistory
<1>11. CASE SendHistoryFails(c, k)
  BY <1>11, <1>3, <1>4 DEF SendHistoryFails, ReturnFromHistory, Return
<1>12. CASE ClearHistory(c, k)
  <2>1. live[c] \in SUBSET Row
    BY DEF TypeOK
  <2>2. [r EXCEPT !.pc = "readId", !.had = live[c]] \in ReplayState
    BY <1>1, <2>1 DEF ReplayState
  <2>3. [rep EXCEPT ![<<c, k>>].pc = "readId", ![<<c, k>>].had = live[c]]
          \in [Replays -> ReplayState]
    BY <1>1, <2>2 DEF Replays
  <2>4. QED
    BY <1>12, <1>3, <1>4, <2>3 DEF ClearHistory, Return
<1>13. CASE ReadStreamedId(c, k)
  <2>1. BroadcastWithout(c) \in SUBSET Row
    BY <1>3 DEF BroadcastWithout
  <2>2. /\ [r EXCEPT !.upTo = lastStreamedEventID, !.stale = BroadcastWithout(c),
                      !.pc = "gapQuery"] \in ReplayState
        /\ [r EXCEPT !.stale = BroadcastWithout(c), !.pc = "done"] \in ReplayState
    BY <1>1, <1>3, <2>1 DEF ReplayState
  <2>3. rep' \in [Replays -> ReplayState]
    BY <1>13, <1>1, <2>2 DEF ReadStreamedId, Replays
  <2>4. replayMutex' \in [Clients -> BOOLEAN]
    BY <1>13, <1>3 DEF ReadStreamedId
  <2>5. QED
    BY <1>13, <1>3, <2>3, <2>4 DEF ReadStreamedId
<1>14. CASE GapQuery(c, k)
  <2>1. GapRows(r) \in SUBSET Row
    BY <1>3, QueryType DEF GapRows
  <2>2. QED
    BY <1>14, <1>3, <1>6, <2>1 DEF GapQuery
<1>15. CASE GapQueryFails(c, k)
  BY <1>15, <1>3, <1>4 DEF GapQueryFails, Return
<1>16. CASE SendGap(c, k)
  <2>1. PICK e \in Earliest(r.rows) :
          rep' = [rep EXCEPT ![<<c, k>>].rows = @ \ {e}, ![<<c, k>>].got = @ \cup {e}]
    BY <1>16 DEF SendGap
  <2>2. e \in Row
    BY <1>1, EarliestSubset DEF ReplayState
  <2>3. [r EXCEPT !.rows = @ \ {e}, !.got = @ \cup {e}] \in ReplayState
    BY <1>1, <2>2 DEF ReplayState
  <2>4. rep' \in [Replays -> ReplayState]
    BY <1>1, <2>1, <2>3 DEF Replays
  <2>5. QED
    BY <1>16, <1>3, <2>4 DEF SendGap
<1>17. CASE SendGapFails(c, k)
  BY <1>17, <1>3, <1>4 DEF SendGapFails, Return
<1>18. CASE GapDone(c, k)
  BY <1>18, <1>3, <1>4 DEF GapDone, Return
<1>19. QED
  BY <1>7, <1>8, <1>9, <1>10, <1>11, <1>12, <1>13, <1>14, <1>15, <1>16, <1>17,
     <1>18 DEF ReplayStep

\* The agent's event stream is well typed, and past its query the streamer
\* always has a row to broadcast.
THEOREM TypeCorrect == Spec => []TypeOK
<1>1. TypeOK /\ [Next]_vars => TypeOK'
  <2> SUFFICES ASSUME TypeOK, [Next]_vars PROVE TypeOK'
    OBVIOUS
  <2>1. CASE TableStep
    BY <2>1, LogTypeStep
       DEF TableStep, TypeOK, streamerVars, clientVars, replayVars, historyVars
  <2>2. CASE UNCHANGED vars
    BY <2>2 DEF TypeOK, LogTypeOK, vars, logVars, streamerVars, clientVars, replayVars,
                historyVars
  <2>3. CASE StreamIdle
    BY <2>2, <2>3 DEF StreamIdle
  <2>4. QED
    BY <2>1, <2>2, <2>3, TypeStreamer, TypeCrash, TypeConnection, TypeReplay DEF Next
<1>2. QED
  BY <1>1, TypeInit, PTL DEF Spec

-----------------------------------------------------------------------------
(***************************************************************************)
(* The streamer's loop: an inductive invariant and what follows from it.   *)
(***************************************************************************)
\* Broadcasting one more row adds it, and nothing else, to what is broadcast.
LEMMA BroadcastAppend ==
    ASSUME NEW s \in Seq(Row), NEW e \in Row
    PROVE  /\ DOMAIN Append(s, e) = DOMAIN s \cup {Len(s) + 1}
           /\ \A i \in DOMAIN s : Append(s, e)[i] = s[i]
           /\ Append(s, e)[Len(s) + 1] = e
OBVIOUS

\* A step of the table only adds rows to the log.
LEMMA LogGrows == ASSUME LogNext PROVE log \subseteq log'
BY DEF LogNext, Tick, InsertNext, BeginInsert, DrawId, CommitInsert, AbortInsert

\* Steps that leave the streamer's variables and histories alone, and remove
\* no row, keep its invariant.
LEMMA StreamerInvFrame ==
    ASSUME StreamerInv, log \subseteq log', UNCHANGED <<streamerVars, historyVars>>
    PROVE  StreamerInv'
BY DEF StreamerInv, streamerVars, historyVars, Broadcast, Earliest

\* The invariant holds initially.
LEMMA StreamerInvInit == Init => StreamerInv
BY DEF Init, StreamerInv

\* Every step of the streamer keeps the invariant: the cursor moves a
\* millisecond past the row it leaves, which is an earliest row of the batch.
LEMMA StreamerInvStep ==
    ASSUME TypeOK, StreamerInv, Start \/ StreamerStep
    PROVE  StreamerInv'
<1> USE DEF Reads, logVars, clientVars, replayVars, historyVars
<1>1. CASE Start
  BY <1>1 DEF Start, StreamerInv, Broadcast, Earliest
<1>2. CASE StreamStart
  BY <1>2 DEF StreamStart, StreamerInv, Broadcast
<1>3. CASE StreamQuery
  <2>1. \A b \in batch' : b \in log /\ b.ts >= lastSeen /\ b \in Row
    BY <1>3 DEF StreamQuery, RowsFrom, TypeOK, LogTypeOK
  <2>2. \A i \in DOMAIN streamed : streamed[i] \in Row
    BY DEF TypeOK
  <2>3. \A i \in DOMAIN streamed : \A b \in batch' :
          streamed[i] # b /\ streamed[i].ts <= b.ts
    <3>1. TAKE i \in DOMAIN streamed
    <3>2. TAKE b \in batch'
    <3>3. streamed[i].ts + Milli <= lastSeen
      BY DEF StreamerInv
    <3>4. b.ts >= lastSeen
      BY <2>1
    <3>5. streamed[i].ts \in Nat /\ b.ts \in Nat
      BY <2>1, <2>2 DEF Row
    <3>6. lastSeen \in Int /\ Milli \in Nat \ {0}
      BY EventStreamAssumption DEF TypeOK
    <3>7. streamed[i].ts < b.ts
      BY <3>3, <3>4, <3>5, <3>6
    <3>8. QED
      BY <3>5, <3>7
  <2>4. QED
    BY <1>3, <2>1, <2>3 DEF StreamQuery, StreamerInv, Broadcast
<1>4. CASE LockClients
  BY <1>4 DEF LockClients, StreamerInv, Broadcast
<1>5. ASSUME NEW c \in Clients, ScanClient(c) PROVE StreamerInv'
  BY <1>5 DEF ScanClient, StreamerInv, Broadcast
<1>6. CASE PickEvent
  <2>1. \A c \in Clients : \A e \in live[c] : e \in Broadcast
    BY <1>6 DEF PickEvent, StreamerInv
  <2>2. QED
    BY <1>6, <2>1 DEF PickEvent, StreamerInv, Broadcast, Earliest
<1>7. ASSUME NEW c \in Clients, SendLive(c) PROVE StreamerInv'
  <2>1. \A d \in Clients : \A e \in live'[d] :
          e \in live[d] \/ (d = c /\ e = cur)
    BY <1>7 DEF SendLive, TypeOK
  <2>2. \A d \in Clients : \A e \in live'[d] :
          e \in Broadcast \/ (d \notin targets' /\ e = cur)
    BY <1>7, <2>1 DEF SendLive, StreamerInv
  <2>3. QED
    BY <1>7, <2>2 DEF SendLive, StreamerInv, Broadcast, Earliest
<1>8. CASE AdvanceCursor
  <2>1. /\ cur \in batch /\ cur \in log /\ cur \in Row
        /\ \A b \in batch : cur.ts <= b.ts
        /\ batch \subseteq Row /\ streamed \in Seq(Row) /\ Milli \in Nat
        /\ lastSeen' = cur.ts + Milli /\ batch' = batch \ {cur}
        /\ streamed' = Append(streamed, cur) /\ log' = log
    BY <1>8, EventStreamAssumption
       DEF AdvanceCursor, StreamerInv, Earliest, TypeOK, NextCursor
  <2>2. ASSUME NEW i \in DOMAIN streamed'
        PROVE  /\ streamed'[i] \in log'
               /\ streamed'[i].ts + Milli <= lastSeen'
               /\ \A b \in batch' : streamed'[i] # b /\ streamed'[i].ts <= b.ts
    <3>1. CASE i = Len(streamed) + 1
      BY <2>1, <3>1, BroadcastAppend DEF Row
    <3>2. CASE i \in DOMAIN streamed
      <4>1. streamed'[i] = streamed[i] /\ streamed[i] \in Row
        BY <2>1, <3>2, BroadcastAppend
      <4>2. streamed[i].ts <= cur.ts
        BY <2>1, <3>2 DEF StreamerInv
      <4>3. QED
        BY <2>1, <3>2, <4>1, <4>2 DEF StreamerInv, Row
    <3>3. QED
      BY <2>1, <2>2, <3>1, <3>2, BroadcastAppend
  <2>3. \A e \in Broadcast \cup {cur} : e \in Broadcast'
    BY <2>1, BroadcastAppend DEF Broadcast
  <2>4. \A c \in Clients : \A e \in live'[c] : e \in Broadcast'
    BY <1>8, <2>3 DEF AdvanceCursor, StreamerInv
  <2>5. spc' \in {"wait", "pick"} /\ targets' = {} /\ batch' \subseteq log'
    BY <1>8, <2>1 DEF AdvanceCursor, StreamerInv
  <2>6. QED
    BY <2>2, <2>4, <2>5 DEF StreamerInv
<1>9. QED
  BY <1>1, <1>2, <1>3, <1>4, <1>5, <1>6, <1>7, <1>8 DEF StreamerStep

\* The invariant survives the death of the process.
LEMMA StreamerInvCrash == ASSUME StreamerInv, Crash PROVE StreamerInv'
BY DEF Crash, StreamerInv

\* The invariant of the streamer's loop holds in every reachable state.
THEOREM StreamerInvariant == Spec => []StreamerInv
<1>1. TypeOK /\ StreamerInv /\ [Next]_vars => StreamerInv'
  <2> SUFFICES ASSUME TypeOK, StreamerInv, [Next]_vars PROVE StreamerInv'
    OBVIOUS
  <2>1. CASE TableStep
    BY <2>1, LogGrows, StreamerInvFrame DEF TableStep
  <2>2. CASE UNCHANGED vars
    BY <2>2, StreamerInvFrame DEF vars, logVars
  <2>3. CASE StreamIdle
    BY <2>2, <2>3 DEF StreamIdle
  <2>4. ASSUME NEW c \in Clients, ConnectionNext(c) PROVE StreamerInv'
    BY <2>4, StreamerInvFrame
       DEF ConnectionNext, Connect, Stall, Resume, Break, Disconnect, Subscribe, Reads, logVars
  <2>5. ASSUME NEW c \in Clients, NEW k \in Subs, ReplayStep(c, k) PROVE StreamerInv'
    BY <2>5, StreamerInvFrame
       DEF ReplayStep, Lock, HistoryQuery, HistoryQueryFails, SendHistory,
           SendHistoryFails, ClearHistory, ReadStreamedId, GapQuery, GapQueryFails,
           SendGap, SendGapFails, GapDone, ReplayFrame, Reads, logVars
  <2>6. QED
    BY <2>1, <2>2, <2>3, <2>4, <2>5, StreamerInvStep, StreamerInvCrash DEF Next
<1>2. QED
  BY <1>1, TypeCorrect, StreamerInvInit, PTL DEF Spec

\* No connection is sent a row twice by the streamer.
THEOREM LiveDeliveryAtMostOnce == Spec => []LiveAtMostOnce
<1>1. TypeOK /\ StreamerInv => LiveAtMostOnce
  <2> SUFFICES ASSUME TypeOK, StreamerInv, NEW c \in targets, cur \in live[c] PROVE FALSE
    BY DEF LiveAtMostOnce
  <2>1. spc = "send" /\ c \in Clients /\ cur \in batch
    BY DEF StreamerInv, TypeOK, Earliest
  <2>2. cur \in Broadcast
    BY <2>1 DEF StreamerInv
  <2>3. QED
    BY <2>1, <2>2 DEF Broadcast, StreamerInv
<1>2. QED
  BY <1>1, TypeCorrect, StreamerInvariant, PTL

-----------------------------------------------------------------------------
(***************************************************************************)
(* Steps that do not concern the streamer.                                 *)
(***************************************************************************)
\* Writers, readers, replays and idle ticks leave the streamer's variables and
\* what it has delivered unchanged, and remove no row from the table.
LEMMA BystanderStep ==
    ASSUME [Next]_vars, ~Crash, ~Start, ~StreamerStep
    PROVE  log \subseteq log' /\ UNCHANGED <<streamerVars, historyVars>>
<1>1. CASE TableStep
  BY <1>1, LogGrows DEF TableStep
<1>2. CASE UNCHANGED vars \/ StreamIdle
  BY <1>2 DEF StreamIdle, vars, logVars
<1>3. ASSUME NEW c \in Clients, ConnectionNext(c)
      PROVE  log \subseteq log' /\ UNCHANGED <<streamerVars, historyVars>>
  BY <1>3 DEF ConnectionNext, Connect, Stall, Resume, Break, Disconnect, Subscribe, Reads, logVars
<1>4. ASSUME NEW c \in Clients, NEW k \in Subs, ReplayStep(c, k)
      PROVE  log \subseteq log' /\ UNCHANGED <<streamerVars, historyVars>>
  BY <1>4 DEF ReplayStep, Lock, HistoryQuery, HistoryQueryFails, SendHistory,
              SendHistoryFails, ClearHistory, ReadStreamedId, GapQuery, GapQueryFails,
              SendGap, SendGapFails, GapDone, ReplayFrame, Reads, logVars
<1>5. QED
  BY <1>1, <1>2, <1>3, <1>4 DEF Next

-----------------------------------------------------------------------------
(***************************************************************************)
(* The cursor.                                                             *)
(***************************************************************************)
\* A pending row stays pending until it is broadcast.
THEOREM CursorSkipsNothingPending == Spec => NeverDropsPending
<1> DEFINE A == spc \notin {"down", "starting"} /\ spc' # "down" =>
                  \A e \in log : Pending(e) => Pending(e)' \/ e \in Broadcast'
<1>1. TypeOK /\ StreamerInv /\ [Next]_vars => A
  <2> SUFFICES ASSUME TypeOK, StreamerInv, [Next]_vars,
                      spc \notin {"down", "starting"}, spc' # "down",
                      NEW e \in log, Pending(e)
               PROVE  Pending(e)' \/ e \in Broadcast'
    OBVIOUS
  <2>1. ~Crash /\ ~Start /\ ~StreamStart
    BY DEF Crash, Start, StreamStart
  <2>2. CASE log \subseteq log' /\ UNCHANGED <<lastSeen, batch>>
    BY <2>2 DEF Pending
  <2>3. CASE ~StreamerStep
    BY <2>1, <2>2, <2>3, BystanderStep DEF streamerVars
  <2>4. CASE StreamQuery
    <3>1. batch = {}
      BY <2>4 DEF StreamQuery, TypeOK
    <3>2. QED
      BY <2>4, <3>1 DEF StreamQuery, Pending, RowsFrom
  <2>5. CASE LockClients \/ PickEvent \/ \E c \in Clients : ScanClient(c) \/ SendLive(c)
    BY <2>2, <2>5 DEF LockClients, PickEvent, ScanClient, SendLive, Reads, logVars
  <2>6. CASE AdvanceCursor
    <3>1. /\ cur \in batch /\ cur \in Row /\ streamed \in Seq(Row)
          /\ lastSeen' = cur.ts + Milli /\ batch' = batch \ {cur}
          /\ streamed' = Append(streamed, cur) /\ log' = log
      BY <2>6 DEF AdvanceCursor, StreamerInv, Earliest, TypeOK, NextCursor, Reads, logVars
    <3>2. cur \in Broadcast'
      BY <3>1, BroadcastAppend DEF Broadcast
    <3>3. QED
      BY <3>1, <3>2 DEF Pending
  <2>7. QED
    BY <2>1, <2>3, <2>4, <2>5, <2>6 DEF StreamerStep
<1>2. TypeOK /\ StreamerInv /\ [Next]_vars => [A]_vars
  BY <1>1
<1>3. QED
  BY <1>2, TypeCorrect, StreamerInvariant, PTL DEF Spec, NeverDropsPending, A

-----------------------------------------------------------------------------
(***************************************************************************)
(* Refinement.                                                             *)
(***************************************************************************)
\* The streamer, its cursor, its clients and its restarts implement the
\* abstract feed: each row at most once per epoch, in order of created_at.
THEOREM StreamImplementsFeed == Spec => FeedSpec
<1>1. Init => Feed!Init
  BY DEF Init, LogInit, Feed!Init
<1>2. TypeOK /\ StreamerInv /\ [Next]_vars => [Feed!Next]_(Feed!feedVars)
  <2> SUFFICES ASSUME TypeOK, StreamerInv, [Next]_vars
               PROVE  Feed!Next \/ UNCHANGED <<log, streamed>>
    BY DEF Feed!feedVars
  <2>1. CASE TableStep
    <3>1. UNCHANGED streamed
      BY <2>1 DEF TableStep, historyVars
    <3>2. log' = log \/ \E e \in log' : log' = log \cup {e}
      BY <2>1 DEF TableStep, LogNext, Tick, InsertNext, BeginInsert, DrawId, CommitInsert,
                  AbortInsert
    <3>3. QED
      BY <3>1, <3>2 DEF Feed!Next, Feed!Commit
  <2>2. CASE AdvanceCursor
    <3>1. cur \in log /\ cur \in batch
      BY <2>2 DEF AdvanceCursor, StreamerInv, Earliest
    <3>2. \A i \in DOMAIN streamed : streamed[i] # cur /\ streamed[i].ts <= cur.ts
      BY <3>1 DEF StreamerInv
    <3>3. log' = log /\ streamed' = Append(streamed, cur)
      BY <2>2 DEF AdvanceCursor, Reads, logVars
    <3>4. QED
      BY <3>1, <3>2, <3>3 DEF Feed!Next, Feed!Publish
  <2>3. CASE Crash
    BY <2>3 DEF Crash, logVars, Feed!Next, Feed!NewEpoch
  <2>4. CASE Start \/ (StreamerStep /\ ~AdvanceCursor)
    BY <2>4 DEF Start, StreamerStep, StreamStart, StreamQuery, LockClients, ScanClient,
                PickEvent, SendLive, Reads, logVars, historyVars
  <2>5. CASE StreamIdle \/ UNCHANGED vars
    BY <2>5 DEF StreamIdle, vars, logVars, historyVars
  <2>6. ASSUME NEW c \in Clients, ConnectionNext(c) PROVE UNCHANGED <<log, streamed>>
    BY <2>6 DEF ConnectionNext, Connect, Stall, Resume, Break, Disconnect, Subscribe, Reads, logVars,
                historyVars
  <2>7. ASSUME NEW c \in Clients, NEW k \in Subs, ReplayStep(c, k)
        PROVE  UNCHANGED <<log, streamed>>
    BY <2>7 DEF ReplayStep, Lock, HistoryQuery, HistoryQueryFails, SendHistory,
                SendHistoryFails, ClearHistory, ReadStreamedId, GapQuery, GapQueryFails,
                SendGap, SendGapFails, GapDone, ReplayFrame, Reads, logVars, historyVars
  <2>8. QED
    BY <2>1, <2>2, <2>3, <2>4, <2>5, <2>6, <2>7 DEF Next
<1>3. QED
  BY <1>1, <1>2, TypeCorrect, StreamerInvariant, PTL DEF Spec, FeedSpec, Feed!Spec

-----------------------------------------------------------------------------
(***************************************************************************)
(* The replays of a connection.                                            *)
(***************************************************************************)
InHistory(c, k) == rep[<<c, k>>].pc \in {"query", "history", "clear"}

\* What one step of a replay does to the program counters, to the mutex and to
\* the flag of its connection: it takes the free mutex and raises the flag, or
\* runs on under both, or lowers the flag, or releases what it holds.
ReplayMove(c, k) ==
    /\ \A s \in Replays : s # <<c, k>> => rep'[s].pc = rep[s].pc
    /\ \A d \in Clients : d # c =>
        /\ replayMutex'[d] = replayMutex[d]
        /\ isStreamingHistory'[d] = isStreamingHistory[d]
    /\ \/ rep[<<c, k>>].pc = "lock" /\ ~replayMutex[c]
       \/ Running(c, k)
    /\ replayMutex'[c] <=> Running(c, k)'
    /\ \/ isStreamingHistory'[c] <=> InHistory(c, k)'
       \/ /\ isStreamingHistory'[c] = isStreamingHistory[c]
          /\ InHistory(c, k)' <=> InHistory(c, k)
          /\ Running(c, k)

\* What each step of a replay does to the two locks and to the pc of its
\* request (events.go:120-197).
LEMMA ReplayMoves ==
    ASSUME TypeOK, NEW c \in Clients, NEW k \in Subs, ReplayStep(c, k),
           HistoryFlagIsAccurate, ReplayExclusive
    PROVE  ReplayMove(c, k)
<1> DEFINE r == rep[<<c, k>>]
<1> USE DEF ReplayMove, Running, InHistory
<1>1. /\ rep \in [Replays -> ReplayState] /\ <<c, k>> \in Replays
      /\ replayMutex \in [Clients -> BOOLEAN]
      /\ isStreamingHistory \in [Clients -> BOOLEAN]
  BY DEF TypeOK, Replays
<1>2. Running(c, k) => replayMutex[c]
  BY DEF ReplayExclusive
<1>3. \A d \in Clients : d # c =>
        /\ replayMutex'[d] = replayMutex[d]
        /\ isStreamingHistory'[d] = isStreamingHistory[d]
  BY <1>1 DEF ReplayStep, Lock, HistoryQuery, HistoryQueryFails, SendHistory,
        SendHistoryFails, ClearHistory, ReadStreamedId, GapQuery, GapQueryFails,
        SendGap, SendGapFails, GapDone, ReturnFromHistory, Return
<1>4. \A s \in Replays : s # <<c, k>> => rep'[s] = rep[s]
  BY <1>1 DEF ReplayStep, Lock, HistoryQuery, HistoryQueryFails, SendHistory,
        SendHistoryFails, ClearHistory, ReadStreamedId, GapQuery, GapQueryFails,
        SendGap, SendGapFails, GapDone, ReturnFromHistory, Return
<1>5. CASE Lock(c, k)
  BY <1>5, <1>1, <1>2, <1>3, <1>4 DEF Lock, ReturnFromHistory, Return, ReplayState
<1>6. CASE HistoryQuery(c, k)
  BY <1>6, <1>1, <1>2, <1>3, <1>4 DEF HistoryQuery, ReturnFromHistory, Return, ReplayState
<1>7. CASE HistoryQueryFails(c, k)
  BY <1>7, <1>1, <1>2, <1>3, <1>4 DEF HistoryQueryFails, ReturnFromHistory, Return, ReplayState
<1>8. CASE SendHistory(c, k)
  BY <1>8, <1>1, <1>2, <1>3, <1>4 DEF SendHistory, ReturnFromHistory, Return, ReplayState
<1>9. CASE SendHistoryFails(c, k)
  BY <1>9, <1>1, <1>2, <1>3, <1>4 DEF SendHistoryFails, ReturnFromHistory, Return, ReplayState
<1>10. CASE ClearHistory(c, k)
  <2>1. /\ \/ r.pc = "clear"
           \/ r.pc = "history"
        /\ isStreamingHistory'[c] = FALSE
    BY <1>10, <1>1 DEF ClearHistory
  <2>2. CASE r.lastID > 0
    <3>1. rep'[<<c, k>>].pc = "readId" /\ replayMutex' = replayMutex
      BY <1>10, <1>1, <2>2 DEF ClearHistory, ReplayState
    <3>2. QED
      BY <1>1, <1>2, <1>3, <1>4, <2>1, <3>1
  <2>3. CASE ~(r.lastID > 0)
    <3>1. rep'[<<c, k>>].pc = "done" /\ replayMutex'[c] = FALSE
      BY <1>10, <1>1, <2>3 DEF ClearHistory, ReplayState, Return
    <3>2. QED
      BY <1>1, <1>2, <1>3, <1>4, <2>1, <3>1
  <2>4. QED
    BY <2>2, <2>3
<1>11. CASE ReadStreamedId(c, k)
  <2>1. r.pc = "readId" /\ isStreamingHistory' = isStreamingHistory
    BY <1>11 DEF ReadStreamedId
  <2>2. \/ rep'[<<c, k>>].pc = "gapQuery" /\ replayMutex' = replayMutex
        \/ rep'[<<c, k>>].pc = "done" /\ replayMutex'[c] = FALSE
    <3>1. CASE lastStreamedEventID > r.lastID
      <4>1. /\ rep' = [rep EXCEPT ![<<c, k>>].upTo = lastStreamedEventID,
                                  ![<<c, k>>].stale = BroadcastWithout(c),
                                  ![<<c, k>>].pc = "gapQuery"]
            /\ replayMutex' = replayMutex
        BY <1>11, <3>1 DEF ReadStreamedId
      <4>2. rep'[<<c, k>>] = [r EXCEPT !.upTo = lastStreamedEventID,
                                       !.stale = BroadcastWithout(c), !.pc = "gapQuery"]
        BY <1>1, <4>1
      <4>3. r \in ReplayState
        BY <1>1
      <4>4. rep'[<<c, k>>].pc = "gapQuery"
        BY <4>2, <4>3 DEF ReplayState
      <4>5. QED
        BY <4>1, <4>4
    <3>2. CASE ~(lastStreamedEventID > r.lastID)
      <4>1. /\ rep' = [rep EXCEPT ![<<c, k>>].stale = BroadcastWithout(c),
                                  ![<<c, k>>].pc = "done"]
            /\ replayMutex' = [replayMutex EXCEPT ![c] = FALSE]
        BY <1>11, <3>2 DEF ReadStreamedId
      <4>2. rep'[<<c, k>>] = [r EXCEPT !.stale = BroadcastWithout(c), !.pc = "done"]
        BY <1>1, <4>1
      <4>3. r \in ReplayState
        BY <1>1
      <4>4. rep'[<<c, k>>].pc = "done"
        BY <4>2, <4>3 DEF ReplayState
      <4>5. replayMutex'[c] = FALSE
        BY <1>1, <4>1
      <4>6. QED
        BY <4>4, <4>5
    <3>3. QED
      BY <3>1, <3>2
  <2>3. QED
    BY <1>1, <1>2, <1>3, <1>4, <2>1, <2>2
<1>12. CASE GapQuery(c, k)
  BY <1>12, <1>1, <1>2, <1>3, <1>4 DEF GapQuery, ReturnFromHistory, Return, ReplayState
<1>13. CASE GapQueryFails(c, k)
  BY <1>13, <1>1, <1>2, <1>3, <1>4 DEF GapQueryFails, ReturnFromHistory, Return, ReplayState
<1>14. CASE SendGap(c, k)
  BY <1>14, <1>1, <1>2, <1>3, <1>4 DEF SendGap, ReturnFromHistory, Return, ReplayState
<1>15. CASE SendGapFails(c, k)
  BY <1>15, <1>1, <1>2, <1>3, <1>4 DEF SendGapFails, ReturnFromHistory, Return, ReplayState
<1>16. CASE GapDone(c, k)
  BY <1>16, <1>1, <1>2, <1>3, <1>4 DEF GapDone, ReturnFromHistory, Return, ReplayState
<1>17. QED
  BY <1>5, <1>6, <1>7, <1>8, <1>9, <1>10, <1>11, <1>12, <1>13, <1>14, <1>15, <1>16 DEF ReplayStep

\* The mutex and the flag of a connection agree with its replays after every
\* move of one of them.
LEMMA ReplayMovesKeep ==
    ASSUME TypeOK, NEW c \in Clients, NEW k \in Subs, ReplayMove(c, k),
           HistoryFlagIsAccurate, ReplayExclusive
    PROVE  HistoryFlagIsAccurate' /\ ReplayExclusive'
<1>1. \A d \in Clients, j \in Subs : <<d, j>> # <<c, k>> =>
        /\ Running(d, j)' <=> Running(d, j)
        /\ InHistory(d, j)' <=> InHistory(d, j)
  BY DEF ReplayMove, Running, InHistory, Replays
<1>2. \A j \in Subs : Running(c, j) => j = k
  BY DEF ReplayMove, ReplayExclusive
<1>3. \A d \in Clients, j \in Subs : InHistory(d, j) => Running(d, j)
  BY DEF InHistory, Running
<1>4. ReplayExclusive'
  BY <1>1, <1>2 DEF ReplayExclusive, ReplayMove
<1>5. \A d \in Clients : isStreamingHistory[d] <=> \E j \in Subs : InHistory(d, j)
  BY DEF HistoryFlagIsAccurate, InHistory
<1>6. \A d \in Clients : isStreamingHistory'[d] <=> \E j \in Subs : InHistory(d, j)'
  <2>1. ASSUME NEW d \in Clients, d # c
        PROVE  isStreamingHistory'[d] <=> \E j \in Subs : InHistory(d, j)'
    BY <1>1, <1>5, <2>1 DEF ReplayMove
  <2>2. \A j \in Subs \ {k} : ~InHistory(c, j)'
    BY <1>1, <1>2, <1>3
  <2>3. isStreamingHistory'[c] <=> InHistory(c, k)'
    BY <1>2, <1>3, <1>5 DEF ReplayMove
  <2>4. QED
    BY <2>1, <2>2, <2>3
<1>7. QED
  BY <1>4, <1>6 DEF HistoryFlagIsAccurate, InHistory

\* Replays of one connection exclude each other, and the flag that silences the
\* live stream for a connection is set exactly while one of them sends history.
THEOREM ReplayDiscipline == Spec => [](ReplayExclusive /\ HistoryFlagIsAccurate)
<1> DEFINE Inv == ReplayExclusive /\ HistoryFlagIsAccurate
<1>1. Init => Inv
  <2> SUFFICES ASSUME Init PROVE Inv
    OBVIOUS
  <2>1. \A c \in Clients, k \in Subs : rep[<<c, k>>].pc = "idle"
    BY DEF Init, IdleReplay, Replays
  <2>2. QED
    BY <2>1 DEF Init, ReplayExclusive, HistoryFlagIsAccurate, Running
<1>2. TypeOK /\ Inv /\ [Next]_vars => Inv'
  <2> SUFFICES ASSUME TypeOK, Inv, [Next]_vars PROVE Inv'
    OBVIOUS
  <2>1. CASE UNCHANGED replayVars
    BY <2>1 DEF replayVars, ReplayExclusive, HistoryFlagIsAccurate, Running
  <2>2. CASE TableStep \/ StreamIdle \/ Start \/ StreamerStep \/ UNCHANGED vars
    <3>1. UNCHANGED replayVars
      BY <2>2 DEF TableStep, StreamIdle, vars, Start, StreamerStep, StreamStart,
             StreamQuery, LockClients, ScanClient, PickEvent, SendLive, AdvanceCursor
    <3>2. QED
      BY <2>1, <3>1
  <2>3. CASE Crash
    <3>1. \A c \in Clients, k \in Subs : rep'[<<c, k>>].pc = "idle"
      BY <2>3 DEF Crash, IdleReplay, Replays
    <3>2. \A c \in Clients : ~replayMutex'[c] /\ ~isStreamingHistory'[c]
      BY <2>3 DEF Crash
    <3>3. \A c \in Clients, k \in Subs : ~Running(c, k)' /\ ~InHistory(c, k)'
      BY <3>1 DEF Running, InHistory
    <3>4. QED
      BY <3>2, <3>3 DEF ReplayExclusive, HistoryFlagIsAccurate, InHistory
  <2>4. ASSUME NEW c \in Clients,
               Connect(c) \/ Stall(c) \/ Resume(c) \/ Break(c) \/ Disconnect(c)
        PROVE  Inv'
    BY <2>1, <2>4 DEF Connect, Stall, Resume, Break, Disconnect
  <2>5. ASSUME NEW c \in Clients, NEW k \in Subs, Subscribe(c, k) PROVE Inv'
    <3>1. \A d \in Clients, j \in Subs :
            \/ rep'[<<d, j>>].pc = rep[<<d, j>>].pc
            \/ rep[<<d, j>>].pc = "idle" /\ rep'[<<d, j>>].pc = "lock"
      <4>1. PICK ls \in LastSeens \cup {NoLastSeen} :
              rep' = [rep EXCEPT ![<<c, k>>].pc = "lock", ![<<c, k>>].last = ls]
        BY <2>5 DEF Subscribe
      <4>2. rep'[<<c, k>>] = [rep[<<c, k>>] EXCEPT !.pc = "lock", !.last = ls]
        BY <4>1 DEF TypeOK, Replays
      <4>3. rep[<<c, k>>] \in ReplayState /\ rep[<<c, k>>].pc = "idle"
        BY <2>5 DEF TypeOK, Replays, Subscribe
      <4>4. rep'[<<c, k>>].pc = "lock"
        BY <4>2, <4>3 DEF ReplayState
      <4>5. QED
        BY <4>1, <4>3, <4>4 DEF TypeOK, Replays
    <3>2. \A d \in Clients, j \in Subs :
            /\ Running(d, j)' <=> Running(d, j)
            /\ InHistory(d, j)' <=> InHistory(d, j)
      BY <3>1 DEF Running, InHistory
    <3>3. UNCHANGED <<replayMutex, isStreamingHistory>>
      BY <2>5 DEF Subscribe
    <3>4. QED
      BY <3>2, <3>3 DEF ReplayExclusive, HistoryFlagIsAccurate, InHistory
  <2>6. ASSUME NEW c \in Clients, NEW k \in Subs, ReplayStep(c, k) PROVE Inv'
    BY <2>6, ReplayMoves, ReplayMovesKeep
  <2>7. QED
    BY <2>2, <2>3, <2>4, <2>5, <2>6 DEF Next, ConnectionNext
<1>3. QED
  BY <1>1, <1>2, TypeCorrect, PTL DEF Spec

=============================================================================
