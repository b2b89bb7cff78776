----------------------------- MODULE EventStream -----------------------------
(***************************************************************************)
(* Streaming of system events to WebSocket clients (src/api/events.go).    *)
(*                                                                         *)
(* Four kinds of activity run concurrently in the agent: one streamer      *)
(* goroutine polls the table and broadcasts what is new; one reader        *)
(* goroutine per connection accepts subscriptions; each subscription       *)
(* spawns a replay goroutine that sends the rows the client missed; and    *)
(* the process may die and be started again.  Time is the database clock   *)
(* of SystemEvents, in ticks; one millisecond is Milli of them.            *)
(***************************************************************************)
EXTENDS SystemEvents, Sequences

CONSTANTS
    Clients,        \* WebSocket connections; each is used once
    Subs,           \* subscribe requests a connection may send
    LastSeens,      \* values of last_seen a request may carry
    NoLastSeen,     \* a request without last_seen
    Milli,          \* ticks in the millisecond the cursor is advanced by
    StartSkews,     \* agent clock minus database clock when a streamer starts
    ZoneShift,      \* shift of last_seen: time.UnixMilli is a local time and
                    \* the driver drops the zone of a TIMESTAMP argument
    MayStall,       \* connections whose peer may stop reading for a while
    MaxRestarts     \* bound: number of process crashes

ASSUME EventStreamAssumption ==
    /\ LastSeens \subseteq Int
    /\ NoLastSeen \notin LastSeens
    /\ Milli \in Nat \ {0}
    /\ StartSkews \subseteq Int
    /\ ZoneShift \in Int
    /\ MayStall \subseteq Clients
    /\ MaxRestarts \in Nat

VARIABLES
    spc,                    \* where the streamer goroutine is
    lastSeen,               \* its cursor
    batch,                  \* rows of its last query not yet broadcast
    scan,                   \* connections it has still to look at
    activeClients,          \* its snapshot of the connections to serve
    cur,                    \* the row it is broadcasting
    targets,                \* activeClients it has still to send cur to
    lastStreamedEventID,    \* process-wide variable read by the replays
    conn,                   \* state of each connection
    subscribed,             \* client.subscriptions["system_events"]
    isStreamingHistory,     \* client.isStreamingHistory
    replayMutex,            \* client.replayMutex is held
    rep,                    \* rep[<<c, k>>]: the replay goroutine of a request
    restarts,               \* crashes so far
    streamed,               \* history: rows broadcast since the process started
    live                    \* history: rows the streamer delivered to a connection

streamerVars == <<spc, lastSeen, batch, scan, activeClients, cur, targets>>
clientVars   == <<conn, subscribed>>
replayVars   == <<isStreamingHistory, replayMutex, rep>>
historyVars  == <<streamed, live>>

vars == <<logVars, streamerVars, lastStreamedEventID, clientVars, replayVars,
          restarts, historyVars>>

Replays == Clients \X Subs

\* The rows broadcast so far, whatever their order.
Broadcast == {streamed[i] : i \in DOMAIN streamed}

\* The local variables of a replay goroutine.  Three of them are history: got,
\* the rows it delivered; had, the rows its connection had from the streamer
\* when the replay was through with history; and stale, the rows of a broadcast
\* under way when it read lastStreamedEventID whose snapshot of clients leaves
\* its connection out.
ReplayState ==
    [pc : {"idle", "lock", "query", "history", "clear", "readId", "gapQuery",
           "gap", "done", "failed"},
     last : LastSeens \cup {NoLastSeen}, rows : SUBSET Row, lastID : Nat,
     lastTime : Nat, upTo : Nat, got : SUBSET Row, had : SUBSET Row,
     stale : SUBSET Row]

IdleReplay ==
    [pc |-> "idle", last |-> NoLastSeen, rows |-> {}, lastID |-> 0,
     lastTime |-> 0, upTo |-> 0, got |-> {}, had |-> {}, stale |-> {}]

TypeOK ==
    /\ LogTypeOK
    /\ spc \in {"down", "starting", "wait", "lock", "scan", "pick", "send"}
    /\ lastSeen \in Int
    /\ batch \in SUBSET Row
    /\ batch = {} <=> spc \in {"down", "starting", "wait"}
    /\ scan \in SUBSET Clients
    /\ activeClients \in SUBSET Clients
    /\ cur \in Row
    /\ targets \in SUBSET Clients
    /\ lastStreamedEventID \in Nat
    /\ conn \in [Clients -> {"new", "open", "stalled", "broken", "closed"}]
    /\ subscribed \in [Clients -> BOOLEAN]
    /\ isStreamingHistory \in [Clients -> BOOLEAN]
    /\ replayMutex \in [Clients -> BOOLEAN]
    /\ rep \in [Replays -> ReplayState]
    /\ restarts \in Nat
    /\ streamed \in Seq(Row)
    /\ live \in [Clients -> SUBSET Row]

Init ==
    /\ LogInit
    /\ spc = "down"
    /\ lastSeen = 0
    /\ batch = {}
    /\ scan = {}
    /\ activeClients = {}
    /\ cur = NoRow
    /\ targets = {}
    /\ lastStreamedEventID = 0
    /\ conn = [c \in Clients |-> "new"]
    /\ subscribed = [c \in Clients |-> FALSE]
    /\ isStreamingHistory = [c \in Clients |-> FALSE]
    /\ replayMutex = [c \in Clients |-> FALSE]
    /\ rep = [r \in Replays |-> IdleReplay]
    /\ restarts = 0
    /\ streamed = <<>>
    /\ live = [c \in Clients |-> {}]

Reads == UNCHANGED <<logVars, restarts>>

-----------------------------------------------------------------------------
(***************************************************************************)
(* The process.  The streamer is started with `go`, before the HTTP server *)
(* listens: connections may be served before it has read the time.         *)
(***************************************************************************)
Start ==
    /\ spc = "down"
    /\ spc' = "starting"
    /\ UNCHANGED <<lastSeen, batch, scan, activeClients, cur, targets>>
    /\ UNCHANGED <<lastStreamedEventID, clientVars, replayVars, historyVars>>
    /\ Reads

\* The process dies: a kill, or gorilla's panic on two goroutines writing to
\* one connection, which the replay and streamer goroutines do not recover.
Crash ==
    /\ spc # "down"
    /\ restarts < MaxRestarts
    /\ restarts' = restarts + 1
    /\ spc' = "down"
    /\ lastSeen' = 0
    /\ batch' = {}
    /\ scan' = {}
    /\ activeClients' = {}
    /\ cur' = NoRow
    /\ targets' = {}
    /\ lastStreamedEventID' = 0
    /\ conn' = [c \in Clients |-> IF conn[c] = "new" THEN "new" ELSE "closed"]
    /\ subscribed' = [c \in Clients |-> FALSE]
    /\ isStreamingHistory' = [c \in Clients |-> FALSE]
    /\ replayMutex' = [c \in Clients |-> FALSE]
    /\ rep' = [r \in Replays |-> IdleReplay]
    /\ streamed' = <<>>
    /\ live' = [c \in Clients |-> {}]
    /\ UNCHANGED logVars

-----------------------------------------------------------------------------
(***************************************************************************)
(* streamNewEvents.                                                        *)
(***************************************************************************)
\* lastSeen := time.Now().UTC(), the agent's clock.
StreamStart ==
    /\ spc = "starting"
    /\ \E d \in StartSkews : lastSeen' = clock + d
    /\ spc' = "wait"
    /\ UNCHANGED <<batch, scan, activeClients, cur, targets>>
    /\ UNCHANGED <<lastStreamedEventID, clientVars, replayVars, historyVars>>
    /\ Reads

\* A tick whose query fails or finds nothing.
StreamIdle ==
    /\ spc = "wait"
    /\ UNCHANGED vars

\* Faulty variant of StreamQuery: an empty result is broadcast too.
QueryWithoutCheck ==
    /\ spc = "wait"
    /\ batch' = RowsFrom(lastSeen)
    /\ spc' = "lock"
    /\ UNCHANGED <<lastSeen, scan, activeClients, cur, targets>>
    /\ UNCHANGED <<lastStreamedEventID, clientVars, replayVars, historyVars>>
    /\ Reads

StreamQuery ==
    /\ spc = "wait"
    /\ RowsFrom(lastSeen) # {}
    /\ batch' = RowsFrom(lastSeen)
    /\ spc' = "lock"
    /\ UNCHANGED <<lastSeen, scan, activeClients, cur, targets>>
    /\ UNCHANGED <<lastStreamedEventID, clientVars, replayVars, historyVars>>
    /\ Reads

\* The connections registered in the clients map.
Registered == {c \in Clients : conn[c] \in {"open", "stalled", "broken"}}

\* clientsMutex.RLock(), held until every connection has been looked at.
LockClients ==
    /\ spc = "lock"
    /\ scan' = Registered
    /\ activeClients' = {}
    /\ spc' = IF Registered = {} THEN "pick" ELSE "scan"
    /\ UNCHANGED <<lastSeen, batch, cur, targets>>
    /\ UNCHANGED <<lastStreamedEventID, clientVars, replayVars, historyVars>>
    /\ Reads

\* Faulty variant of ScanClient: isStreamingHistory is not looked at.
ScanSubscribed(c) ==
    /\ spc = "scan"
    /\ c \in scan
    /\ scan' = scan \ {c}
    /\ activeClients' = IF subscribed[c] THEN activeClients \cup {c} ELSE activeClients
    /\ spc' = IF scan' = {} THEN "pick" ELSE "scan"
    /\ UNCHANGED <<lastSeen, batch, cur, targets>>
    /\ UNCHANGED <<lastStreamedEventID, clientVars, replayVars, historyVars>>
    /\ Reads

ScanClient(c) ==
    /\ spc = "scan"
    /\ c \in scan
    /\ scan' = scan \ {c}
    /\ activeClients' = IF subscribed[c] /\ ~isStreamingHistory[c]
                        THEN activeClients \cup {c} ELSE activeClients
    /\ spc' = IF scan' = {} THEN "pick" ELSE "scan"
    /\ UNCHANGED <<lastSeen, batch, cur, targets>>
    /\ UNCHANGED <<lastStreamedEventID, clientVars, replayVars, historyVars>>
    /\ Reads

\* The next iteration of the loop over the query's result.
PickEvent ==
    /\ spc = "pick"
    /\ \E e \in Earliest(batch) : cur' = e
    /\ targets' = activeClients
    /\ spc' = "send"
    /\ UNCHANGED <<lastSeen, batch, scan, activeClients>>
    /\ UNCHANGED <<lastStreamedEventID, clientVars, replayVars, historyVars>>
    /\ Reads

\* Faulty variant of SendLive: a deadline expires while the peer does not read.
SendLiveOrSkip(c) ==
    /\ spc = "send"
    /\ c \in targets
    /\ targets' = targets \ {c}
    /\ live' = IF conn[c] = "open" THEN [live EXCEPT ![c] = @ \cup {cur}] ELSE live
    /\ UNCHANGED <<spc, lastSeen, batch, scan, activeClients, cur, streamed>>
    /\ UNCHANGED <<lastStreamedEventID, clientVars, replayVars>>
    /\ Reads

\* sendEvent to one client.  WriteJSON has no deadline: it waits while the peer
\* does not read.  A write to a connection whose peer is gone fails; the
\* failure is only logged.
SendLive(c) ==
    /\ spc = "send"
    /\ c \in targets
    /\ conn[c] # "stalled"
    /\ targets' = targets \ {c}
    /\ live' = IF conn[c] = "open" THEN [live EXCEPT ![c] = @ \cup {cur}] ELSE live
    /\ UNCHANGED <<spc, lastSeen, batch, scan, activeClients, cur, streamed>>
    /\ UNCHANGED <<lastStreamedEventID, clientVars, replayVars>>
    /\ Reads

\* Faulty variant of NextCursor: the cursor becomes the present.
ClockCursor(e) == clock

\* Faulty variant of NextCursor: no millisecond is added.
SameInstantCursor(e) == e.ts

NextCursor(e) == e.ts + Milli

AdvanceCursor ==
    /\ spc = "send"
    /\ targets = {}
    /\ lastStreamedEventID' = IF cur.id > lastStreamedEventID THEN cur.id
                              ELSE lastStreamedEventID
    /\ lastSeen' = NextCursor(cur)
    /\ batch' = batch \ {cur}
    /\ streamed' = Append(streamed, cur)
    /\ spc' = IF batch' = {} THEN "wait" ELSE "pick"
    /\ cur' = NoRow
    /\ activeClients' = IF batch' = {} THEN {} ELSE activeClients
    /\ UNCHANGED <<scan, targets, live>>
    /\ UNCHANGED <<clientVars, replayVars>>
    /\ Reads

StreamerStep ==
    \/ StreamStart
    \/ StreamQuery
    \/ LockClients
    \/ \E c \in Clients : ScanClient(c)
    \/ PickEvent
    \/ \E c \in Clients : SendLive(c)
    \/ AdvanceCursor

-----------------------------------------------------------------------------
(***************************************************************************)
(* GetEvents: the reader goroutine of a connection.                        *)
(***************************************************************************)
\* The clients map is written under clientsMutex, so not during a scan.
Connect(c) ==
    /\ spc \notin {"down", "scan"}
    /\ conn[c] = "new"
    /\ conn' = [conn EXCEPT ![c] = "open"]
    /\ UNCHANGED <<streamerVars, lastStreamedEventID, subscribed, replayVars, historyVars>>
    /\ Reads

\* The peer stops reading: once the buffers are full, writes do not return.
Stall(c) ==
    /\ c \in MayStall
    /\ conn[c] = "open"
    /\ conn' = [conn EXCEPT ![c] = "stalled"]
    /\ UNCHANGED <<streamerVars, lastStreamedEventID, subscribed, replayVars, historyVars>>
    /\ Reads

\* It reads again.
Resume(c) ==
    /\ conn[c] = "stalled"
    /\ conn' = [conn EXCEPT ![c] = "open"]
    /\ UNCHANGED <<streamerVars, lastStreamedEventID, subscribed, replayVars, historyVars>>
    /\ Reads

\* The peer goes away: writes fail from now on, the reader has yet to notice.
Break(c) ==
    /\ conn[c] \in {"open", "stalled"}
    /\ conn' = [conn EXCEPT ![c] = "broken"]
    /\ UNCHANGED <<streamerVars, lastStreamedEventID, subscribed, replayVars, historyVars>>
    /\ Reads

\* ReadJSON fails: the connection leaves the map and is closed.
Disconnect(c) ==
    /\ spc # "scan"
    /\ conn[c] = "broken"
    /\ conn' = [conn EXCEPT ![c] = "closed"]
    /\ UNCHANGED <<streamerVars, lastStreamedEventID, subscribed, replayVars, historyVars>>
    /\ Reads

\* handleSystemEventsSubscription: marks the connection and spawns the replay.
Subscribe(c, k) ==
    /\ conn[c] \in {"open", "stalled"}
    /\ rep[<<c, k>>].pc = "idle"
    /\ subscribed' = [subscribed EXCEPT ![c] = TRUE]
    /\ \E ls \in LastSeens \cup {NoLastSeen} :
         rep' = [rep EXCEPT ![<<c, k>>].pc = "lock", ![<<c, k>>].last = ls]
    /\ UNCHANGED <<streamerVars, lastStreamedEventID, conn>>
    /\ UNCHANGED <<isStreamingHistory, replayMutex, historyVars>>
    /\ Reads

ConnectionNext(c) ==
    \/ Connect(c)
    \/ Stall(c)
    \/ Resume(c)
    \/ Break(c)
    \/ Disconnect(c)
    \/ \E k \in Subs : Subscribe(c, k)

-----------------------------------------------------------------------------
(***************************************************************************)
(* The replay goroutine of request <<c, k>>.                               *)
(***************************************************************************)
ReplayFrame == UNCHANGED <<streamerVars, lastStreamedEventID, clientVars, historyVars>>

\* Faulty variant of Return: the mutex is not released.
ReturnKeepingMutex(c, k, how) ==
    /\ rep' = [rep EXCEPT ![<<c, k>>].pc = how, ![<<c, k>>].rows = {}]
    /\ UNCHANGED replayMutex

\* The goroutine returns; the deferred Unlock releases the replay mutex.
Return(c, k, how) ==
    /\ rep' = [rep EXCEPT ![<<c, k>>].pc = how, ![<<c, k>>].rows = {}]
    /\ replayMutex' = [replayMutex EXCEPT ![c] = FALSE]

\* Faulty variant of ReturnFromHistory: the error path forgets the flag.
ReturnKeepingFlag(c, k) ==
    /\ Return(c, k, "failed")
    /\ UNCHANGED isStreamingHistory

\* Return while history is streamed: the flag is cleared on the way out.
ReturnFromHistory(c, k) ==
    /\ Return(c, k, "failed")
    /\ isStreamingHistory' = [isStreamingHistory EXCEPT ![c] = FALSE]

\* Faulty variant of Lock: the mutex is not waited for.
UnguardedLock(c, k) ==
    /\ rep[<<c, k>>].pc = "lock"
    /\ replayMutex' = [replayMutex EXCEPT ![c] = TRUE]
    /\ isStreamingHistory' = [isStreamingHistory EXCEPT ![c] = TRUE]
    /\ rep' = [rep EXCEPT ![<<c, k>>].pc =
                 IF rep[<<c, k>>].last = NoLastSeen THEN "clear" ELSE "query"]
    /\ ReplayFrame /\ Reads

\* Faulty variant of Lock: the streamer holds the client's lock while it sends.
LockUnlessSending(c, k) ==
    /\ rep[<<c, k>>].pc = "lock"
    /\ ~replayMutex[c]
    /\ ~(spc = "send" /\ c \in activeClients)
    /\ replayMutex' = [replayMutex EXCEPT ![c] = TRUE]
    /\ isStreamingHistory' = [isStreamingHistory EXCEPT ![c] = TRUE]
    /\ rep' = [rep EXCEPT ![<<c, k>>].pc =
                 IF rep[<<c, k>>].last = NoLastSeen THEN "clear" ELSE "query"]
    /\ ReplayFrame /\ Reads

\* The goroutine first writes a confirmation, whose failure is ignored: a peer
\* that holds it up is a goroutine that is slow to get here.
Lock(c, k) ==
    /\ rep[<<c, k>>].pc = "lock"
    /\ ~replayMutex[c]
    /\ replayMutex' = [replayMutex EXCEPT ![c] = TRUE]
    /\ isStreamingHistory' = [isStreamingHistory EXCEPT ![c] = TRUE]
    /\ rep' = [rep EXCEPT ![<<c, k>>].pc =
                 IF rep[<<c, k>>].last = NoLastSeen THEN "clear" ELSE "query"]
    /\ ReplayFrame /\ Reads

\* The query runs under the request's context, cancelled once GetEvents
\* has returned; any query may also fail.
HistoryQuery(c, k) ==
    /\ rep[<<c, k>>].pc = "query"
    /\ conn[c] # "closed"
    /\ rep' = [rep EXCEPT ![<<c, k>>].rows = RowsFrom(rep[<<c, k>>].last + ZoneShift),
                          ![<<c, k>>].pc = "history"]
    /\ UNCHANGED <<isStreamingHistory, replayMutex>>
    /\ ReplayFrame /\ Reads

\* The error is sent to the peer before the flag is cleared.
HistoryQueryFails(c, k) ==
    /\ rep[<<c, k>>].pc = "query"
    /\ conn[c] # "stalled"
    /\ ReturnFromHistory(c, k)
    /\ ReplayFrame /\ Reads

SendHistory(c, k) ==
    /\ rep[<<c, k>>].pc = "history"
    /\ conn[c] = "open"
    /\ \E e \in Earliest(rep[<<c, k>>].rows) :
         rep' = [rep EXCEPT ![<<c, k>>].rows = @ \ {e}, ![<<c, k>>].got = @ \cup {e},
                            ![<<c, k>>].lastID = e.id, ![<<c, k>>].lastTime = e.ts]
    /\ UNCHANGED <<isStreamingHistory, replayMutex>>
    /\ ReplayFrame /\ Reads

SendHistoryFails(c, k) ==
    /\ rep[<<c, k>>].pc = "history"
    /\ rep[<<c, k>>].rows # {}
    /\ conn[c] \in {"broken", "closed"}
    /\ ReturnFromHistory(c, k)
    /\ ReplayFrame /\ Reads

\* All history is sent.  With nothing sent there is no gap to fill.
ClearHistory(c, k) ==
    /\ \/ rep[<<c, k>>].pc = "clear"
       \/ rep[<<c, k>>].pc = "history" /\ rep[<<c, k>>].rows = {}
    /\ isStreamingHistory' = [isStreamingHistory EXCEPT ![c] = FALSE]
    /\ IF rep[<<c, k>>].lastID > 0
       THEN /\ rep' = [rep EXCEPT ![<<c, k>>].pc = "readId", ![<<c, k>>].had = live[c]]
            /\ UNCHANGED replayMutex
       ELSE Return(c, k, "done")
    /\ ReplayFrame /\ Reads

\* Rows the streamer is broadcasting without c: its snapshot of the clients
\* was taken while c was streaming history.
BroadcastWithout(c) ==
    IF spc \in {"scan", "pick", "send"} /\ c \notin scan \cup activeClients
    THEN batch ELSE {}

ReadStreamedId(c, k) ==
    /\ rep[<<c, k>>].pc = "readId"
    /\ IF lastStreamedEventID > rep[<<c, k>>].lastID
       THEN /\ rep' = [rep EXCEPT ![<<c, k>>].upTo = lastStreamedEventID,
                                  ![<<c, k>>].stale = BroadcastWithout(c),
                                  ![<<c, k>>].pc = "gapQuery"]
            /\ UNCHANGED replayMutex
       ELSE /\ rep' = [rep EXCEPT ![<<c, k>>].stale = BroadcastWithout(c), ![<<c, k>>].pc = "done"]
            /\ replayMutex' = [replayMutex EXCEPT ![c] = FALSE]
    /\ UNCHANGED isStreamingHistory
    /\ ReplayFrame /\ Reads

\* Faulty variant of GapRows: the last row of the gap is left out.
GapRowsOpenEnd(r) == {e \in RowsFrom(r.lastTime) : e.id > r.lastID /\ e.id < r.upTo}

\* Faulty variant of GapRows: all of the history is read again.
GapRowsFromLast(r) == {e \in RowsFrom(r.last) : e.id <= r.upTo}

\* Rows of the gap: the query starts one nanosecond after lastTime, which the
\* driver truncates to the microsecond, so at lastTime itself.
GapRows(r) == {e \in RowsFrom(r.lastTime) : e.id > r.lastID /\ e.id <= r.upTo}

GapQuery(c, k) ==
    /\ rep[<<c, k>>].pc = "gapQuery"
    /\ conn[c] # "closed"
    /\ rep' = [rep EXCEPT ![<<c, k>>].rows = GapRows(rep[<<c, k>>]), ![<<c, k>>].pc = "gap"]
    /\ UNCHANGED <<isStreamingHistory, replayMutex>>
    /\ ReplayFrame /\ Reads

GapQueryFails(c, k) ==
    /\ rep[<<c, k>>].pc = "gapQuery"
    /\ Return(c, k, "failed")
    /\ UNCHANGED isStreamingHistory
    /\ ReplayFrame /\ Reads

SendGap(c, k) ==
    /\ rep[<<c, k>>].pc = "gap"
    /\ conn[c] = "open"
    /\ \E e \in Earliest(rep[<<c, k>>].rows) :
         rep' = [rep EXCEPT ![<<c, k>>].rows = @ \ {e}, ![<<c, k>>].got = @ \cup {e}]
    /\ UNCHANGED <<isStreamingHistory, replayMutex>>
    /\ ReplayFrame /\ Reads

SendGapFails(c, k) ==
    /\ rep[<<c, k>>].pc = "gap"
    /\ rep[<<c, k>>].rows # {}
    /\ conn[c] \in {"broken", "closed"}
    /\ Return(c, k, "failed")
    /\ UNCHANGED isStreamingHistory
    /\ ReplayFrame /\ Reads

GapDone(c, k) ==
    /\ rep[<<c, k>>].pc = "gap"
    /\ rep[<<c, k>>].rows = {}
    /\ Return(c, k, "done")
    /\ UNCHANGED isStreamingHistory
    /\ ReplayFrame /\ Reads

ReplayStep(c, k) ==
    \/ Lock(c, k)
    \/ HistoryQuery(c, k)
    \/ HistoryQueryFails(c, k)
    \/ SendHistory(c, k)
    \/ SendHistoryFails(c, k)
    \/ ClearHistory(c, k)
    \/ ReadStreamedId(c, k)
    \/ GapQuery(c, k)
    \/ GapQueryFails(c, k)
    \/ SendGap(c, k)
    \/ SendGapFails(c, k)
    \/ GapDone(c, k)

-----------------------------------------------------------------------------
TableStep ==
    /\ LogNext
    /\ UNCHANGED <<streamerVars, lastStreamedEventID, clientVars, replayVars,
                   restarts, historyVars>>

Next ==
    \/ TableStep
    \/ Start
    \/ Crash
    \/ StreamIdle
    \/ StreamerStep
    \/ \E c \in Clients : ConnectionNext(c)
    \/ \E c \in Clients, k \in Subs : ReplayStep(c, k)

Spec == Init /\ [][Next]_vars

(***************************************************************************)
(* Every goroutine that can run does: the ticker fires again and again,    *)
(* the database does not fail for ever, a write to a peer that reads, or   *)
(* is gone, returns, and a supervisor starts the process.  Nothing is      *)
(* assumed of clients, crashes or writers.                                 *)
(***************************************************************************)
Fairness ==
    /\ WF_vars(Start)
    /\ WF_vars(StreamerStep)
    /\ \A c \in Clients, k \in Subs : WF_vars(ReplayStep(c, k))

FairSpec == Spec /\ Fairness

-----------------------------------------------------------------------------
(***************************************************************************)
(* Safety.                                                                 *)
(***************************************************************************)
\* What the streamer's loop maintains: every row broadcast is a millisecond
\* behind the cursor and not newer than the rows still in the batch; the row
\* being sent is an earliest one; a connection has received broadcast rows
\* only, and the current one only after its turn (events.go:243-286).
StreamerInv ==
    /\ batch \subseteq log
    /\ \A i \in DOMAIN streamed :
          /\ streamed[i] \in log
          /\ streamed[i].ts + Milli <= lastSeen
          /\ \A b \in batch : streamed[i] # b /\ streamed[i].ts <= b.ts
    /\ spc = "send" => cur \in Earliest(batch)
    /\ spc # "send" => targets = {}
    /\ spc \in {"down", "starting"} => streamed = <<>>
    /\ \A c \in Clients : \A e \in live[c] :
          \/ e \in Broadcast
          \/ spc = "send" /\ c \notin targets /\ e = cur

\* The streamer never sends a row twice to a connection, although rows commit
\* out of order and each query reaches back to the cursor (events.go:243-286).
LiveAtMostOnce == \A c \in targets : cur \notin live[c]

\* The replays of one connection run one at a time, whatever number of
\* subscribe messages it sends: replayMutex is held by at most one goroutine
\* and by one whenever it is held (events.go:125-126).
Running(c, k) == rep[<<c, k>>].pc \notin {"idle", "lock", "done", "failed"}

ReplayExclusive ==
    \A c \in Clients :
        /\ \A j, k \in Subs : Running(c, j) /\ Running(c, k) => j = k
        /\ replayMutex[c] <=> \E k \in Subs : Running(c, k)

\* isStreamingHistory, which makes the streamer skip a connection, is set
\* exactly while one of its replays still sends history: no error path leaves
\* it set, which would silence the connection for good (events.go:128-167).
HistoryFlagIsAccurate ==
    \A c \in Clients :
        isStreamingHistory[c] <=>
            \E k \in Subs : rep[<<c, k>>].pc \in {"query", "history", "clear"}

\* Of the rows that a connection has, by then, from the replay or from the
\* streamer, the gap repeats only those with the very timestamp of the last
\* history row.  What the streamer sends between the moment the flag is cleared
\* and the gap query is not among them: it may come again whatever its time
\* (events.go:128-192, 257-286).
GapRepeatsLittle ==
    \A r \in Replays :
        rep[r].pc = "gap" =>
            \A e \in rep[r].rows \cap (rep[r].got \cup rep[r].had) :
                e.ts = rep[r].lastTime

\* The hand-off from history to live loses no more than it must by the
\* code's choice of comparisons.  Take a connection with one subscription
\* whose replay sent some history and is done: it has every row broadcast by
\* this process, except rows of the one broadcast that was under way without
\* it when the replay read lastStreamedEventID, and rows behind the last
\* history row in time or in id, as all those before its threshold are
\* (events.go:128-196, 257-266).
Received(c) == live[c] \cup UNION {rep[<<c, k>>].got : k \in Subs}

Behind(e, r) == e.ts < r.lastTime \/ e.id < r.lastID

OnlyRequest(c, k) == \A j \in Subs \ {k} : rep[<<c, j>>].pc = "idle"

HandoffLosesOneBatch ==
    \A c \in Clients, k \in Subs :
        LET r == rep[<<c, k>>] IN
        (conn[c] = "open" /\ OnlyRequest(c, k) /\ r.pc = "done" /\ r.lastID > 0) =>
            \A e \in Broadcast : e \in Received(c) \cup r.stale \/ Behind(e, r)

\* Where the streamer and a replay can go on: the guards of their steps.
StreamerCanStep ==
    \/ spc \in {"starting", "wait", "lock"}
    \/ spc = "scan" /\ scan # {}
    \/ spc = "pick" /\ Earliest(batch) # {}
    \/ spc = "send" /\ (targets = {} \/ \E c \in targets : conn[c] # "stalled")

ReplayCanStep(c, k) ==
    LET r == rep[<<c, k>>] IN
    \/ r.pc = "lock" /\ ~replayMutex[c]
    \/ r.pc \in {"clear", "query", "readId", "gapQuery"}
    \/ /\ r.pc \in {"history", "gap"}
       /\ \/ r.rows = {}
          \/ conn[c] \in {"broken", "closed"}
          \/ conn[c] = "open" /\ Earliest(r.rows) # {}

\* Two locks, error paths and empty results leave no goroutine behind: one that
\* cannot go on waits for a peer that does not read, or for the mutex while the
\* replay that holds it can go on.  In particular no goroutine waits for one
\* that serves another connection, but the streamer does not get past a peer
\* that stalls (events.go:115-197, 243-286).
NobodyWedged ==
    /\ spc # "down" =>
          StreamerCanStep \/ (spc = "send" /\ \A c \in targets : conn[c] = "stalled")
    /\ \A c \in Clients, k \in Subs :
          \/ rep[<<c, k>>].pc \in {"idle", "done", "failed"}
          \/ ReplayCanStep(c, k)
          \/ conn[c] = "stalled"
          \/ \E j \in Subs \ {k} : Running(c, j) /\ ReplayCanStep(c, j)

-----------------------------------------------------------------------------
(***************************************************************************)
(* Action properties.                                                      *)
(***************************************************************************)
\* Rows the streamer has read, or will read with its next query.
Pending(e) ==
    \/ e \in batch
    \/ e \in log /\ e.ts >= lastSeen /\ \A b \in batch : e.ts >= b.ts + Milli

\* A pending row, which the cursor has not passed and which is not within a
\* millisecond of a row under broadcast, is never dropped: once the streamer has
\* read the time, and as long as the process lives, every step leaves the row
\* pending or broadcasts it (events.go:243-286).  The rows left out are dropped
\* when they commit too late for the query; what a restart loses is not bounded.
NeverDropsPending ==
    [][spc \notin {"down", "starting"} /\ spc' # "down" =>
        \A e \in log : Pending(e) => Pending(e)' \/ e \in Broadcast']_vars

-----------------------------------------------------------------------------
(***************************************************************************)
(* Refinement and liveness.                                                *)
(***************************************************************************)
\* Each process run broadcasts a subset of the log, each row once and in the
\* order of created_at, as OrderedFeed says.
Feed == INSTANCE OrderedFeed WITH rows <- log, published <- streamed

FeedSpec == Feed!Spec

\* A peer that stalls reads again or goes away, and stops stalling some day.
ReadsInTheEnd(c) == <>[](conn[c] # "stalled")

\* A pending row, as in NeverDropsPending, is broadcast, or the process
\* dies first.  The streamer waits for every peer in turn, so all of them have
\* to read in the end: one that does not stops the stream of all the others
\* (events.go:243-286).
Awaits(id) == spc \notin {"down", "starting"} /\ \E e \in log : e.id = id /\ Pending(e)

PendingIsBroadcast ==
    (\A c \in Clients : ReadsInTheEnd(c)) =>
        \A id \in 1 .. MaxId :
            Awaits(id) ~> ((\E e \in Broadcast : e.id = id) \/ spc = "down")

\* Every subscription is served to its end: replays neither block each other
\* for ever nor keep the mutex on an error, and the replays of one connection
\* do not depend on the peers of others, even when the streamer is stuck in a
\* write to one of them (events.go:115-197).
SubscriptionCompletes ==
    \A r \in Replays :
        ReadsInTheEnd(r[1]) =>
            ((rep[r].pc = "lock") ~> (rep[r].pc \notin {"lock", "query", "history",
                                         "clear", "readId", "gapQuery", "gap"}))

\* A connection whose replays are over receives every row that the next query
\* will find, unless it breaks, subscribes again or the process dies, as long
\* as all peers read in the end (events.go:243-286).
Following(c) ==
    /\ conn[c] \in {"open", "stalled"}
    /\ subscribed[c]
    /\ \A k \in Subs : rep[<<c, k>>].pc \in {"idle", "done", "failed"}

FollowerIsServed ==
    (\A c \in Clients : ReadsInTheEnd(c)) =>
        \A c \in Clients, id \in 1 .. MaxId :
            (Following(c) /\ spc = "wait" /\ Awaits(id)) ~>
                ((\E e \in live[c] : e.id = id) \/ ~Following(c))

=============================================================================
