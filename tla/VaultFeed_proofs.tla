--------------------------- MODULE VaultFeed_proofs ---------------------------
(***************************************************************************)
(* Theorems about VaultFeed, for any requests, sessions and vaults and any *)
(* number of crashes and shutdowns.                                        *)
(***************************************************************************)
EXTENDS VaultFeed, VaultTasks_proofs

\* The observer watches the behaviours of VaultTasks: it forbids none of its
\* variables anything, and every theorem about them holds here.
THEOREM FeedWatches == FeedSpec => Spec
<1>1. FeedInit => Init
  BY DEF FeedInit
<1>2. [FeedNext]_<<vars, feedVars>> => [Next]_vars
  BY DEF FeedNext
<1> QED
  BY <1>1, <1>2, PTL DEF FeedSpec, Spec

\* The last event is of the vault itself and says how its file is.
Tells(v) ==
    lastEvent[v] \in Writers /\ VaultOf[lastEvent[v]] = v =>
        (vault[v] <=> lastEvent[v] \in Reshares)

\* A reshare is only ever taken for what it is.  As long as nothing of a vault is
\* doubtful, at most one request has an event of it to record, and the file is as
\* that event, or else the last one if it is the vault's own, says.
FeedInv ==
    \A v \in Vaults :
        /\ lastEvent[v] \in Reshares => VaultOf[lastEvent[v]] = v
        /\ ~doubtful[v] =>
              /\ \A q, r \in Unrecorded(v) : q = r
              /\ \A r \in Unrecorded(v) : vault[v] <=> r \in Reshares
              /\ Unrecorded(v) = {} => Tells(v)

\* What a step can be for the files and the events: it does nothing to them,
\* it is a file operation of one request, or it records the event of one.
Quiet ==
    /\ UNCHANGED vault
    /\ \A r \in Writers : ~Happens(r) /\ ~Recorded(r)
    /\ \A r \in Writers : AboutToRecord(r)' => AboutToRecord(r)

FileStep(r) ==
    /\ vault'[VaultOf[r]] <=> r \in Reshares
    /\ \A w \in Vaults \ {VaultOf[r]} : vault'[w] = vault[w]
    /\ Happens(r) /\ ~Recorded(r) /\ ~AboutToRecord(r)
    /\ \A q \in Writers \ {r} :
          /\ ~Happens(q) /\ ~Recorded(q)
          /\ AboutToRecord(q)' <=> AboutToRecord(q)

RecordStep(r) ==
    /\ UNCHANGED vault
    /\ ~Happens(r) /\ Recorded(r) /\ AboutToRecord(r) /\ ~AboutToRecord(r)'
    /\ \A q \in Writers \ {r} :
          /\ ~Happens(q) /\ ~Recorded(q)
          /\ AboutToRecord(q)' <=> AboutToRecord(q)

\* Every step of the handlers and of the worker is one of the three
\* (server.go:284-313, main.go:85-108).
LEMMA StepShape ==
    ASSUME TypeOK, [Next]_vars
    PROVE  Quiet \/ \E r \in Writers : FileStep(r) \/ RecordStep(r)
<1> USE VaultTasksAssumption DEF TypeOK, Requests, TaskRequests, Writers
<1>1. ASSUME UNCHANGED <<vault, events, effects>>,
             \A r \in Deletes : pc'[r] = "record" => pc[r] = "record",
             \A r \in Reshares : wpc'[r] = "record" => wpc[r] = "record"
      PROVE  Quiet
  BY <1>1 DEF Quiet, Happens, Recorded, AboutToRecord
<1>2. CASE UNCHANGED vars \/ Finished
  BY <1>1, <1>2 DEF vars, agentVars, workerVars, Finished
<1>3. ASSUME NEW r \in Requests, Arrive(r) PROVE Quiet
  BY <1>1, <1>3 DEF Arrive, Goto, AgentFrame, workerVars
<1>4. ASSUME NEW r \in TaskRequests, TaskHandlerStep(r) PROVE Quiet
  BY <1>1, <1>4 DEF TaskHandlerStep, SessionKnown, SessionNew, SessionUnread, SetSession,
     SessionUnset, ReadVault, ReadVaultFails, Enqueue, EnqueueFails, Goto, Answer, AfterSet,
     AgentFrame, workerVars
<1>5. ASSUME NEW r \in Deletes, DeleteHandlerStep(r)
      PROVE  Quiet \/ FileStep(r) \/ RecordStep(r)
  <2>1. CASE DeleteFile(r)
    <3>1. ~vault'[VaultOf[r]] /\ \A w \in Vaults \ {VaultOf[r]} : vault'[w] = vault[w]
      BY <2>1 DEF DeleteFile
    <3>2. /\ effects'[r] = effects[r] + 1 /\ effects[r] \in Nat
          /\ \A q \in Writers \ {r} : effects'[q] = effects[q]
      BY <2>1 DEF DeleteFile
    <3>3. /\ pc[r] = "delete" /\ UNCHANGED <<wpc, events>>
          /\ \A q \in Writers \ {r} : pc'[q] = pc[q]
      BY <2>1 DEF DeleteFile, Goto, Answer, AgentFrame, workerVars
    <3> QED
      BY <3>1, <3>2, <3>3 DEF FileStep, Happens, Recorded, AboutToRecord
  <2>2. CASE DeleteFileFails(r) \/ RecordDeletionFails(r)
    BY <1>1, <2>2 DEF DeleteFileFails, RecordDeletionFails, Answer, AgentFrame, workerVars
  <2>3. CASE RecordDeletion(r)
    BY <2>3 DEF RecordDeletion, RecordStep, Happens, Recorded, AboutToRecord, Answer,
       AgentFrame, workerVars
  <2> QED
    BY <1>5, <2>1, <2>2, <2>3 DEF DeleteHandlerStep
<1>6. ASSUME NEW r \in TaskRequests, WorkerStep(r) \/ TaskTimeout(r)
      PROVE  Quiet \/ (r \in Reshares /\ (FileStep(r) \/ RecordStep(r)))
  <2> USE DEF WorkerFrame, agentVars
  <2>1. CASE ReshareSucceeds(r)
    <3>1. vault'[VaultOf[r]] /\ \A w \in Vaults \ {VaultOf[r]} : vault'[w] = vault[w]
      BY <2>1 DEF ReshareSucceeds
    <3>2. /\ effects'[r] = effects[r] + 1 /\ effects[r] \in Nat
          /\ \A q \in Writers \ {r} : effects'[q] = effects[q]
      BY <2>1 DEF ReshareSucceeds
    <3>3. /\ r \in Reshares /\ wpc[r] = "handler" /\ UNCHANGED <<pc, events>>
          /\ \A q \in Reshares \ {r} : wpc'[q] = wpc[q]
      BY <2>1 DEF ReshareSucceeds
    <3> QED
      BY <3>1, <3>2, <3>3 DEF FileStep, Happens, Recorded, AboutToRecord
  <2>2. CASE SignSucceeds(r)
    BY <2>2 DEF SignSucceeds, Quiet, Happens, Recorded, AboutToRecord
  <2>3. CASE RecordReshare(r)
    BY <2>3 DEF RecordReshare, RecordStep, Happens, Recorded, AboutToRecord
  <2>4. CASE \/ Dequeue(r) \/ HandlerFails(r) \/ RecordReshareFails(r) \/ Finish(r)
             \/ Recover(r) \/ TaskTimeout(r)
    BY <1>1, <2>4 DEF Dequeue, HandlerFails, RecordReshareFails, Finish, Recover,
       TaskTimeout, workerVars
  <2> QED
    BY <1>6, <2>1, <2>2, <2>3, <2>4 DEF WorkerStep
<1>7. ASSUME NEW s \in Sessions, SessionExpires(s) PROVE Quiet
  BY <1>1, <1>7 DEF SessionExpires, workerVars
<1>8. CASE AgentCrash \/ WorkerCrash \/ Shutdown
  BY <1>1, <1>8 DEF AgentCrash, WorkerCrash, Shutdown, agentVars, workerVars
<1> QED
  BY <1>2, <1>3, <1>4, <1>5, <1>6, <1>7, <1>8 DEF Next

-----------------------------------------------------------------------------
\* What is taken for a reshare of a vault is one.
LEMMA ReshareIsItself ==
    ASSUME FeedInv, Observe
    PROVE  \A v \in Vaults : lastEvent'[v] \in Reshares => VaultOf[lastEvent'[v]] = v
<1> SUFFICES ASSUME NEW v \in Vaults, lastEvent'[v] \in Reshares
             PROVE  VaultOf[lastEvent'[v]] = v
  OBVIOUS
<1>1. CASE \E r \in Writers : v \in About(r) /\ Recorded(r)
  <2>1. v \in About(lastEvent'[v])
    BY <1>1 DEF Observe
  <2> QED
    BY <2>1, VaultTasksAssumption DEF About, TaskRequests
<1>2. CASE ~\E r \in Writers : v \in About(r) /\ Recorded(r)
  BY <1>2 DEF Observe, FeedInv
<1> QED
  BY <1>1, <1>2

\* A step that changes neither file nor table either changes nothing that
\* matters here or loses an event, which makes its vault doubtful.
LEMMA QuietKeeps ==
    ASSUME FeedTypeOK, FeedInv, Quiet, Observe
    PROVE  FeedInv'
<1>0. \A v \in Vaults : lastEvent'[v] \in Reshares => VaultOf[lastEvent'[v]] = v
  BY ReshareIsItself
<1> SUFFICES ASSUME NEW v \in Vaults, ~doubtful'[v]
             PROVE  /\ \A q, r \in Unrecorded(v)' : q = r
                    /\ \A r \in Unrecorded(v)' : vault'[v] <=> r \in Reshares
                    /\ Unrecorded(v)' = {} => Tells(v)'
  BY <1>0 DEF FeedInv
<1>1. lastEvent'[v] = lastEvent[v]
  BY DEF Observe, Quiet
<1>2. ~doubtful[v] /\ \A r \in Writers : VaultOf[r] = v => ~Lost(r)
  BY DEF Observe, Quiet
<1>3. Unrecorded(v)' = Unrecorded(v)
  BY <1>2 DEF Unrecorded, Lost, Quiet
<1> QED
  BY <1>1, <1>2, <1>3 DEF FeedInv, Tells, Quiet

\* A file operation makes its vault doubtful, unless no event of it waits to be
\* recorded: then the operation's own event does.
LEMMA FileStepKeeps ==
    ASSUME TypeOK, FeedTypeOK, FeedInv, NEW r \in Writers, FileStep(r), Observe
    PROVE  FeedInv'
<1>0. \A v \in Vaults : lastEvent'[v] \in Reshares => VaultOf[lastEvent'[v]] = v
  BY ReshareIsItself
<1> SUFFICES ASSUME NEW v \in Vaults, ~doubtful'[v]
             PROVE  /\ \A p, q \in Unrecorded(v)' : p = q
                    /\ \A q \in Unrecorded(v)' : vault'[v] <=> q \in Reshares
                    /\ Unrecorded(v)' = {} => Tells(v)'
  BY <1>0 DEF FeedInv
<1>1. lastEvent'[v] = lastEvent[v]
  BY DEF Observe, FileStep
<1>2. CASE VaultOf[r] = v
  <2>1. Unrecorded(v) = {} /\ ~Lost(r)
    BY <1>2 DEF Observe, FileStep
  <2>2. Unrecorded(v)' = {r}
    BY <1>2, <2>1 DEF Unrecorded, Lost, FileStep
  <2> QED
    BY <1>2, <2>2 DEF FileStep
<1>3. CASE VaultOf[r] # v
  <2>1. vault'[v] = vault[v]
    BY <1>3 DEF FileStep
  <2>2. ~doubtful[v]
    BY <1>3 DEF Observe, FileStep
  <2>3. Unrecorded(v)' = Unrecorded(v)
    BY <1>3 DEF Unrecorded, FileStep
  <2> QED
    BY <1>1, <2>1, <2>2, <2>3 DEF FeedInv, Tells
<1> QED
  BY <1>2, <1>3

\* An event is recorded when it is the only one that waits, and it says of the
\* file what its operation made of it.
LEMMA RecordStepKeeps ==
    ASSUME TypeOK, FeedTypeOK, FeedInv, NEW r \in Writers, RecordStep(r), Observe
    PROVE  FeedInv'
<1>0. \A v \in Vaults : lastEvent'[v] \in Reshares => VaultOf[lastEvent'[v]] = v
  BY ReshareIsItself
<1> SUFFICES ASSUME NEW v \in Vaults, ~doubtful'[v]
             PROVE  /\ \A p, q \in Unrecorded(v)' : p = q
                    /\ \A q \in Unrecorded(v)' : vault'[v] <=> q \in Reshares
                    /\ Unrecorded(v)' = {} => Tells(v)'
  BY <1>0 DEF FeedInv
<1>1. ~doubtful[v] /\ vault'[v] = vault[v]
  BY DEF Observe, RecordStep
<1>2. CASE VaultOf[r] = v
  <2>1. r \in Unrecorded(v) /\ \A q \in Unrecorded(v) : q = r
    BY <1>1, <1>2 DEF FeedInv, Unrecorded, RecordStep
  <2>2. Unrecorded(v)' = {}
    BY <2>1 DEF Unrecorded, RecordStep
  <2>3. \A q \in Writers : Recorded(q) <=> q = r
    BY DEF RecordStep
  <2>4. lastEvent'[v] = r
    BY <1>2, <2>3 DEF Observe, About
  <2>5. vault[v] <=> r \in Reshares
    BY <1>1, <2>1 DEF FeedInv
  <2> QED
    BY <1>1, <2>2, <2>4, <2>5 DEF Tells
<1>3. CASE VaultOf[r] # v
  <2>1. lastEvent'[v] = lastEvent[v] \/ lastEvent'[v] = r
    BY DEF Observe, RecordStep
  <2>2. Unrecorded(v)' = Unrecorded(v)
    BY <1>3 DEF Unrecorded, RecordStep
  <2> QED
    BY <1>1, <1>3, <2>1, <2>2 DEF FeedInv, Tells
<1> QED
  BY <1>2, <1>3

\* The last event of a vault tells whether its file exists, but for a deletion of
\* another vault of its key, unless an event was lost or two requests interleaved
\* (server.go:284-313, main.go:85-108).
THEOREM LastEventIsRight == FeedSpec => []LastEventTellsFile
<1>1. FeedInit => FeedTypeOK /\ FeedInv
  BY VaultTasksAssumption, VaultFeedAssumption
     DEF FeedInit, Init, FeedTypeOK, FeedInv, Tells, Unrecorded, AboutToRecord, Writers,
         Requests, TaskRequests
<1>2. FeedTypeOK /\ [FeedNext]_<<vars, feedVars>> => FeedTypeOK'
  BY DEF FeedTypeOK, FeedNext, Observe, feedVars
<1>3. TypeOK /\ FeedTypeOK /\ FeedInv /\ [FeedNext]_<<vars, feedVars>> => FeedInv'
  <2>1. TypeOK /\ FeedTypeOK /\ FeedInv /\ FeedNext => FeedInv'
    BY StepShape, QuietKeeps, FileStepKeeps, RecordStepKeeps DEF FeedNext
  <2>2. FeedInv /\ UNCHANGED <<vars, feedVars>> => FeedInv'
    BY DEF FeedInv, Tells, Unrecorded, AboutToRecord, vars, agentVars, workerVars, feedVars
  <2> QED
    BY <2>1, <2>2
<1>4. FeedInv => LastEventTellsFile
  BY VaultTasksAssumption DEF FeedInv, Tells, LastEventTellsFile, Writers, TaskRequests
<1> QED
  BY <1>1, <1>2, <1>3, <1>4, TypeCorrect, FeedWatches, PTL DEF FeedSpec

=============================================================================
