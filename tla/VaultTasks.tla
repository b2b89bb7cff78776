----------------------------- MODULE VaultTasks -----------------------------
(***************************************************************************)
(* Resharing, signing with and deleting vaults.                            *)
(*                                                                         *)
(* The agent's handlers ReshareVault, SignMessages and DeleteVault         *)
(* (src/api/server.go) run concurrently, each as several calls to Redis,   *)
(* the block storage, the task queue and the database; any call may fail.  *)
(* A client that got no answer, or an error, sends its request again with  *)
(* the same session.  The worker (src/cmd/worker/main.go) takes tasks from *)
(* the queue, runs the vault service and records an event.  The queue is   *)
(* asynq, as the options passed to it configure it: MaxRetry(-1) means no  *)
(* retry, Timeout cancels the context of the task.                         *)
(***************************************************************************)
EXTENDS Integers, FiniteSets

CONSTANTS
    Reshares,       \* executions of ReshareVault
    Signs,          \* executions of SignMessages
    Deletes,        \* executions of DeleteVault
    Sessions,       \* session ids the clients chose
    Vaults,         \* vault backup files: a public key and a plugin id
    SessionOf,      \* the session of a reshare or sign request
    VaultOf,        \* the vault of a request
    MaxCrashes,     \* bound: crashes of the agent, and of the worker
    MaxShutdowns    \* bound: graceful shutdowns of the worker

TaskRequests == Reshares \cup Signs
Requests == TaskRequests \cup Deletes

ASSUME VaultTasksAssumption ==
    /\ Reshares \cap Signs = {} /\ TaskRequests \cap Deletes = {}
    /\ SessionOf \in [TaskRequests -> Sessions]
    /\ VaultOf \in [Requests -> Vaults]
    /\ MaxCrashes \in Nat /\ MaxShutdowns \in Nat

VARIABLES
    pc,             \* where the handler of a request is
    answer,         \* what the client has been told
    session,        \* session[s]: Redis holds the session key
    vault,          \* vault[v]: the backup file exists
    task,           \* task[r]: the task request r enqueued
    wpc,            \* where the worker goroutine of a task is
    events,         \* events[r]: vault_reshared or vault_deleted rows of r
    agentCrashes, workerCrashes, shutdowns,
    effects,        \* history: times the reshare or deletion of r took place
    runs,           \* history: times the task of r was handed to the worker
    overlap,        \* history: pairs of requests of one session that both
                    \* found no key because the other had not set it yet
    keyLost         \* history: sessions whose key was not read, not set or expired

agentVars  == <<pc, answer, session>>
workerVars == <<wpc, runs>>
boundVars  == <<agentCrashes, workerCrashes, shutdowns>>
raceVars   == <<overlap, keyLost>>

vars == <<agentVars, vault, task, workerVars, events, boundVars, effects, raceVars>>

TypeOK ==
    /\ pc \in [Requests -> {"idle", "get", "set", "read", "enqueue", "delete",
                            "record", "done"}]
    /\ answer \in [Requests -> {"none", "ok", "error"}]
    /\ session \in [Sessions -> BOOLEAN]
    /\ vault \in [Vaults -> BOOLEAN]
    /\ task \in [TaskRequests -> {"none", "pending", "active", "completed", "archived"}]
    /\ wpc \in [TaskRequests -> {"idle", "handler", "record", "finish"}]
    /\ events \in [Requests -> Nat]
    /\ agentCrashes \in Nat /\ workerCrashes \in Nat /\ shutdowns \in Nat
    /\ effects \in [Requests -> Nat]
    /\ runs \in [TaskRequests -> Nat]
    /\ overlap \in SUBSET (TaskRequests \X TaskRequests)
    /\ keyLost \in SUBSET Sessions
    /\ \A r \in Signs : wpc[r] # "record"

Init ==
    /\ pc = [r \in Requests |-> "idle"]
    /\ answer = [r \in Requests |-> "none"]
    /\ session = [s \in Sessions |-> FALSE]
    /\ vault \in [Vaults -> BOOLEAN]
    /\ task = [r \in TaskRequests |-> "none"]
    /\ wpc = [r \in TaskRequests |-> "idle"]
    /\ events = [r \in Requests |-> 0]
    /\ agentCrashes = 0 /\ workerCrashes = 0 /\ shutdowns = 0
    /\ effects = [r \in Requests |-> 0]
    /\ runs = [r \in TaskRequests |-> 0]
    /\ overlap = {}
    /\ keyLost = {}

-----------------------------------------------------------------------------
(***************************************************************************)
(* The agent's handlers.                                                   *)
(***************************************************************************)
Goto(r, where) == pc' = [pc EXCEPT ![r] = where] /\ UNCHANGED answer

Answer(r, how) ==
    /\ pc' = [pc EXCEPT ![r] = "done"]
    /\ answer' = [answer EXCEPT ![r] = how]

AgentFrame == UNCHANGED <<workerVars, boundVars>>

\* A valid request reaches its handler.
Arrive(r) ==
    /\ pc[r] = "idle"
    /\ Goto(r, IF r \in Deletes THEN "delete" ELSE "get")
    /\ UNCHANGED <<session, vault, task, events, effects, raceVars>>
    /\ AgentFrame

\* redis.Get found the key: the session is taken to be under way.
SessionKnown(r) ==
    /\ pc[r] = "get"
    /\ session[SessionOf[r]]
    /\ Answer(r, "ok")
    /\ UNCHANGED <<session, vault, task, events, effects, raceVars>>
    /\ AgentFrame

Rivals(r) == {q \in TaskRequests : SessionOf[q] = SessionOf[r] /\ pc[q] = "set"}

\* Faulty variant of SessionNew: the answer of Redis is ignored.
SessionAlwaysNew(r) ==
    /\ pc[r] = "get"
    /\ Goto(r, "set")
    /\ overlap' = overlap \cup ({r} \X Rivals(r))
    /\ UNCHANGED <<session, vault, task, events, effects, keyLost>>
    /\ AgentFrame

\* redis.Get found no key.
SessionNew(r) ==
    /\ pc[r] = "get"
    /\ ~session[SessionOf[r]]
    /\ Goto(r, "set")
    /\ overlap' = overlap \cup ({r} \X Rivals(r))
    /\ UNCHANGED <<session, vault, task, events, effects, keyLost>>
    /\ AgentFrame

\* redis.Get failed: handled like a missing key.
SessionUnread(r) ==
    /\ pc[r] = "get"
    /\ Goto(r, "set")
    /\ keyLost' = keyLost \cup {SessionOf[r]}
    /\ UNCHANGED <<session, vault, task, events, effects, overlap>>
    /\ AgentFrame

AfterSet(r) == IF r \in Signs THEN "read" ELSE "enqueue"

SetSession(r) ==
    /\ pc[r] = "set"
    /\ session' = [session EXCEPT ![SessionOf[r]] = TRUE]
    /\ Goto(r, AfterSet(r))
    /\ UNCHANGED <<vault, task, events, effects, raceVars>>
    /\ AgentFrame

\* redis.Set failed, whether or not the key was set: logged, and the handler
\* goes on.
SessionUnset(r) ==
    /\ pc[r] = "set"
    /\ \E s \in {session[SessionOf[r]], TRUE} :
         session' = [session EXCEPT ![SessionOf[r]] = s]
    /\ Goto(r, AfterSet(r))
    /\ keyLost' = keyLost \cup {SessionOf[r]}
    /\ UNCHANGED <<vault, task, events, effects, overlap>>
    /\ AgentFrame

\* SignMessages reads and decrypts the vault before it enqueues.
ReadVault(r) ==
    /\ pc[r] = "read"
    /\ vault[VaultOf[r]]
    /\ Goto(r, "enqueue")
    /\ UNCHANGED <<session, vault, task, events, effects, raceVars>>
    /\ AgentFrame

ReadVaultFails(r) ==
    /\ pc[r] = "read"
    /\ Answer(r, "error")
    /\ UNCHANGED <<session, vault, task, events, effects, raceVars>>
    /\ AgentFrame

Enqueue(r) ==
    /\ pc[r] = "enqueue"
    /\ task' = [task EXCEPT ![r] = "pending"]
    /\ Answer(r, "ok")
    /\ UNCHANGED <<session, vault, events, effects, raceVars>>
    /\ AgentFrame

\* Faulty variant of EnqueueFails: the error of the queue is not returned.
EnqueueFailsUnnoticed(r) ==
    /\ pc[r] = "enqueue"
    /\ \E t \in {"none", "pending"} : task' = [task EXCEPT ![r] = t]
    /\ Answer(r, "ok")
    /\ UNCHANGED <<session, vault, events, effects, raceVars>>
    /\ AgentFrame

\* Enqueue returns an error, whether or not the task reached the queue.
EnqueueFails(r) ==
    /\ pc[r] = "enqueue"
    /\ \E t \in {"none", "pending"} : task' = [task EXCEPT ![r] = t]
    /\ Answer(r, "error")
    /\ UNCHANGED <<session, vault, events, effects, raceVars>>
    /\ AgentFrame

\* Faulty variant of DeleteFile: the file of another plug-in's vault goes.
DeleteOtherFile(r) ==
    /\ pc[r] = "delete"
    /\ effects' = [effects EXCEPT ![r] = @ + 1]
    /\ Goto(r, "record") \/ Answer(r, "error")
    /\ UNCHANGED <<session, vault, task, events, raceVars>>
    /\ AgentFrame

\* The file may be gone although an error is returned, and the event stored
\* although InsertEvent fails.
DeleteFile(r) ==
    /\ pc[r] = "delete"
    /\ vault' = [vault EXCEPT ![VaultOf[r]] = FALSE]
    /\ effects' = [effects EXCEPT ![r] = @ + 1]
    /\ Goto(r, "record") \/ Answer(r, "error")
    /\ UNCHANGED <<session, task, events, raceVars>>
    /\ AgentFrame

\* Faulty variant of DeleteFileFails: the error is not returned.
RecordAnyway(r) ==
    /\ pc[r] = "delete"
    /\ Goto(r, "record")
    /\ UNCHANGED <<session, vault, task, events, effects, raceVars>>
    /\ AgentFrame

DeleteFileFails(r) ==
    /\ pc[r] = "delete"
    /\ Answer(r, "error")
    /\ UNCHANGED <<session, vault, task, events, effects, raceVars>>
    /\ AgentFrame

RecordDeletion(r) ==
    /\ pc[r] = "record"
    /\ events' = [events EXCEPT ![r] = @ + 1]
    /\ \E how \in {"ok", "error"} : Answer(r, how)
    /\ UNCHANGED <<session, vault, task, effects, raceVars>>
    /\ AgentFrame

\* InsertEvent returns an error: the file is gone all the same.
RecordDeletionFails(r) ==
    /\ pc[r] = "record"
    /\ Answer(r, "error")
    /\ UNCHANGED <<session, vault, task, events, effects, raceVars>>
    /\ AgentFrame

TaskHandlerStep(r) ==
    \/ SessionKnown(r)
    \/ SessionNew(r)
    \/ SessionUnread(r)
    \/ SetSession(r)
    \/ SessionUnset(r)
    \/ ReadVault(r)
    \/ ReadVaultFails(r)
    \/ Enqueue(r)
    \/ EnqueueFails(r)

DeleteHandlerStep(r) ==
    \/ DeleteFile(r)
    \/ DeleteFileFails(r)
    \/ RecordDeletion(r)
    \/ RecordDeletionFails(r)

\* The agent dies: its handlers answer nothing; Redis keeps the session keys.
AgentCrash ==
    /\ agentCrashes < MaxCrashes
    /\ agentCrashes' = agentCrashes + 1
    /\ pc' = [r \in Requests |-> IF pc[r] = "idle" THEN "idle" ELSE "done"]
    /\ UNCHANGED <<answer, session, vault, task, workerVars, events, workerCrashes,
                   shutdowns, effects, raceVars>>

\* The key's expiry, five minutes for a reshare and thirty for a signature.
SessionExpires(s) ==
    /\ session[s]
    /\ session' = [session EXCEPT ![s] = FALSE]
    /\ keyLost' = keyLost \cup {s}
    /\ UNCHANGED <<pc, answer, vault, task, workerVars, events, boundVars, effects, overlap>>

-----------------------------------------------------------------------------
(***************************************************************************)
(* The worker: one goroutine per task it has taken, running resultWriter.  *)
(***************************************************************************)
WorkerFrame == UNCHANGED <<agentVars, boundVars, raceVars>>

Dequeue(r) ==
    /\ task[r] = "pending"
    /\ wpc[r] = "idle"
    /\ task' = [task EXCEPT ![r] = "active"]
    /\ wpc' = [wpc EXCEPT ![r] = "handler"]
    /\ runs' = [runs EXCEPT ![r] = @ + 1]
    /\ UNCHANGED <<vault, events, effects>>
    /\ WorkerFrame

\* Faulty variant of Settle: the queue is told nothing.
SettleNothing(r, verdict) == UNCHANGED task

\* The queue's verdict on a task, if it still waits for one.
Settle(r, verdict) ==
    task' = IF task[r] = "active" THEN [task EXCEPT ![r] = verdict] ELSE task

\* The vault service reshared: it has stored the new backup.
ReshareSucceeds(r) ==
    /\ r \in Reshares
    /\ wpc[r] = "handler"
    /\ vault' = [vault EXCEPT ![VaultOf[r]] = TRUE]
    /\ effects' = [effects EXCEPT ![r] = @ + 1]
    /\ wpc' = [wpc EXCEPT ![r] = "record"]
    /\ UNCHANGED <<task, events, runs>>
    /\ WorkerFrame

\* Faulty variant of SignSucceeds: signing falls into the reshare case.
SignThenRecord(r) ==
    /\ r \in Signs
    /\ wpc[r] = "handler"
    /\ effects' = [effects EXCEPT ![r] = @ + 1]
    /\ wpc' = [wpc EXCEPT ![r] = "record"]
    /\ UNCHANGED <<vault, task, events, runs>>
    /\ WorkerFrame

\* The vault service signed; the vault it read may be gone by now.
SignSucceeds(r) ==
    /\ r \in Signs
    /\ wpc[r] = "handler"
    /\ effects' = [effects EXCEPT ![r] = @ + 1]
    /\ wpc' = [wpc EXCEPT ![r] = "finish"]
    /\ UNCHANGED <<vault, task, events, runs>>
    /\ WorkerFrame

\* Faulty variant of HandlerFails: the queue retries, as asynq does by default.
RetryTask(r) ==
    /\ wpc[r] = "handler"
    /\ Settle(r, "pending")
    /\ wpc' = [wpc EXCEPT ![r] = "idle"]
    /\ UNCHANGED <<vault, events, effects, runs>>
    /\ WorkerFrame

\* Faulty variant of HandlerFails: the error of the service is swallowed.
FinishAnyway(r) ==
    /\ wpc[r] = "handler"
    /\ wpc' = [wpc EXCEPT ![r] = "finish"]
    /\ UNCHANGED <<vault, task, events, effects, runs>>
    /\ WorkerFrame

\* The handler returns an error: with no retry left the task is archived.
HandlerFails(r) ==
    /\ wpc[r] = "handler"
    /\ Settle(r, "archived")
    /\ wpc' = [wpc EXCEPT ![r] = "idle"]
    /\ UNCHANGED <<vault, events, effects, runs>>
    /\ WorkerFrame

\* InsertEvent runs under the task's context: it fails once that is cancelled.
RecordReshare(r) ==
    /\ wpc[r] = "record"
    /\ task[r] = "active"
    /\ events' = [events EXCEPT ![r] = @ + 1]
    /\ wpc' = [wpc EXCEPT ![r] = "finish"]
    /\ UNCHANGED <<vault, task, effects, runs>>
    /\ WorkerFrame

\* A failure to insert is printed and the task succeeds.
RecordReshareFails(r) ==
    /\ wpc[r] = "record"
    /\ wpc' = [wpc EXCEPT ![r] = "finish"]
    /\ UNCHANGED <<vault, task, events, effects, runs>>
    /\ WorkerFrame

Finish(r) ==
    /\ wpc[r] = "finish"
    /\ Settle(r, "completed")
    /\ wpc' = [wpc EXCEPT ![r] = "idle"]
    /\ UNCHANGED <<vault, events, effects, runs>>
    /\ WorkerFrame

\* The task's Timeout: the queue gives it up, its goroutine runs on.
TaskTimeout(r) ==
    /\ task[r] = "active"
    /\ wpc[r] # "idle"
    /\ Settle(r, "archived")
    /\ UNCHANGED <<vault, workerVars, events, effects>>
    /\ WorkerFrame

\* Faulty variant of Recover: the task of a dead worker is queued again.
RequeueOrphan(r) ==
    /\ task[r] = "active"
    /\ wpc[r] = "idle"
    /\ Settle(r, "pending")
    /\ UNCHANGED <<vault, workerVars, events, effects>>
    /\ WorkerFrame

\* The lease of a task whose worker died runs out; no retry is left.
Recover(r) ==
    /\ task[r] = "active"
    /\ wpc[r] = "idle"
    /\ Settle(r, "archived")
    /\ UNCHANGED <<vault, workerVars, events, effects>>
    /\ WorkerFrame

WorkerStep(r) ==
    \/ Dequeue(r)
    \/ ReshareSucceeds(r)
    \/ SignSucceeds(r)
    \/ HandlerFails(r)
    \/ RecordReshare(r)
    \/ RecordReshareFails(r)
    \/ Finish(r)
    \/ Recover(r)

WorkerCrash ==
    /\ workerCrashes < MaxCrashes
    /\ workerCrashes' = workerCrashes + 1
    /\ wpc' = [r \in TaskRequests |-> "idle"]
    /\ UNCHANGED <<agentVars, vault, task, runs, events, agentCrashes, shutdowns,
                   effects, raceVars>>

\* A graceful shutdown puts the tasks still running back into the queue.
Shutdown ==
    /\ shutdowns < MaxShutdowns
    /\ shutdowns' = shutdowns + 1
    /\ task' = [r \in TaskRequests |->
                  IF task[r] = "active" /\ wpc[r] # "idle" THEN "pending" ELSE task[r]]
    /\ wpc' = [r \in TaskRequests |-> "idle"]
    /\ UNCHANGED <<agentVars, vault, runs, events, agentCrashes, workerCrashes,
                   effects, raceVars>>

-----------------------------------------------------------------------------
\* Every request is answered or dead and the queue is empty.
Finished ==
    /\ \A r \in Requests : pc[r] = "done"
    /\ \A r \in TaskRequests : task[r] \notin {"pending", "active"} /\ wpc[r] = "idle"
    /\ UNCHANGED vars

Next ==
    \/ \E r \in Requests : Arrive(r)
    \/ \E r \in TaskRequests : TaskHandlerStep(r) \/ WorkerStep(r) \/ TaskTimeout(r)
    \/ \E r \in Deletes : DeleteHandlerStep(r)
    \/ \E s \in Sessions : SessionExpires(s)
    \/ AgentCrash
    \/ WorkerCrash
    \/ Shutdown
    \/ Finished

Spec == Init /\ [][Next]_vars

(***************************************************************************)
(* Handlers run to their end, and the worker, restarted when it stops,     *)
(* takes tasks, runs them and collects expired leases.                     *)
(***************************************************************************)
Fairness ==
    /\ \A r \in TaskRequests : WF_vars(TaskHandlerStep(r)) /\ WF_vars(WorkerStep(r))
    /\ \A r \in Deletes : WF_vars(DeleteHandlerStep(r))

FairSpec == Spec /\ Fairness

-----------------------------------------------------------------------------
\* An event never announces what did not happen: there are at most as many
\* vault_reshared (vault_deleted) rows of a request as its reshare (deletion)
\* took place, through crashes, timeouts and requeues (main.go:85-108,
\* server.go:296-310).
EventsAreTrue == \A r \in Requests : events[r] <= effects[r]

\* A task runs again only after a graceful shutdown: MaxRetry(-1) makes a
\* failure, a timeout and a lost worker final (server.go:160-164, 248-253).
BoundedRuns == \A r \in TaskRequests : runs[r] <= 1 + shutdowns

\* What makes these inductive: a row is written only after an effect not yet
\* recorded, a goroutine that finishes has had its effect and one that runs the
\* service has not, and a task that waits in the queue has no goroutine and one
\* run less than it may have.
BookkeepingInv ==
    /\ \A r \in Requests : events[r] <= effects[r]
    /\ \A r \in Deletes : pc[r] = "record" => events[r] < effects[r]
    /\ \A r \in TaskRequests :
         /\ wpc[r] = "record" => events[r] < effects[r]
         /\ wpc[r] = "finish" \/ task[r] = "completed" => effects[r] > 0
         /\ wpc[r] = "handler" => effects[r] < runs[r]
         /\ effects[r] <= runs[r]
         /\ pc[r] # "done" => task[r] = "none"
         /\ task[r] = "none" => runs[r] = 0
         /\ task[r] \in {"none", "pending"} => wpc[r] = "idle"
         /\ task[r] = "pending" => runs[r] <= shutdowns
         /\ runs[r] <= 1 + shutdowns

\* What the queue calls completed was carried out (main.go:85-88, 111).
CompletedWasDone == \A r \in TaskRequests : task[r] = "completed" => effects[r] > 0

\* Why two requests of one session may both have passed its check: they read the
\* key before either set it, or Redis failed or lost the key.
HaveCause(q, r) ==
    SessionOf[r] \in keyLost \/ <<q, r>> \in overlap \/ <<r, q>> \in overlap

\* Two tasks of one session have a cause outside the session check
\* (server.go:152-159, 221-228).
DuplicateHasCause ==
    \A q, r \in TaskRequests :
        (q # r /\ SessionOf[q] = SessionOf[r] /\ task[q] # "none" /\ task[r] # "none") =>
            HaveCause(q, r)

\* A session takes effect once: whatever is retried, timed out or killed, its key
\* shares are reshared, or its message signed, by one of its requests only and not
\* again, unless the session check failed for a cause or a shutdown requeued the
\* task (server.go:152-164, 221-253, main.go:83-113).
OncePerSession ==
    \A q, r \in TaskRequests :
        (SessionOf[q] = SessionOf[r] /\ effects[q] > 0 /\ effects[r] > 0) =>
            HaveCause(q, r) \/ (q = r /\ effects[r] <= 1 + shutdowns)

\* A request that is past the session check and on its way to the queue, that has a
\* task, or that failed or died, wherever it was.
Accounted(q) ==
    \/ pc[q] \in {"read", "enqueue"}
    \/ task[q] # "none"
    \/ pc[q] = "done" /\ answer[q] # "ok"

\* What remains of OkMeansQueued: a request is answered with success although
\* nothing is or will be queued only if another one of its session failed or died
\* (server.go:152-167, 221-256).
OkHasTaskOrFailure ==
    \A r \in TaskRequests : answer[r] = "ok" =>
        \E q \in TaskRequests : SessionOf[q] = SessionOf[r] /\ Accounted(q)

\* A queued task does not stay undecided: it is completed or archived, whatever
\* crashes, although a task whose goroutine died is only collected by its lease.
TaskSettles ==
    \A r \in TaskRequests :
        (task[r] = "pending") ~> (task[r] \in {"completed", "archived"})

\* The documented purpose of the handler (server.go:139): a reshare request
\* answered with success has put a reshare of its session into the queue.
OkMeansQueued ==
    \A r \in Reshares :
        answer[r] = "ok" =>
            \E q \in Reshares : SessionOf[q] = SessionOf[r]
                                /\ (task[q] # "none" \/ pc[q] \in {"set", "enqueue"})

=============================================================================
