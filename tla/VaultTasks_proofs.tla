-------------------------- MODULE VaultTasks_proofs --------------------------
(***************************************************************************)
(* Theorems about VaultTasks, for any requests, sessions and vaults and    *)
(* any number of crashes and shutdowns.                                    *)
(***************************************************************************)
EXTENDS VaultTasks, TLAPS

-----------------------------------------------------------------------------
(***************************************************************************)
(* Type correctness.                                                       *)
(***************************************************************************)
\* The handlers of the agent preserve the types (server.go:140-313).
LEMMA TypeAgent ==
    ASSUME TypeOK,
           \/ \E r \in Requests : Arrive(r)
           \/ \E r \in TaskRequests : TaskHandlerStep(r)
           \/ \E r \in Deletes : DeleteHandlerStep(r)
    PROVE  TypeOK'
<1> USE VaultTasksAssumption
    DEF TypeOK, AgentFrame, workerVars, boundVars, raceVars, Goto, Answer, AfterSet,
        Requests, TaskRequests
<1>1. ASSUME NEW r \in Requests, Arrive(r) PROVE TypeOK'
  BY <1>1 DEF Arrive
<1>2. ASSUME NEW r \in TaskRequests, SessionKnown(r) PROVE TypeOK'
  BY <1>2 DEF SessionKnown
<1>3. ASSUME NEW r \in TaskRequests, SessionNew(r) PROVE TypeOK'
  BY <1>3 DEF SessionNew, Rivals
<1>4. ASSUME NEW r \in TaskRequests, SessionUnread(r) PROVE TypeOK'
  BY <1>4 DEF SessionUnread
<1>5. ASSUME NEW r \in TaskRequests, SetSession(r) PROVE TypeOK'
  BY <1>5 DEF SetSession
<1>6. ASSUME NEW r \in TaskRequests, SessionUnset(r) PROVE TypeOK'
  <2>1. session' \in [Sessions -> BOOLEAN]
    <3>1. PICK s \in {session[SessionOf[r]], TRUE} :
            session' = [session EXCEPT ![SessionOf[r]] = s]
      BY <1>6 DEF SessionUnset
    <3>2. s \in BOOLEAN
      OBVIOUS
    <3> QED
      BY <3>1, <3>2
  <2>2. keyLost' \in SUBSET Sessions
    BY <1>6 DEF SessionUnset
  <2> QED
    BY <1>6, <2>1, <2>2 DEF SessionUnset
<1>7. ASSUME NEW r \in TaskRequests, ReadVault(r) \/ ReadVaultFails(r) PROVE TypeOK'
  BY <1>7 DEF ReadVault, ReadVaultFails
<1>8. ASSUME NEW r \in TaskRequests, Enqueue(r) PROVE TypeOK'
  BY <1>8 DEF Enqueue
<1>9. ASSUME NEW r \in TaskRequests, EnqueueFails(r) PROVE TypeOK'
  BY <1>9 DEF EnqueueFails
<1>10. ASSUME NEW r \in Deletes, DeleteFile(r) PROVE TypeOK'
  BY <1>10 DEF DeleteFile
<1>11. ASSUME NEW r \in Deletes, DeleteFileFails(r) \/ RecordDeletionFails(r) PROVE TypeOK'
  BY <1>11 DEF DeleteFileFails, RecordDeletionFails
<1>12. ASSUME NEW r \in Deletes, RecordDeletion(r) PROVE TypeOK'
  BY <1>12 DEF RecordDeletion
<1>13. QED
  BY <1>1, <1>2, <1>3, <1>4, <1>5, <1>6, <1>7, <1>8, <1>9, <1>10, <1>11, <1>12
     DEF TaskHandlerStep, DeleteHandlerStep

\* The queue and the worker preserve the types (main.go:83-113).
LEMMA TypeWorker ==
    ASSUME TypeOK, NEW r \in TaskRequests, WorkerStep(r) \/ TaskTimeout(r)
    PROVE  TypeOK'
<1> USE VaultTasksAssumption
    DEF TypeOK, WorkerFrame, agentVars, workerVars, boundVars, raceVars, Settle,
        Requests, TaskRequests
<1>1. CASE Dequeue(r)
  BY <1>1 DEF Dequeue
<1>2. CASE ReshareSucceeds(r)
  BY <1>2 DEF ReshareSucceeds
<1>3. CASE SignSucceeds(r)
  BY <1>3 DEF SignSucceeds
<1>4. CASE HandlerFails(r)
  BY <1>4 DEF HandlerFails
<1>5. CASE RecordReshare(r)
  BY <1>5 DEF RecordReshare
<1>6. CASE RecordReshareFails(r)
  BY <1>6 DEF RecordReshareFails
<1>7. CASE Finish(r)
  BY <1>7 DEF Finish
<1>8. CASE Recover(r) \/ TaskTimeout(r)
  BY <1>8 DEF Recover, TaskTimeout
<1>9. QED
  BY <1>1, <1>2, <1>3, <1>4, <1>5, <1>6, <1>7, <1>8 DEF WorkerStep

\* The state of the agent, the queue and the worker is well typed, and no
\* goroutine of a signature task records an event.
THEOREM TypeCorrect == Spec => []TypeOK
<1>1. Init => TypeOK
  BY VaultTasksAssumption DEF Init, TypeOK, Requests, TaskRequests
<1>2. TypeOK /\ [Next]_vars => TypeOK'
  <2> SUFFICES ASSUME TypeOK, [Next]_vars PROVE TypeOK'
    OBVIOUS
  <2>1. CASE UNCHANGED vars \/ Finished
    BY <2>1 DEF TypeOK, Finished, vars, agentVars, workerVars, boundVars, raceVars
  <2>2. ASSUME NEW s \in Sessions, SessionExpires(s) PROVE TypeOK'
    BY <2>2 DEF TypeOK, SessionExpires, workerVars, boundVars
  <2>3. CASE AgentCrash
    BY <2>3 DEF TypeOK, AgentCrash, workerVars, raceVars
  <2>4. CASE WorkerCrash
    BY <2>4 DEF TypeOK, WorkerCrash, agentVars, raceVars, TaskRequests
  <2>5. CASE Shutdown
    BY <2>5 DEF TypeOK, Shutdown, agentVars, raceVars, TaskRequests
  <2>6. QED
    BY <2>1, <2>2, <2>3, <2>4, <2>5, TypeAgent, TypeWorker DEF Next
<1>3. QED
  BY <1>1, <1>2, PTL DEF Spec

-----------------------------------------------------------------------------
(***************************************************************************)
(* Events, completions and runs.                                           *)
(***************************************************************************)
\* The handlers of the agent keep the books.
LEMMA BookkeepingAgent ==
    ASSUME TypeOK, BookkeepingInv,
           \/ \E r \in Requests : Arrive(r)
           \/ \E r \in TaskRequests : TaskHandlerStep(r)
           \/ \E r \in Deletes : DeleteHandlerStep(r)
    PROVE  BookkeepingInv'
<1> USE VaultTasksAssumption
    DEF TypeOK, BookkeepingInv, AgentFrame, workerVars, boundVars, Goto, Answer, AfterSet,
        Requests, TaskRequests
<1>1. ASSUME NEW r \in Requests, Arrive(r) PROVE BookkeepingInv'
  BY <1>1 DEF Arrive
<1>2. ASSUME NEW r \in TaskRequests,
             \/ SessionKnown(r) \/ SessionNew(r) \/ SessionUnread(r) \/ SetSession(r)
             \/ SessionUnset(r) \/ ReadVault(r) \/ ReadVaultFails(r)
      PROVE  BookkeepingInv'
  <2>1. /\ UNCHANGED <<task, wpc, runs, events, effects, shutdowns>>
        /\ pc[r] # "done"
        /\ \E where \in {"set", "read", "enqueue", "done"} : pc' = [pc EXCEPT ![r] = where]
    BY <1>2 DEF SessionKnown, SessionNew, SessionUnread, SetSession, SessionUnset,
                ReadVault, ReadVaultFails
  <2>2. QED
    BY <2>1
<1>3. ASSUME NEW r \in TaskRequests, Enqueue(r) PROVE BookkeepingInv'
  BY <1>3 DEF Enqueue
<1>4. ASSUME NEW r \in TaskRequests, EnqueueFails(r) PROVE BookkeepingInv'
  BY <1>4 DEF EnqueueFails
<1>5. ASSUME NEW r \in Deletes, DeleteFile(r) PROVE BookkeepingInv'
  BY <1>5 DEF DeleteFile
<1>6. ASSUME NEW r \in Deletes, DeleteFileFails(r) \/ RecordDeletionFails(r)
      PROVE  BookkeepingInv'
  BY <1>6 DEF DeleteFileFails, RecordDeletionFails
<1>7. ASSUME NEW r \in Deletes, RecordDeletion(r) PROVE BookkeepingInv'
  BY <1>7 DEF RecordDeletion
<1>8. QED
  BY <1>1, <1>2, <1>3, <1>4, <1>5, <1>6, <1>7 DEF TaskHandlerStep, DeleteHandlerStep

\* The queue and the worker keep the books.
LEMMA BookkeepingWorker ==
    ASSUME TypeOK, BookkeepingInv, NEW r \in TaskRequests, WorkerStep(r) \/ TaskTimeout(r)
    PROVE  BookkeepingInv'
<1> USE VaultTasksAssumption
    DEF TypeOK, BookkeepingInv, WorkerFrame, agentVars, workerVars, boundVars, Settle,
        Requests, TaskRequests
<1>1. CASE Dequeue(r)
  BY <1>1 DEF Dequeue
<1>2. CASE ReshareSucceeds(r)
  BY <1>2 DEF ReshareSucceeds
<1>3. CASE SignSucceeds(r)
  BY <1>3 DEF SignSucceeds
<1>4. CASE HandlerFails(r)
  BY <1>4 DEF HandlerFails
<1>5. CASE RecordReshare(r)
  BY <1>5 DEF RecordReshare
<1>6. CASE RecordReshareFails(r)
  BY <1>6 DEF RecordReshareFails
<1>7. CASE Finish(r)
  BY <1>7 DEF Finish
<1>8. CASE Recover(r) \/ TaskTimeout(r)
  BY <1>8 DEF Recover, TaskTimeout
<1>9. QED
  BY <1>1, <1>2, <1>3, <1>4, <1>5, <1>6, <1>7, <1>8 DEF WorkerStep

\* The books are kept in every reachable state.
THEOREM Bookkeeping == Spec => []BookkeepingInv
<1>1. Init => BookkeepingInv
  BY VaultTasksAssumption DEF Init, BookkeepingInv, Requests, TaskRequests
<1>2. TypeOK /\ BookkeepingInv /\ [Next]_vars => BookkeepingInv'
  <2> SUFFICES ASSUME TypeOK, BookkeepingInv, [Next]_vars PROVE BookkeepingInv'
    OBVIOUS
  <2>1. CASE UNCHANGED vars \/ Finished
    BY <2>1 DEF BookkeepingInv, Finished, vars, agentVars, workerVars, boundVars
  <2>2. ASSUME NEW s \in Sessions, SessionExpires(s) PROVE BookkeepingInv'
    BY <2>2 DEF BookkeepingInv, SessionExpires, workerVars, boundVars
  <2>3. CASE AgentCrash
    BY <2>3 DEF TypeOK, BookkeepingInv, AgentCrash, workerVars, Requests, TaskRequests
  <2>4. CASE WorkerCrash
    BY <2>4 DEF TypeOK, BookkeepingInv, WorkerCrash, agentVars, Requests, TaskRequests
  <2>5. CASE Shutdown
    BY <2>5 DEF TypeOK, BookkeepingInv, Shutdown, agentVars, Requests, TaskRequests
  <2>6. QED
    BY <2>1, <2>2, <2>3, <2>4, <2>5, BookkeepingAgent, BookkeepingWorker DEF Next
<1>3. QED
  BY <1>1, <1>2, TypeCorrect, PTL DEF Spec

\* No event announces a reshare or a deletion that did not take place.
THEOREM EventsNeverLie == Spec => []EventsAreTrue
<1>1. BookkeepingInv => EventsAreTrue
  BY DEF BookkeepingInv, EventsAreTrue
<1>2. QED
  BY <1>1, Bookkeeping, PTL

\* A task runs once, and once more for each graceful shutdown at most.
THEOREM RunsAreBounded == Spec => []BoundedRuns
<1>1. BookkeepingInv => BoundedRuns
  BY DEF BookkeepingInv, BoundedRuns
<1>2. QED
  BY <1>1, Bookkeeping, PTL

\* A completed task had its effect.
THEOREM CompletionIsReal == Spec => []CompletedWasDone
<1>1. BookkeepingInv => CompletedWasDone
  BY DEF BookkeepingInv, CompletedWasDone
<1>2. QED
  BY <1>1, Bookkeeping, PTL

-----------------------------------------------------------------------------
(***************************************************************************)
(* Sessions.                                                               *)
(***************************************************************************)
\* Requests that set the key, or were to, and those that found no key.
KeySet(r) == pc[r] \in {"read", "enqueue"} \/ task[r] # "none"

Entered(r) == pc[r] = "set" \/ KeySet(r)

\* A key once set is there until it is lost, so two requests of a session both
\* enter only if neither had set the key when the other looked.
SessionInv ==
    /\ \A r \in TaskRequests :
         KeySet(r) => session[SessionOf[r]] \/ SessionOf[r] \in keyLost
    /\ \A q, r \in TaskRequests :
         (q # r /\ SessionOf[q] = SessionOf[r] /\ Entered(q) /\ Entered(r)) =>
             \/ SessionOf[r] \in keyLost
             \/ <<q, r>> \in overlap
             \/ <<r, q>> \in overlap

\* Steps that let no request enter and no key go keep the invariant.
LEMMA SessionInvFrame ==
    ASSUME SessionInv,
           \A r \in TaskRequests : (KeySet(r)' => KeySet(r)) /\ (Entered(r)' => Entered(r)),
           keyLost \subseteq keyLost', overlap \subseteq overlap',
           \A s \in Sessions : session[s] => session'[s] \/ s \in keyLost'
    PROVE  SessionInv'
<1>1. \A r \in TaskRequests : SessionOf[r] \in Sessions
  BY VaultTasksAssumption
<1>2. QED
  BY <1>1 DEF SessionInv

\* Every step keeps what is known of the session keys (server.go:152-159,
\* 221-228).
LEMMA SessionInvStep ==
    ASSUME TypeOK, SessionInv, NEW r \in TaskRequests, TaskHandlerStep(r)
    PROVE  SessionInv'
<1>1. SessionOf[r] \in Sessions /\ r \in Requests
      /\ pc \in [Requests -> {"idle", "get", "set", "read", "enqueue", "delete",
                             "record", "done"}]
      /\ task \in [TaskRequests -> {"none", "pending", "active", "completed", "archived"}]
      /\ session \in [Sessions -> BOOLEAN]
      /\ TaskRequests \subseteq Requests
  BY VaultTasksAssumption DEF TypeOK, Requests
<1>2. \A q \in TaskRequests \ {r} : pc'[q] = pc[q] /\ task'[q] = task[q]
  BY <1>1 DEF TaskHandlerStep, SessionKnown, SessionNew, SessionUnread, SetSession,
     SessionUnset, ReadVault, ReadVaultFails, Enqueue, EnqueueFails, Goto, Answer
<1>3. \A q \in TaskRequests \ {r} : (KeySet(q)' <=> KeySet(q)) /\ (Entered(q)' <=> Entered(q))
  BY <1>2 DEF KeySet, Entered
<1>4. CASE SessionKnown(r) \/ ReadVault(r) \/ ReadVaultFails(r) \/ Enqueue(r) \/ EnqueueFails(r)
  <2>1. UNCHANGED <<session, keyLost, overlap>>
    BY <1>4 DEF SessionKnown, ReadVault, ReadVaultFails, Enqueue, EnqueueFails, raceVars
  <2>2. (KeySet(r)' => KeySet(r)) /\ (Entered(r)' => Entered(r))
    BY <1>1, <1>4 DEF SessionKnown, ReadVault, ReadVaultFails, Enqueue, EnqueueFails,
       Goto, Answer, KeySet, Entered
  <2>3. QED
    BY <1>3, <2>1, <2>2, SessionInvFrame
<1>5. CASE SessionNew(r)
  <2>1. /\ ~session[SessionOf[r]] /\ UNCHANGED <<session, keyLost, task>>
        /\ overlap' = overlap \cup ({r} \X Rivals(r)) /\ pc'[r] = "set"
        /\ pc[r] = "get"
    BY <1>1, <1>5 DEF SessionNew, Goto
  <2>2. KeySet(r)' => KeySet(r)
    BY <2>1 DEF KeySet
  <2>3. \A q \in TaskRequests \ {r} :
          (SessionOf[q] = SessionOf[r] /\ Entered(q) /\ SessionOf[r] \notin keyLost) =>
              <<r, q>> \in overlap'
    BY <2>1 DEF SessionInv, Entered, Rivals
  <2>4. QED
    BY <1>3, <2>1, <2>2, <2>3 DEF SessionInv
<1>6. CASE SessionUnread(r)
  <2>1. /\ UNCHANGED <<session, overlap, task>> /\ keyLost' = keyLost \cup {SessionOf[r]}
        /\ pc'[r] = "set" /\ pc[r] = "get"
    BY <1>1, <1>6 DEF SessionUnread, Goto
  <2>2. KeySet(r)' => KeySet(r)
    BY <2>1 DEF KeySet
  <2>3. QED
    BY <1>3, <2>1, <2>2 DEF SessionInv
<1>7. CASE SetSession(r) \/ SessionUnset(r)
  <2>1. /\ UNCHANGED <<overlap, task>> /\ keyLost \subseteq keyLost' /\ pc[r] = "set"
        /\ \A s \in Sessions : session[s] => session'[s]
        /\ session'[SessionOf[r]] \/ SessionOf[r] \in keyLost'
    BY <1>1, <1>7 DEF SetSession, SessionUnset, raceVars
  <2>2. Entered(r)
    BY <2>1 DEF Entered
  <2>3. \A q \in TaskRequests : SessionOf[q] \in Sessions
    BY VaultTasksAssumption
  <2>4. QED
    BY <1>3, <2>1, <2>2, <2>3 DEF SessionInv
<1>8. QED
  BY <1>4, <1>5, <1>6, <1>7 DEF TaskHandlerStep

\* Two tasks of one session exist only after a race between the check and the
\* set of its key, or after the key was unreadable, unset or expired.
THEOREM DuplicatesHaveACause == Spec => []DuplicateHasCause
<1>1. Init => SessionInv
  BY VaultTasksAssumption DEF Init, SessionInv, KeySet, Entered, Requests
<1>2. TypeOK /\ SessionInv /\ [Next]_vars => SessionInv'
  <2> SUFFICES ASSUME TypeOK, SessionInv, [Next]_vars PROVE SessionInv'
    OBVIOUS
  <2>1. CASE UNCHANGED <<session, keyLost, overlap>>
             /\ \A r \in TaskRequests :
                  /\ pc'[r] \in {pc[r], "get", "done"}
                  /\ task'[r] # "none" => task[r] # "none"
    <3>1. \A r \in TaskRequests : (KeySet(r)' => KeySet(r)) /\ (Entered(r)' => Entered(r))
      BY <2>1 DEF KeySet, Entered
    <3>2. QED
      BY <2>1, <3>1, SessionInvFrame
  <2>2. CASE UNCHANGED vars \/ Finished
    <3>1. UNCHANGED <<pc, task, session, keyLost, overlap>>
      BY <2>2 DEF Finished, vars, agentVars, raceVars
    <3>2. QED
      BY <2>1, <3>1
  <2>3. ASSUME NEW r \in Requests, Arrive(r) PROVE SessionInv'
    BY <2>1, <2>3, VaultTasksAssumption DEF Arrive, Goto, raceVars, TypeOK, Requests
  <2>4. ASSUME NEW r \in Deletes, DeleteHandlerStep(r) PROVE SessionInv'
    <3>1. \A q \in TaskRequests : q # r /\ q \in Requests
      BY VaultTasksAssumption DEF Requests
    <3>2. QED
      BY <2>1, <2>4, <3>1
         DEF DeleteHandlerStep, DeleteFile, DeleteFileFails, RecordDeletion,
             RecordDeletionFails, Goto, Answer, raceVars, TypeOK
  <2>5. ASSUME NEW r \in TaskRequests, WorkerStep(r) \/ TaskTimeout(r) PROVE SessionInv'
    BY <2>1, <2>5
       DEF WorkerStep, TaskTimeout, Dequeue, ReshareSucceeds, SignSucceeds, HandlerFails,
           RecordReshare, RecordReshareFails, Finish, Recover, Settle, WorkerFrame,
           agentVars, raceVars, TypeOK
  <2>6. ASSUME NEW s \in Sessions, SessionExpires(s) PROVE SessionInv'
    <3>1. \A r \in TaskRequests : (KeySet(r)' <=> KeySet(r)) /\ (Entered(r)' <=> Entered(r))
      BY <2>6 DEF SessionExpires, KeySet, Entered
    <3>2. \A t \in Sessions : session[t] => session'[t] \/ t \in keyLost'
      BY <2>6 DEF SessionExpires, TypeOK
    <3>3. QED
      BY <2>6, <3>1, <3>2, SessionInvFrame DEF SessionExpires
  <2>7. CASE AgentCrash
    BY <2>1, <2>7 DEF AgentCrash, raceVars, TypeOK, Requests
  <2>8. CASE WorkerCrash
    BY <2>1, <2>8 DEF WorkerCrash, agentVars, raceVars
  <2>9. CASE Shutdown
    BY <2>1, <2>9 DEF Shutdown, agentVars, raceVars
  <2>10. QED
    BY <2>2, <2>3, <2>4, <2>5, <2>6, <2>7, <2>8, <2>9, SessionInvStep DEF Next
<1>3. SessionInv => DuplicateHasCause
  BY DEF SessionInv, DuplicateHasCause, HaveCause, KeySet, Entered
<1>4. QED
  BY <1>1, <1>2, <1>3, TypeCorrect, PTL DEF Spec

\* A session is reshared or signed for once: a second request that takes effect
\* needs a cause, and a second effect of one request a shutdown.
THEOREM SessionTakesEffectOnce == Spec => []OncePerSession
<1>1. TypeOK /\ BookkeepingInv /\ DuplicateHasCause => OncePerSession
  <2> SUFFICES ASSUME TypeOK, BookkeepingInv, DuplicateHasCause,
                      NEW q \in TaskRequests, NEW r \in TaskRequests,
                      SessionOf[q] = SessionOf[r], effects[q] > 0, effects[r] > 0
               PROVE  HaveCause(q, r) \/ (q = r /\ effects[r] <= 1 + shutdowns)
    BY DEF OncePerSession
  <2>1. \A t \in TaskRequests : effects[t] \in Nat /\ runs[t] \in Nat /\ shutdowns \in Nat
    BY DEF TypeOK, Requests
  <2>2. \A t \in TaskRequests : effects[t] > 0 => task[t] # "none"
    BY <2>1 DEF BookkeepingInv
  <2>3. CASE q = r
    BY <2>1, <2>3 DEF BookkeepingInv
  <2>4. CASE q # r
    BY <2>2, <2>4 DEF DuplicateHasCause
  <2>5. QED
    BY <2>3, <2>4
<1>2. QED
  BY <1>1, TypeCorrect, Bookkeeping, DuplicatesHaveACause, PTL

-----------------------------------------------------------------------------
(***************************************************************************)
(* Answers.                                                                *)
(***************************************************************************)
HasAccounted(s) == \E q \in TaskRequests : SessionOf[q] = s /\ Accounted(q)

\* A key stands for a request that queued its task, will, or failed to; a handler
\* that answers finds the key or is that request.
AnswerInv ==
    /\ \A r \in TaskRequests : pc[r] # "done" => answer[r] = "none"
    /\ \A s \in Sessions : session[s] => HasAccounted(s)
    /\ \A r \in TaskRequests : answer[r] = "ok" => HasAccounted(SessionOf[r])

\* Steps that answer no request and set no key keep the invariant if what has been
\* accounted for stays so.
LEMMA AnswerInvFrame ==
    ASSUME AnswerInv,
           \A r \in TaskRequests : pc'[r] # "done" => answer'[r] = "none",
           \A q \in TaskRequests : Accounted(q) => Accounted(q)',
           \A s \in Sessions : session'[s] => session[s] \/ HasAccounted(s)',
           \A r \in TaskRequests :
               answer'[r] = "ok" => answer[r] = "ok" \/ HasAccounted(SessionOf[r])'
    PROVE  AnswerInv'
<1>1. \A s : HasAccounted(s) => HasAccounted(s)'
  BY DEF HasAccounted
<1>2. QED
  BY <1>1 DEF AnswerInv

\* The handlers that enqueue keep the invariant (server.go:140-172, 199-256).
LEMMA AnswerInvStep ==
    ASSUME TypeOK, AnswerInv, NEW r \in TaskRequests, TaskHandlerStep(r)
    PROVE  AnswerInv'
<1>1. SessionOf[r] \in Sessions /\ r \in Requests /\ TaskRequests \subseteq Requests
      /\ DOMAIN pc = Requests /\ DOMAIN answer = Requests /\ DOMAIN task = TaskRequests
      /\ DOMAIN session = Sessions
  BY VaultTasksAssumption DEF TypeOK, Requests
<1>2. \A q \in TaskRequests \ {r} :
        pc'[q] = pc[q] /\ task'[q] = task[q] /\ answer'[q] = answer[q]
  BY <1>1 DEF TaskHandlerStep, SessionKnown, SessionNew, SessionUnread, SetSession,
     SessionUnset, ReadVault, ReadVaultFails, Enqueue, EnqueueFails, Goto, Answer
<1>3. \A q \in TaskRequests \ {r} : Accounted(q) <=> Accounted(q)'
  BY <1>2 DEF Accounted
<1>4. \A q \in TaskRequests \ {r} : pc'[q] # "done" => answer'[q] = "none"
  BY <1>2 DEF AnswerInv
<1>5. \A q \in TaskRequests \ {r} : answer'[q] = "ok" => answer[q] = "ok"
  BY <1>2
<1>6. CASE SessionKnown(r)
  <2>1. /\ pc[r] = "get" /\ session[SessionOf[r]] /\ UNCHANGED <<session, task>>
        /\ pc'[r] = "done"
    BY <1>1, <1>6 DEF SessionKnown, Answer
  <2>2. answer[r] = "none"
    BY <2>1 DEF AnswerInv
  <2>3. Accounted(r) => Accounted(r)'
    BY <2>1 DEF Accounted
  <2>4. \A q \in TaskRequests : Accounted(q) => Accounted(q)'
    BY <1>3, <2>3
  <2>5. HasAccounted(SessionOf[r])'
    BY <1>1, <2>1, <2>4 DEF AnswerInv, HasAccounted
  <2>6. QED
    BY <1>4, <1>5, <2>1, <2>4, <2>5, AnswerInvFrame
<1>7. CASE SessionNew(r) \/ SessionUnread(r)
  <2>1. pc[r] = "get" /\ pc'[r] = "set" /\ UNCHANGED <<session, task, answer>>
    BY <1>1, <1>7 DEF SessionNew, SessionUnread, Goto
  <2>2. Accounted(r) => Accounted(r)'
    BY <2>1 DEF Accounted
  <2>3. answer'[r] = "none"
    BY <2>1 DEF AnswerInv
  <2>4. QED
    BY <1>3, <1>4, <1>5, <2>1, <2>2, <2>3, AnswerInvFrame
<1>8. CASE SetSession(r) \/ SessionUnset(r)
  <2>1. /\ pc[r] = "set" /\ pc'[r] \in {"read", "enqueue"} /\ UNCHANGED <<task, answer>>
        /\ \A s \in Sessions \ {SessionOf[r]} : session'[s] = session[s]
    BY <1>1, <1>8 DEF SetSession, SessionUnset, Goto, AfterSet
  <2>2. Accounted(r)'
    BY <2>1 DEF Accounted
  <2>3. answer'[r] = "none" /\ HasAccounted(SessionOf[r])'
    BY <2>1, <2>2 DEF AnswerInv, HasAccounted
  <2>4. QED
    BY <1>3, <1>4, <1>5, <2>1, <2>2, <2>3, AnswerInvFrame
<1>9. CASE ReadVault(r)
  <2>1. pc[r] = "read" /\ pc'[r] = "enqueue" /\ UNCHANGED <<session, task, answer>>
    BY <1>1, <1>9 DEF ReadVault, Goto
  <2>2. Accounted(r)' /\ answer'[r] = "none"
    BY <2>1 DEF Accounted, AnswerInv
  <2>3. QED
    BY <1>3, <1>4, <1>5, <2>1, <2>2, AnswerInvFrame
<1>10. CASE ReadVaultFails(r) \/ EnqueueFails(r)
  <2>1. /\ pc[r] \in {"read", "enqueue"} /\ pc'[r] = "done" /\ answer'[r] = "error"
        /\ UNCHANGED session
    BY <1>1, <1>10 DEF ReadVaultFails, EnqueueFails, Answer
  <2>2. Accounted(r)'
    BY <2>1 DEF Accounted
  <2>3. QED
    BY <1>3, <1>4, <1>5, <2>1, <2>2, AnswerInvFrame
<1>11. CASE Enqueue(r)
  <2>1. /\ pc[r] = "enqueue" /\ pc'[r] = "done" /\ task'[r] = "pending"
        /\ UNCHANGED session
    BY <1>1, <1>11 DEF Enqueue, Answer
  <2>2. Accounted(r)' /\ HasAccounted(SessionOf[r])'
    BY <2>1 DEF Accounted, HasAccounted
  <2>3. QED
    BY <1>3, <1>4, <1>5, <2>1, <2>2, AnswerInvFrame
<1>12. QED
  BY <1>6, <1>7, <1>8, <1>9, <1>10, <1>11 DEF TaskHandlerStep

\* A request answered with success although nothing was queued has another one of
\* its session to blame, which failed or died before the queue.
THEOREM OkIsAccountedFor == Spec => []OkHasTaskOrFailure
<1>1. Init => AnswerInv
  BY VaultTasksAssumption DEF Init, AnswerInv, Requests
<1>2. TypeOK /\ AnswerInv /\ [Next]_vars => AnswerInv'
  <2> SUFFICES ASSUME TypeOK, AnswerInv, [Next]_vars PROVE AnswerInv'
    OBVIOUS
  <2>0. TaskRequests \subseteq Requests /\ TaskRequests \cap Deletes = {}
    BY VaultTasksAssumption DEF Requests
  <2>1. CASE /\ \A s \in Sessions : session'[s] => session[s]
             /\ \A r \in TaskRequests :
                  /\ answer'[r] = answer[r]
                  /\ \/ pc'[r] = pc[r]
                     \/ pc'[r] = "done"
                     \/ pc[r] = "idle"
                  /\ task[r] # "none" => task'[r] # "none"
    <3>1. \A r \in TaskRequests : Accounted(r) => Accounted(r)'
      BY <2>1 DEF Accounted, AnswerInv
    <3>2. \A r \in TaskRequests : pc'[r] # "done" => answer'[r] = "none"
      BY <2>1 DEF AnswerInv
    <3>3. QED
      BY <2>1, <3>1, <3>2, AnswerInvFrame
  <2>2. CASE UNCHANGED vars \/ Finished
    <3>1. UNCHANGED <<pc, task, session, answer>>
      BY <2>2 DEF Finished, vars, agentVars
    <3>2. QED
      BY <2>1, <3>1
  <2>3. ASSUME NEW r \in Requests, Arrive(r) PROVE AnswerInv'
    BY <2>0, <2>1, <2>3 DEF Arrive, Goto, TypeOK
  <2>4. ASSUME NEW r \in Deletes, DeleteHandlerStep(r) PROVE AnswerInv'
    BY <2>0, <2>1, <2>4
       DEF DeleteHandlerStep, DeleteFile, DeleteFileFails, RecordDeletion,
           RecordDeletionFails, Goto, Answer, TypeOK
  <2>5. ASSUME NEW r \in TaskRequests, WorkerStep(r) \/ TaskTimeout(r) PROVE AnswerInv'
    BY <2>1, <2>5
       DEF WorkerStep, TaskTimeout, Dequeue, ReshareSucceeds, SignSucceeds, HandlerFails,
           RecordReshare, RecordReshareFails, Finish, Recover, Settle, WorkerFrame,
           agentVars, TypeOK
  <2>6. ASSUME NEW s \in Sessions, SessionExpires(s) PROVE AnswerInv'
    BY <2>1, <2>6 DEF SessionExpires, TypeOK
  <2>7. CASE AgentCrash
    BY <2>0, <2>1, <2>7 DEF AgentCrash, workerVars, TypeOK
  <2>8. CASE WorkerCrash
    BY <2>1, <2>8 DEF WorkerCrash, agentVars
  <2>9. CASE Shutdown
    BY <2>1, <2>9 DEF Shutdown, agentVars, TypeOK
  <2>10. QED
    BY <2>2, <2>3, <2>4, <2>5, <2>6, <2>7, <2>8, <2>9, AnswerInvStep DEF Next
<1>3. AnswerInv => OkHasTaskOrFailure
  BY DEF AnswerInv, HasAccounted, OkHasTaskOrFailure
<1>4. QED
  BY <1>1, <1>2, <1>3, TypeCorrect, PTL DEF Spec

-----------------------------------------------------------------------------
(***************************************************************************)
(* Progress.  The hypothesis WorkerServes is the worker's part of Fairness *)
(* with the guard of its steps written out where WF_vars has ENABLED.      *)
(***************************************************************************)
WorkerMayStep(r) == wpc[r] # "idle" \/ task[r] \in {"pending", "active"}

WorkerServes ==
    \A r \in TaskRequests : ([]<>~WorkerMayStep(r)) \/ ([]<><<WorkerStep(r)>>_vars)

Queued(r)    == task[r] = "pending"
Running(r)   == task[r] = "active" /\ wpc[r] = "handler"
Recording(r) == task[r] = "active" /\ wpc[r] = "record"
Ending(r)    == task[r] = "active" /\ wpc[r] = "finish"
Orphaned(r)  == task[r] = "active" /\ wpc[r] = "idle"
Settled(r)   == task[r] \in {"completed", "archived"}

QuietStep == [Next /\ shutdowns' = shutdowns]_vars

\* Without a shutdown a task moves on through its stages, or stays where it is; a
\* step of another request, a crash, a timeout never takes it back.
LEMMA TaskAdvances ==
    ASSUME TypeOK, BookkeepingInv, QuietStep, NEW r \in TaskRequests
    PROVE  /\ Queued(r) => Queued(r)' \/ Running(r)'
           /\ Running(r) =>
                Running(r)' \/ Recording(r)' \/ Ending(r)' \/ Orphaned(r)' \/ Settled(r)'
           /\ Recording(r) => Recording(r)' \/ Ending(r)' \/ Orphaned(r)' \/ Settled(r)'
           /\ Ending(r) => Ending(r)' \/ Orphaned(r)' \/ Settled(r)'
           /\ Orphaned(r) => Orphaned(r)' \/ Settled(r)'
<1> USE DEF Queued, Running, Recording, Ending, Orphaned, Settled
<1>0. r \in Requests /\ TaskRequests \subseteq Requests /\ TaskRequests \cap Deletes = {}
  BY VaultTasksAssumption DEF Requests
<1>1. CASE UNCHANGED <<task, wpc>>
  BY <1>1
<1>2. CASE UNCHANGED vars \/ Finished \/ AgentCrash \/ \E q \in Requests : Arrive(q)
  BY <1>1, <1>2 DEF Finished, vars, AgentCrash, Arrive, AgentFrame, workerVars
<1>3. CASE \E q \in Deletes : DeleteHandlerStep(q)
  BY <1>1, <1>3 DEF DeleteHandlerStep, DeleteFile, DeleteFileFails, RecordDeletion,
                    RecordDeletionFails, AgentFrame, workerVars
<1>4. CASE \E s \in Sessions : SessionExpires(s)
  BY <1>1, <1>4 DEF SessionExpires, workerVars
<1>5. ASSUME NEW q \in TaskRequests, TaskHandlerStep(q) PROVE UNCHANGED <<task[r], wpc[r]>> \/ task[r] = "none"
  BY <1>5 DEF TaskHandlerStep, SessionKnown, SessionNew, SessionUnread, SetSession,
     SessionUnset, ReadVault, ReadVaultFails, Enqueue, EnqueueFails, AgentFrame,
     workerVars, TypeOK, BookkeepingInv
<1>6. ASSUME NEW q \in TaskRequests, q # r, WorkerStep(q) \/ TaskTimeout(q)
      PROVE  UNCHANGED <<task[r], wpc[r]>>
  BY <1>6 DEF WorkerStep, TaskTimeout, Dequeue, ReshareSucceeds, SignSucceeds,
     HandlerFails, RecordReshare, RecordReshareFails, Finish, Recover, Settle, workerVars,
     TypeOK
<1>7. CASE WorkerStep(r) \/ TaskTimeout(r)
  BY <1>7 DEF WorkerStep, TaskTimeout, Dequeue, ReshareSucceeds, SignSucceeds,
     HandlerFails, RecordReshare, RecordReshareFails, Finish, Recover, Settle, workerVars,
     TypeOK, BookkeepingInv
<1>8. CASE WorkerCrash
  BY <1>8 DEF WorkerCrash, TypeOK
<1>9. CASE Shutdown /\ shutdowns' = shutdowns
  BY <1>9 DEF Shutdown, TypeOK
<1>10. QED
  BY <1>2, <1>3, <1>4, <1>5, <1>6, <1>7, <1>8, <1>9 DEF QuietStep, Next

\* A step of the task's worker does take it on.
LEMMA WorkerAdvances ==
    ASSUME TypeOK, BookkeepingInv, NEW r \in TaskRequests, WorkerStep(r)
    PROVE  /\ Queued(r) => Running(r)'
           /\ Running(r) => Recording(r)' \/ Ending(r)' \/ Settled(r)'
           /\ Recording(r) => Ending(r)'
           /\ Ending(r) => Settled(r)'
           /\ Orphaned(r) => Settled(r)'
BY DEF Queued, Running, Recording, Ending, Orphaned, Settled, WorkerStep, Dequeue,
   ReshareSucceeds, SignSucceeds, HandlerFails, RecordReshare, RecordReshareFails, Finish,
   Recover, Settle, TypeOK, BookkeepingInv

\* Only a shutdown counts as one, and it takes no task out of the queue.
LEMMA ShutdownKeepsTasks ==
    ASSUME TypeOK, [Next]_vars, NEW r \in TaskRequests
    PROVE  \/ shutdowns' = shutdowns
           \/ /\ Queued(r) => Queued(r)'
              /\ Running(r) \/ Recording(r) \/ Ending(r) => Queued(r)'
              /\ Orphaned(r) => Orphaned(r)'
<1>1. CASE Shutdown
  BY <1>1 DEF Shutdown, Queued, Running, Recording, Ending, Orphaned, TypeOK
<1>2. CASE UNCHANGED vars \/ Finished \/ AgentCrash \/ WorkerCrash
  BY <1>2 DEF Finished, AgentCrash, WorkerCrash, vars, boundVars
<1>3. CASE \/ \E q \in Requests : Arrive(q)
           \/ \E q \in Deletes : DeleteHandlerStep(q)
           \/ \E s \in Sessions : SessionExpires(s)
  BY <1>3 DEF Arrive, DeleteHandlerStep, DeleteFile, DeleteFileFails, RecordDeletion,
     RecordDeletionFails, SessionExpires, AgentFrame, boundVars
<1>4. CASE \E q \in TaskRequests : TaskHandlerStep(q)
  BY <1>4 DEF TaskHandlerStep, SessionKnown, SessionNew, SessionUnread, SetSession,
     SessionUnset, ReadVault, ReadVaultFails, Enqueue, EnqueueFails, AgentFrame, boundVars
<1>5. CASE \E q \in TaskRequests : WorkerStep(q) \/ TaskTimeout(q)
  BY <1>5 DEF WorkerStep, TaskTimeout, Dequeue, ReshareSucceeds, SignSucceeds,
     HandlerFails, RecordReshare, RecordReshareFails, Finish, Recover, WorkerFrame,
     boundVars
<1>6. QED
  BY <1>1, <1>2, <1>3, <1>4, <1>5 DEF Next

\* A queued task settles if the worker is not shut down for ever again: crashes,
\* timeouts and failures, as many as there may be, do not keep it.
THEOREM TasksSettle ==
    Spec /\ WorkerServes /\ <>[][shutdowns' = shutdowns]_vars => TaskSettles
<1> SUFFICES ASSUME NEW r \in TaskRequests
             PROVE  Spec /\ WorkerServes /\ <>[][shutdowns' = shutdowns]_vars
                      => (Queued(r) ~> Settled(r))
  BY DEF TaskSettles, Queued, Settled
<1>1. WorkerServes => ([]<>~WorkerMayStep(r)) \/ ([]<><<WorkerStep(r)>>_vars)
  BY DEF WorkerServes
<1>2. Queued(r) \/ Running(r) \/ Recording(r) \/ Ending(r) \/ Orphaned(r) => WorkerMayStep(r)
  BY DEF Queued, Running, Recording, Ending, Orphaned, WorkerMayStep
<1>3. TypeOK /\ BookkeepingInv /\ [Next]_vars /\ [shutdowns' = shutdowns]_vars =>
        /\ Queued(r) => Queued(r)' \/ Running(r)'
        /\ Running(r) =>
             Running(r)' \/ Recording(r)' \/ Ending(r)' \/ Orphaned(r)' \/ Settled(r)'
        /\ Recording(r) => Recording(r)' \/ Ending(r)' \/ Orphaned(r)' \/ Settled(r)'
        /\ Ending(r) => Ending(r)' \/ Orphaned(r)' \/ Settled(r)'
        /\ Orphaned(r) => Orphaned(r)' \/ Settled(r)'
  <2> SUFFICES ASSUME TypeOK, BookkeepingInv, [Next]_vars, [shutdowns' = shutdowns]_vars
               PROVE  QuietStep
    BY TaskAdvances
  <2> QED
    BY DEF QuietStep
<1>4. TypeOK /\ BookkeepingInv /\ <<WorkerStep(r)>>_vars =>
        /\ Queued(r) => Running(r)'
        /\ Running(r) => Recording(r)' \/ Ending(r)' \/ Settled(r)'
        /\ Recording(r) => Ending(r)'
        /\ Ending(r) => Settled(r)'
        /\ Orphaned(r) => Settled(r)'
  BY WorkerAdvances
<1>5. TypeOK /\ BookkeepingInv /\ [Next]_vars =>
        (Queued(r) \/ Running(r) \/ Recording(r) \/ Ending(r) \/ Orphaned(r) =>
           Queued(r)' \/ Running(r)' \/ Recording(r)' \/ Ending(r)' \/ Orphaned(r)'
             \/ Settled(r)')
  BY <1>3, ShutdownKeepsTasks
<1>6. QED
  BY <1>1, <1>2, <1>3, <1>4, <1>5, TypeCorrect, Bookkeeping, PTL DEF Spec

=============================================================================
