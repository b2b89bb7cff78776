# Verification of the plugin agent

TLA+ models of the Vultisig plugin agent (`src/`), model-checked with TLC and
proved about with TLAPS. The agent is an HTTP/WebSocket server, a worker that
runs threshold-signature tasks, and a PostgreSQL database and a Redis instance
the two share.

## The system

| Component | State it keeps | Operations | Shares with |
|---|---|---|---|
| System event table (`storage/postgres`, `queries/events.sql.go`) | `system_events`: `id` from a sequence, `created_at` from the clock | `InsertEvent`, `GetEventsAfterTimestamp` | written by handlers and worker, read by the streamer and the replays |
| Event streaming (`api/events.go`) | `clients`, `lastStreamedEventID`, the streamer's `lastSeen`; per connection `subscriptions`, `isStreamingHistory`, `replayMutex` | `GetEvents`, `handleSystemEventsSubscription` (replay goroutine), `streamNewEvents` | the table; a socket several goroutines write to |
| Vault handlers (`api/server.go`) | session keys in Redis, backup files in the block storage | `ReshareVault`, `SignMessages`, `DeleteVault`; read-only `GetVault`, `ExistVault`, `GetKeysignResult` | queue, table |
| Worker (`cmd/worker/main.go`) | tasks of the asynq queue | `resultWriter` around the vault service's handlers | queue, block storage, table |
| Policy handlers (`api/plugin.go`, `policy/service.go`, `queries/policy.sql.go`) | `plugin_policies` | create, update, soft-delete, list | vault backups (to verify signatures), table |
| Policy message (`common/common.go`) | none | join of the signed fields, signature check | policy handlers |
| Schema migrations (`storage.go`, `db_plugin.go`, `db_system.go`, `migrations/plugin`) | goose versions, the enum of event types | `goose.Up` on two directories when agent and worker start | the database, with every other process that starts |
| Proposals (`api/propose.go`) | none | `Propose`: look up a policy, have the signers sign | policies, signers |
| Configuration, wiring, middleware, address derivation, generated code | none | | |

What is hard here:

* **Three orders of one log.** `created_at` is the start of the insert's
  transaction, `id` is drawn while it runs, visibility comes with the commit.
  The streamer and the replays compare all three, with `>=`, `+ 1 ms`, `>` and `<=`.
* **The hand-off from history to live.** A replay sends history, clears a flag,
  reads a process-wide id and fills a gap, while the streamer works on a batch
  with a snapshot of the connections it took earlier.
* **Multi-call handlers without transactions.** Each of get/set/read/enqueue,
  delete/record, and verify/insert/decode/record may fail or be the last thing
  the process does; clients retry.
* **Two tellers of one story.** The file of a vault and the events about it are
  written by different calls of different processes.
* **Starts that race.** Every process migrates the database when it starts, and
  nothing but failing statements keeps them apart.
* **Peers that do not read.** One goroutine writes to all connections in turn,
  and a write has no deadline.
* **A queue with timeouts.** No retry on failure, but a requeue on shutdown, and
  a goroutine that runs on after its task was given up.

Per component, what makes it correct: the live stream announces each row at
most once per process run, in order, and skips none that its cursor has not
passed, save those within a millisecond of a row under broadcast; a hand-off that
runs to its end loses only what the code's comparisons must lose and repeats only
ties of what the connection had before; replays exclude each other and leave no lock
or flag behind; events and task states claim only what happened, and the last event
of a vault tells of its file what its columns allow when nothing was lost or
overlapped; a session's second task has a cause; a policy is created and deleted by
the owner of its vault and changed with a signature over the new content, if not
always the owner's; the signers act only on such policies, and a signed message has
one reading; a deleted policy stays deleted; racing starts apply every migration once
and serve on a complete schema only.

## Modules

| Module | Models | Composed of |
|---|---|---|
| `SystemEvents` | the event table and concurrent inserts | |
| `OrderedFeed` | abstract: an ordered feed without repeats, restarted in epochs | |
| `EventStream` | `api/events.go` with the process around it | extends `SystemEvents`, implements `OrderedFeed` |
| `VaultTasks` | the three vault handlers, session keys, queue, worker | |
| `VaultFeed` | what the event table tells of the vaults' files | watches `VaultTasks` |
| `SignedBook` | abstract: a book of policies in which nothing happens unsigned | |
| `PolicyLifecycle` | the three policy handlers over `plugin_policies` | implements `SignedBook` |
| `Proposals` | `api/propose.go` | runs beside `PolicyLifecycle` |
| `PolicyMessage` | the message a policy signature covers | |
| `SchemaUpgrade` | abstract: a schema that moves forward, processes that serve on a complete one | |
| `Startup` | starting agents and workers with their migrations | implements `SchemaUpgrade` |
| `*_proofs` | theorems about the module they extend; `Handoff_proofs` continues `EventStream_proofs` | |
| `MC*` | constants of the instances TLC checks | |

### SystemEvents

`BeginInsert` fixes `created_at`, `DrawId` takes the id, `CommitInsert` makes the
row visible, `AbortInsert` fails and leaves a hole in the ids. A row is its `id`
and `ts`: the other columns are never compared. `RowsFrom(t)` is
`WHERE created_at >= t`; its result is sorted by `created_at` alone, so a reader
takes its rows one by one, any of the `Earliest` first.

### EventStream

One variable per program variable, with the code's names. `spc` is the program
counter of the streamer (`streamNewEvents`): wait for the tick, query, take the
snapshot connection by connection under `clientsMutex` (`LockClients`,
`ScanClient`), then for each row send it to each connection (`PickEvent`,
`SendLive`) and move the cursor (`AdvanceCursor`). `rep[<<c, k>>]` is the replay
goroutine of the k-th subscribe message of connection c, one action per lock,
query, send and return. The reader goroutine is `Connect`, `Subscribe` and
`Disconnect`; `Break` is the peer going away. `Crash` ends the process, `Start`
restarts it with the cursor at the agent's clock, which may be off the
database's by a member of `StartSkews`. Time is in ticks, a millisecond is
`Milli` of them, so that two rows can be less than a millisecond apart.
`streamed`, `live`, and in a replay `got`, `had` and `stale`, are history.

A peer in `MayStall` may stop reading (`Stall`) and read again (`Resume`) at any
time. While it does not, a write to it does not return: the streamer stays in its
broadcast, a replay in its loop. Its reader goroutine goes on, so it can still
subscribe. `HistoryQueryFails` waits for such a peer as well, since the code sends the
error before it clears the flag. The gap query starts one nanosecond after the last history row; the
driver keeps microseconds, so it starts at that row. `last_seen` is shifted by
`ZoneShift`, because `time.UnixMilli` gives a local time and the column has none.
`lastHistoryEventID` is written and never read, and `lastEventTime.IsZero()`
cannot hold where it is asked: both are left out.

### VaultTasks

`pc[r]` is the handler execution of request r; a client's retry is another
request of the same session. `SessionUnread` and `SessionUnset` are failures of
Redis, which the code tolerates. `task[r]` is the state of the task in the queue
as asynq defines it under the options the code passes: `MaxRetry(-1)` archives on
failure, `Timeout` archives while the goroutine runs on (`TaskTimeout`), a lost
worker is found by its lease (`Recover`), a graceful shutdown requeues
(`Shutdown`). A call that returns an error may have taken effect all the same.
`effects`, `runs`, `overlap` and `keyLost` are history. The queue and the vault
service are not in this repository; they are marked external.

### VaultFeed

Adds to each step of `VaultTasks` what a reader of the table learns from it: the
last event that can be about each vault (`lastEvent`). A vault is the file of a public
key and a plugin, and a `vault_reshared` row carries the whole request; a
`vault_deleted` row has nothing but the key and `{}` (`api/server.go:300-306`), so it may be
about any vault of that key (`About`). `LastEventTellsFile` therefore says: after
`vault_reshared` the file exists, and if it exists after `vault_deleted`, then the deletion
was of another vault of the key. The run has two vaults of one key. `doubtful` is history:
an event was lost to a failed insert or a death, or a file operation came while the
event of an earlier one was not yet recorded. Both exceptions are needed: without either,
TLC finds a vault whose last event is wrong.

### PolicyLifecycle

`pc[r]` is the handler execution of request r: (read), verify, write, (record).
A policy is a vault (a public key and a plugin) and a content that stands for recipe
and versions. A signature covers the key and the content (`Message`), neither the plugin
nor the id. `KeyOf` gives the key of a vault; several vaults may share one. A request
names any id, vault and content: nothing ties an id to a key. An update is verified for
the vault in its body, and the `UPDATE` goes by id and leaves the vault of the row as
it is (`SetPolicy`), so a row may come to hold a content and a signature of another
owner. `Authorized` and `Provenance` say what is left: the row's vault comes from a
creation that verified for it, and its content and signature together from one request
that verified. `Parsable` contents
are those whose recipe decodes, which the code finds out only after the insert.
`versions` is history: the policies a row has held. `AgentCrash` is the death of the
agent at any moment: its handlers answer nothing, and what they wrote stays.

`SignedBook` is what an owner may rely on: an entry is opened for a vault with a signature
of its owner (`Open`), retired with a signature of its owner over a policy it has held
(`Retire`), and in between revised with anybody's signature over the new content
(`Revise`); it never changes its vault and never comes back. The refinement takes as signed
what a signature has been presented for, as the book what the table holds, as retired
what is marked deleted.

### Proposals

A proposal reads the row of a policy, deleted or not (`ProposeFor`), and then waits
for the signers, which are external (`SignProposal`, `ProposalFails`). It changes
nothing the policy handlers see; their steps go on while it waits. Handlers and
proposals die together (`ProposalsCrash`). The code does not
look at `deleted`, so a deleted policy can still be proposed for: the property says
that the row has held it and what signatures led to it (`Provenance`), not that it is in
force, nor that the owner signed its last revision.

### PolicyMessage

`PolicyToMessageHex` on texts as sequences of characters, since the property is
about this very conversion: `Contains` is `strings.Contains`, `Join` is
`strings.Join`, `Accepted` the loop that refuses a field with the delimiter in it.
Key and version consist of characters that are not the delimiter's: the one has, with
the plugin, to name an existing vault file, and vaults have hexadecimal keys; the other is
formatted from a number.

### Startup

`pc[p]` is where a process is in `NewPostgresStorage`: make goose's table if it is
missing (`EnsureTable`), read the applied versions once (`ListVersions`), then for each
missing one of the directory begin a transaction, execute and commit it; after the
system's directory the plugin's, then serve. `Execute` waits while another
transaction creates the same type, label or table (`Blocked`) and fails when it is
there (`ExecuteTwice`); the process then dies and is started again. `Fault` is any
other failure or kill; a commit under way may or may not have reached the
database. `applied` counts commits of each version. The versions of the two
directories lie between each other, so a directory regularly misses versions below
recorded ones, which `goose.WithAllowMissing` allows.

## Runs

| Run | Instance | Shows |
|---|---|---|
| `stream` | 2 writers, 3 ids, clock to 3, ms = 2 ticks, skew -1..1, 1 crash; 272 k states | `NeverDropsPending`: while the process lives, no row is dropped that the cursor has not passed and that is not within a millisecond of a row under broadcast. `FeedSpec`: refinement of `OrderedFeed`. `PendingIsBroadcast`: such a row is broadcast unless the process dies |
| `handoff` | 1 connection, 1 replay from either of two times, 2 writers, 3 ids; 6.4 M states | `HandoffLosesOneBatch`: what a hand-off that runs to its end can lose. `GapRepeatsLittle`: which rows it had before can come again |
| `fanout` | 2 connections of which one may stall, 1 writer, 2 ids; 188 k states | `TypeOK`, `LiveAtMostOnce`; `SubscriptionCompletes`: a replay of one connection ends although the streamer is stuck in a write to the other |
| `replays` | 1 connection that may stall, 2 replays, shifted `last_seen`; 243 k states | `ReplayExclusive`, `HistoryFlagIsAccurate`, `SubscriptionCompletes`, `FollowerIsServed`; `NobodyWedged`: whoever cannot go on waits for a peer that does not read, or for a replay of its own connection that can go on |
| `vault_events` | 1 reshare and 1 deletion of a vault, 1 deletion of another of the same key, 1 crash, 1 shutdown; 405 k states | `EventsAreTrue`, `LastEventTellsFile` |
| `sessions` | 1 reshare and 1 signature of one session, 1 crash, 1 shutdown; 240 k states | `TypeOK`, `DuplicateHasCause`; `OncePerSession`: the same for effects, which retries and requeues could repeat; `OkHasTaskOrFailure`: a success without a task follows a failure; `BoundedRuns`: only a shutdown makes a task run again; `CompletedWasDone`; `TaskSettles`: a queued task ends completed or archived |
| `policies` | 2 creations, 1 update, 1 deletion of one id for one vault, any number of crashes; 136 k states | `TypeOK`, `CreatedOnce`, `DeletionIsFinal`; `UnrecordedHasCause`: a creation without an event was not answered with success |
| `owners` | 1 creation, 1 update, 1 deletion, 1 proposal of one id by 2 owners with 3 vaults, 2 of them of one key; 2.3 M states | `ProposalTypeOK`, `ContentIsSigned`, `DeletionWasSigned`, `ProposalHasConsent`: what signatures led to a row, a deletion, a proposal; `BookSpec`: refinement of `SignedBook` |
| `startup` | 3 processes, 2 + 2 migrations that interleave, 1 fault, every database an earlier release can leave; 480 k states | `AppliedOnce`, `UpgradeSpec` (refinement of `SchemaUpgrade`), `AllServe` |
| `policy_message` | recipes of up to 2 pieces and plug-in versions of up to 3, a piece being a character, a part of the delimiter or all of it | `OneReading` |
| `retry_after_failure` | 2 reshares of one session | violated: `OkMeansQueued` |
| `creation_events` | 1 creation | violated: `CreationIsRecorded` |

Why the bounds suffice: two overlapping inserts are enough for the orders of
id, time and commit to disagree pairwise, and a third row lies between, before
or after them; three ticks put rows within a millisecond and beyond one. Each
hazard of the hand-off involves one connection; a second one matters to the
snapshot and its loop (`fanout`). Two replays are enough for one to wait for the
other. Two requests of a session make its race; they are of both kinds, since the two handlers
keep their session keys in one namespace and differ in what follows. A reshare and a deletion of a vault take its file
through every order of operations and events, and a deletion of the other vault of its
key adds the event that cannot be told apart. All policy handlers work on one
id, since executions on different ids share only vaults, which they do not
write; two creations race for it in `policies`, and in `owners` each request is of any of
three vaults: its owner's, its owner's at another plugin, another owner's. Proposals do not
affect each other, so one is enough. Three processes let
one lose the race to two others at different versions, and two versions in each
directory make it possible to miss one below and one above. A plug-in version of
three pieces is long enough to look like the end of another policy's message. The
proofs remove the bounds from all of the safety properties.

`HandoffLosesOneBatch` was found by relaxing: each of its exceptions is
needed, and a connection can really lose those rows. They are rows older or of
smaller id than the last history row that became visible late, and the rest of
the one batch that was being broadcast, without this connection, when the replay
read `lastStreamedEventID`. A replay that found no history fills no gap at all,
so the property speaks of replays that found some; and one whose gap query or gap
write fails gives up (`failed`, `api/events.go:180-191`), so it speaks of those that are
done.

What a hand-off repeats has two parts. Rows that the connection has when the flag is
cleared, from the replay or, from before it, from the streamer, come again in the gap
only if they tie with the last row of history: that is `GapRepeatsLittle`. Rows that
the streamer sends after the flag is cleared may come again whatever their time, when the
id is read, or the gap queried, only after them; nothing in the code prevents that, and no
property speaks of them. Such a row has an id, so a client can tell.

Mutants, defined next to what they replace and marked `Faulty variant of`, show
that each property depends on the code: each is the plausible slip (a forgotten
unlock, a cursor set to the present, `<` for `<=`, a missing ORDER BY, an upsert
for an insert, the queue's default retries, `IF NOT EXISTS` for a create, a lock held
across a write, a flag not looked at, a write that gives up on a slow peer, an orphaned task put back into the
queue, an error that is only logged) that the property catches.

### Disagreements found

* `retry_after_failure`: `ReshareVault` sets the session key before it enqueues.
  When `Enqueue` fails, the retry is answered 200 and nothing was ever queued,
  until the key expires (`api/server.go:152-167`). `SignMessages` does the same
  with the vault read in between. What does hold is `OkHasTaskOrFailure`: a request of
  the session must have failed or died before.
* `creation_events`: a policy is stored before its recipe is decoded and its
  event inserted. If either fails, the policy stays without its event, and a
  retry fails on the primary key (`api/plugin.go:96-123`). What does hold is
  `UnrecordedHasCause`: the client was not told of a success.

## Fairness

`EventStream`: weak fairness of the start of the process, of the streamer and of
each replay. A supervisor starts the process, the ticker fires every second,
the database does not fail for ever (`StreamIdle` is a tick that found nothing or
failed), and a mutex, or a write to a peer that reads or is gone, is not refused for
ever. Nothing is assumed of clients, inserts and crashes. A peer need not ever read
again: where a property depends on that, it says so (`ReadsInTheEnd`), and only as far
as it does. A replay ends if its own peer reads in the end; live events are only promised
if every peer does, because one that never reads stops the streamer for all
(`api/events.go:243-286`). `Startup`: weak fairness of each process; a supervisor
starts those that died, and failures that no race causes come to an end
(`MaxFaults`). `VaultTasks`: weak fairness of each handler and of
each task's worker step, the recoverer of the queue included; failures, timeouts,
crashes and shutdowns are bounded or unconstrained but never required.

## Proofs

All for every value of the constants, from the named assumptions of each module
(`SystemEventsAssumption`, `EventStreamAssumption`, `VaultTasksAssumption`,
`VaultFeedAssumption`, `PolicyLifecycleAssumption`, `StartupAssumption`, `PolicyMessageAssumption`: types of the parameters, disjointness of the kinds of
requests, sentinels that are no values).

* **EventStream.** `TypeCorrect`; `StreamerInvariant`, the invariant of the
  streamer's loop. `LiveAtMostOnce` is not inductive by itself: that a row is not
  sent again needs that broadcast rows lie a millisecond behind the cursor, that
  a batch only has rows not yet broadcast, and that a connection holds broadcast
  rows only. `LiveDeliveryAtMostOnce`, `CursorSkipsNothingPending` and
  `StreamImplementsFeed` follow from it, the last by mapping every step to a commit,
  a publication, a new epoch or a stutter. `ReplayDiscipline` proves
  `ReplayExclusive` and `HistoryFlagIsAccurate` together, each needing the other.
* **The hand-off** (`Handoff_proofs`). `HandoffLosesOneBatch` speaks of a replay that is
  done; the invariant `HandoffInv` follows the hand-off from the moment the replay reads
  `lastStreamedEventID`. Every row broadcast is then at the connection, in the gap still to
  be fetched or sent, in the stale broadcast, or behind the history
  (`Accounted`), and a broadcast under way either is the stale one or includes the
  connection (`Included`). The replay's moves keep this because the streamed id bounds the
  ids of everything broadcast (`DeliveryInv`) and the gap query asks for all up to it; the
  streamer's because a subscribed connection whose flag is down enters every
  snapshot (`HistoryFlag`) and a row is left only when all of the snapshot had it. That
  the last history row itself is not missing needs unique ids (`IdsAreUnique`).
  `GapRepeats` follows from `ReplaysAreSound`: history is sent in the order of time, so what
  was sent is not newer than its last row, and the gap is not older. For the rows from the
  streamer it needs more: those that the connection has, or can get from a broadcast whose
  snapshot includes it (`Coming`), were in the table when history was queried, so history
  has them unless they are older than `last_seen` (`Covered`); and no snapshot takes the
  connection in while the flag is up (`SilencedGetsNothingNew`).
* **Nobody is wedged** (`Handoff_proofs`). `NobodyIsWedged` rests on three facts: the mutex
  is held only while a replay runs (`ReplayDiscipline`), the streamer leaves its scan
  with the last connection (`ScanInv`), and a set of rows that is not empty has an
  earliest one (`EarliestExists`, from the well-founded order of the naturals), so that a
  loop over rows always finds its next. "Can go on" is the guard of the steps written out
  (`StreamerCanStep`, `ReplayCanStep`), since the prover has no ENABLED.
* **VaultTasks.** `TypeCorrect`; `Bookkeeping`, which adds that a recorder has an
  effect not yet recorded, a finisher has had one, and a waiting task has a run
  left. `EventsNeverLie`, `RunsAreBounded` and `CompletionIsReal` follow.
  `DuplicatesHaveACause` has an invariant of its own: a key once set stays set until
  it is lost, so two requests both enter only across each other. `SessionTakesEffectOnce`
  adds that a task has at most as many effects as runs, which `Bookkeeping` bounds
  because a task in the queue has no goroutine left. `OkIsAccountedFor` needs an
  invariant for every key that is set: one of its requests is on its way to the queue,
  has a task, or failed or died on the way (`AnswerInv`).
* **Tasks settle** (`TasksSettle`), the one liveness property within reach. It needs no
  induction over time: a task passes through five stages (queued, running, recording,
  ending, orphaned) in an order no step goes back in while no shutdown comes, and each
  step of its worker leaves the stage. The hypotheses are `WorkerServes`, weak fairness
  of the worker's steps with the guard written out for ENABLED (a restatement of that part
  of `Fairness`, which the prover cannot connect to it), and that shutdowns, each of which
  may put the task back into the queue, come to an end; the model bounds them by
  `MaxShutdowns`.
* **VaultFeed.** `FeedWatches`: every execution with the observer is one of `VaultTasks`.
  `LastEventIsRight` has the invariant that at most one request of a vault that is not
  in doubt is between file operation and event, and that the file is then as that
  request left it, and, when there is none, as the last event about the vault says.
* **PolicyLifecycle.** `TypeCorrect`; `Lifecycle`: every row has its `Provenance` and holds
  one of its `versions`, a handler about to write has verified what it carries,
  and at most one creation of an id is about to record. Nothing is assumed of who uses
  which id, key or vault. `ContentsAreSigned`,
  `AnnouncedOnce`, `DeletionsAreSigned` follow; `DeletedForGood` is an action property.
  `MissingEventsHaveACause` follows the one creation that made the row
  (`SuccessIsRecorded`: one answered with success has recorded it). `HandlersImplementBook`
  maps the arrival of a request to `Sign`, the insert to `Open`, the update to `Revise`, the
  soft delete to `Retire`, and every failure, answer and crash to a stutter; it is
  `Lifecycle` that says a handler about to write holds what was verified.
* **Proposals.** `ProposalsWatch` carries those theorems over; `ProposalsHaveConsent`
  adds that a row has its provenance when it is read, that what a request verified stays
  so, and that `versions` only grows.
* **Startup.** `UpgradeInvariant`: what a process knows to be applied is, with everything
  below it; a process about to commit an exclusive migration is the only one, and the
  migration is not there. `MigratedOnce` and `StartupImplementsUpgrade` follow, the latter by
  mapping commits to `Apply`, the end of the second directory to `Serve` and deaths to
  `Stop`.
* **PolicyMessage.** `MessageIsUnambiguous`, for texts of any length: the first delimiter of
  a message ends the recipe. An earlier one would overlap the end of the recipe or
  the delimiter itself, and the key that follows has no character of it; the key
  and the version are then cut at the next two. `MessageHasOneReading` follows.

Every safety property of the passing runs is proved. Only model-checked are four
liveness properties. `PendingIsBroadcast`, `SubscriptionCompletes`,
`FollowerIsServed` and `AllServe` are about loops over any number of rows, connections or
migrations: they need an induction over time, which a temporal step of the prover
cannot do.

## Not modelled

* Read-only handlers (`GetVault`, `ExistVault`, `GetKeysignResult`, the listing of
  policies, the recipe specification, address derivation): they change no state and
  answer from one read.
* Key generation: the worker handles such tasks, nothing here enqueues them.
* Retention of completed tasks, the `active` flag of policies, `policy_deleted` events
  (the type exists, no code records one), `WithTx` and the Redis operations nothing calls.
* Concurrent writes to one socket, on which gorilla panics: their effect, the death of
  the process between any two steps, is `Crash`.
* The signers, the vault service, asynq, goose and PostgreSQL themselves: modelled from
  how the code uses them and marked external.
* Elliptic-curve arithmetic, field copies, generated code, configuration, metrics and
  wiring: sequential code without a state of its own. Lengths of signatures and widths
  of ids are not modelled.
* The handlers' events are the writers of `SystemEvents`: `EventStream` lets any number of
  them insert at any time, so it covers the streams of `VaultTasks`, `PolicyLifecycle` and
  the worker without being composed with them.

`PROJECT.json` lists the reason for each component.

## What is left

1. The start of the history under a time zone: `ZoneShift` is in the model and shifts what a
   replay finds; a property would need a statement of what `last_seen` means.
2. One writer at a time per socket, which the code does not ensure: a model of the
   goroutines' writes as intervals would show how far a common lock would have to reach.
3. Composition of `VaultFeed` with `EventStream`: which last event a follower has seen.
