---------------------------- MODULE SystemEvents ----------------------------
(***************************************************************************)
(* The system_events table: the append-only log that the HTTP handlers and *)
(* the worker write with InsertEvent and that the event streamer and the   *)
(* replays read with GetEventsAfterTimestamp.                              *)
(*                                                                         *)
(* An insert is one implicit PostgreSQL transaction, and three of its      *)
(* moments matter to a reader: created_at is CURRENT_TIMESTAMP, the time   *)
(* the transaction began; id is drawn from the BIGSERIAL sequence while    *)
(* the statement runs; the row becomes visible when it commits.  Inserts   *)
(* of several callers overlap, so the three orders need not agree, and an  *)
(* insert that fails after drawing its id leaves a hole in the ids.        *)
(***************************************************************************)
EXTENDS Integers

CONSTANTS
    Writers,    \* callers of InsertEvent that may overlap
    MaxId,      \* bound: number of ids drawn from the sequence
    MaxClock    \* bound: last value of the database clock, in ticks

ASSUME SystemEventsAssumption == MaxId \in Nat /\ MaxClock \in Nat

VARIABLES
    clock,      \* the database clock
    nextId,     \* next value of the id sequence
    ins,        \* ins[w]: the insert w is executing, if any
    log         \* the committed rows

logVars == <<clock, nextId, ins, log>>

\* A row, reduced to the two columns its readers order and compare.
Row == [id : Nat, ts : Nat]

\* The value of a row variable that holds no row: ids start at 1.
NoRow == [id |-> 0, ts |-> 0]

IdleInsert == [phase |-> "idle", row |-> NoRow]

Insert == [phase : {"idle", "begun", "drawn"}, row : Row]

LogTypeOK ==
    /\ clock \in Nat
    /\ nextId \in Nat \ {0}
    /\ ins \in [Writers -> Insert]
    /\ log \in SUBSET Row

LogInit ==
    /\ clock = 0
    /\ nextId = 1
    /\ ins = [w \in Writers |-> IdleInsert]
    /\ log = {}

-----------------------------------------------------------------------------
Tick ==
    /\ clock < MaxClock
    /\ clock' = clock + 1
    /\ UNCHANGED <<nextId, ins, log>>

\* The transaction starts: the default of created_at is fixed here.
BeginInsert(w) ==
    /\ ins[w].phase = "idle"
    /\ nextId <= MaxId
    /\ ins' = [ins EXCEPT ![w] = [phase |-> "begun", row |-> [id |-> 0, ts |-> clock]]]
    /\ UNCHANGED <<clock, nextId, log>>

\* The statement draws its id; the sequence never goes back.
DrawId(w) ==
    /\ ins[w].phase = "begun"
    /\ nextId <= MaxId
    /\ ins' = [ins EXCEPT ![w] = [phase |-> "drawn", row |-> [id |-> nextId, ts |-> @.row.ts]]]
    /\ nextId' = nextId + 1
    /\ UNCHANGED <<clock, log>>

CommitInsert(w) ==
    /\ ins[w].phase = "drawn"
    /\ log' = log \cup {ins[w].row}
    /\ ins' = [ins EXCEPT ![w] = IdleInsert]
    /\ UNCHANGED <<clock, nextId>>

\* The statement or the connection fails: InsertEvent returns an error.
AbortInsert(w) ==
    /\ ins[w].phase # "idle"
    /\ ins' = [ins EXCEPT ![w] = IdleInsert]
    /\ UNCHANGED <<clock, nextId, log>>

InsertNext(w) ==
    \/ BeginInsert(w)
    \/ DrawId(w)
    \/ CommitInsert(w)
    \/ AbortInsert(w)

LogNext == Tick \/ \E w \in Writers : InsertNext(w)

-----------------------------------------------------------------------------
\* GetEventsAfterTimestamp(t): the rows visible now that are not older than t.
\* The result is ordered by created_at alone; a reader takes the rows one by
\* one as any of the Earliest ones left, so ties come in any order.
RowsFrom(t) == {e \in log : e.ts >= t}

\* Faulty variant of Earliest: no ORDER BY.
AnyOrder(rows) == rows

Earliest(rows) == {e \in rows : \A f \in rows : e.ts <= f.ts}

=============================================================================
