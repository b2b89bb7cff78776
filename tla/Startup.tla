------------------------------- MODULE Startup -------------------------------
(***************************************************************************)
(* Starting agents and workers on one database.                            *)
(*                                                                         *)
(* Each process opens the database with NewDatabaseStorage before it       *)
(* serves, and that runs the migrations of two directories, the system's   *)
(* and then the plugin's (src/storage/postgres/storage.go).  goose keeps   *)
(* the applied versions of both in one table: it creates the table when it *)
(* is missing, reads it once, and applies every version of the directory   *)
(* that it did not read, in ascending order, each in a transaction of its  *)
(* own that also records the version.  Nothing keeps two processes from    *)
(* doing this at the same time; a process that fails dies, and is started  *)
(* again by its supervisor.                                                *)
(***************************************************************************)
EXTENDS Integers

CONSTANTS
    Processes,      \* agents and workers
    System,         \* versions of the verifier's migrations
    Plugin,         \* versions of the migrations of this repository
    Exclusive,      \* migrations that cannot be applied twice: CREATE TYPE,
                    \* ALTER TYPE ... ADD VALUE
    MaxFaults       \* bound: failures and kills that no race causes

\* Creating goose's table records version 0.
VersionTable == 0

Versions == {VersionTable} \cup System \cup Plugin

ASSUME StartupAssumption ==
    /\ System \subseteq Nat \ {VersionTable}
    /\ Plugin \subseteq Nat \ {VersionTable}
    /\ System \cap Plugin = {}
    /\ Exclusive \subseteq Versions /\ VersionTable \in Exclusive
    /\ MaxFaults \in Nat

VARIABLES
    pc,         \* where the start of a process is
    dir,        \* the directory whose migrations it runs
    known,      \* versions it takes to be applied
    cur,        \* the version its transaction applies
    applied,    \* applied[m]: times the migration of version m was committed
    faults

procVars == <<pc, dir, known, cur>>

vars == <<procVars, applied, faults>>

TypeOK ==
    /\ pc \in [Processes -> {"down", "ensure", "list", "next", "execute", "commit", "serving"}]
    /\ dir \in [Processes -> {"system", "plugin"}]
    /\ known \in [Processes -> SUBSET Versions]
    /\ cur \in [Processes -> Versions]
    /\ applied \in [Versions -> Nat]
    /\ faults \in Nat

Files(d) == IF d = "system" THEN System ELSE Plugin

\* The versions that must be there before m: those below it in its directory.
Before(m) ==
    IF m = VersionTable THEN {}
    ELSE {VersionTable} \cup {n \in System : m \in System /\ n < m}
                        \cup {n \in Plugin : m \in Plugin /\ n < m}

Schema == {m \in Versions : applied[m] > 0}

\* The database is empty, or an earlier release has migrated it.
Init ==
    /\ pc = [p \in Processes |-> "down"]
    /\ dir = [p \in Processes |-> "system"]
    /\ known = [p \in Processes |-> {}]
    /\ cur = [p \in Processes |-> VersionTable]
    /\ applied \in [Versions -> {0, 1}]
    /\ \A m \in Schema : Before(m) \subseteq Schema
    /\ faults = 0

-----------------------------------------------------------------------------
Goto(p, where) == pc' = [pc EXCEPT ![p] = where]

\* Configuration, Redis and block storage come first; they change nothing.
Start(p) ==
    /\ pc[p] = "down"
    /\ Goto(p, "ensure")
    /\ dir' = [dir EXCEPT ![p] = "system"]
    /\ UNCHANGED <<known, cur, applied, faults>>

\* EnsureDBVersion: reading the version table fails when there is none.
EnsureTable(p) ==
    /\ pc[p] = "ensure"
    /\ cur' = [cur EXCEPT ![p] = VersionTable]
    /\ Goto(p, IF VersionTable \in Schema THEN "list" ELSE "execute")
    /\ UNCHANGED <<dir, known, applied, faults>>

ListVersions(p) ==
    /\ pc[p] = "list"
    /\ known' = [known EXCEPT ![p] = Schema]
    /\ Goto(p, "next")
    /\ UNCHANGED <<dir, cur, applied, faults>>

Unapplied(p) == Files(dir[p]) \ known[p]

\* Faulty variant of NextVersion: migrations come in no order.
AnyVersion(p) == Unapplied(p)

NextVersion(p) == {m \in Unapplied(p) : \A n \in Unapplied(p) : m <= n}

\* Faulty variant of BeginMigration: without WithAllowMissing, a version below
\* one of the table's is an error.
BeginInSequence(p) ==
    /\ pc[p] = "next"
    /\ \E m \in NextVersion(p) : cur' = [cur EXCEPT ![p] = m]
    /\ Goto(p, IF \E n \in known[p] : n > cur'[p] THEN "down" ELSE "execute")
    /\ UNCHANGED <<dir, known, applied, faults>>

BeginMigration(p) ==
    /\ pc[p] = "next"
    /\ \E m \in NextVersion(p) : cur' = [cur EXCEPT ![p] = m]
    /\ Goto(p, "execute")
    /\ UNCHANGED <<dir, known, applied, faults>>

\* Faulty variant of DirectoryDone: the process serves after one directory.
OneDirectory(p) ==
    /\ pc[p] = "next"
    /\ Unapplied(p) = {}
    /\ Goto(p, "serving")
    /\ UNCHANGED <<dir, known, cur, applied, faults>>

\* Migrate returns: the plugin's migrations follow the system's.
DirectoryDone(p) ==
    /\ pc[p] = "next"
    /\ Unapplied(p) = {}
    /\ dir' = [dir EXCEPT ![p] = "plugin"]
    /\ Goto(p, IF dir[p] = "system" THEN "ensure" ELSE "serving")
    /\ UNCHANGED <<known, cur, applied, faults>>

\* Another transaction has created the same type, label or table, and has not
\* ended: PostgreSQL lets the second statement wait.
Blocked(p) ==
    /\ cur[p] \in Exclusive
    /\ \E q \in Processes \ {p} : pc[q] = "commit" /\ cur[q] = cur[p]

Exists(p) == cur[p] \in Exclusive \cap Schema

\* Faulty variant of Execute: IF NOT EXISTS, which looks at committed rows.
ExecuteUnlessThere(p) ==
    /\ pc[p] = "execute"
    /\ Goto(p, "commit")
    /\ UNCHANGED <<dir, known, cur, applied, faults>>

Execute(p) ==
    /\ pc[p] = "execute"
    /\ ~Blocked(p) /\ ~Exists(p)
    /\ Goto(p, "commit")
    /\ UNCHANGED <<dir, known, cur, applied, faults>>

\* The statement finds what it should create: goose.Up fails, the process dies.
ExecuteTwice(p) ==
    /\ pc[p] = "execute"
    /\ ~Blocked(p) /\ Exists(p)
    /\ Goto(p, "down")
    /\ UNCHANGED <<dir, known, cur, applied, faults>>

\* The migration and its version row become visible together.
CommitMigration(p) ==
    /\ pc[p] = "commit"
    /\ applied' = [applied EXCEPT ![cur[p]] = @ + 1]
    /\ known' = [known EXCEPT ![p] = @ \cup {cur[p]}]
    /\ Goto(p, IF cur[p] = VersionTable THEN "list" ELSE "next")
    /\ UNCHANGED <<dir, cur, faults>>

\* A call fails or the process is killed, at any time: its transaction is
\* rolled back, unless it had reached the database already.
Fault(p) ==
    /\ pc[p] # "down"
    /\ faults < MaxFaults
    /\ faults' = faults + 1
    /\ Goto(p, "down")
    /\ \/ applied' = applied
       \/ pc[p] = "commit" /\ applied' = [applied EXCEPT ![cur[p]] = @ + 1]
    /\ UNCHANGED <<dir, known, cur>>

\* The process does its work, which changes none of this.
ServeOn(p) ==
    /\ pc[p] = "serving"
    /\ UNCHANGED vars

ProcessStep(p) ==
    \/ Start(p)
    \/ EnsureTable(p)
    \/ ListVersions(p)
    \/ BeginMigration(p)
    \/ DirectoryDone(p)
    \/ Execute(p)
    \/ ExecuteTwice(p)
    \/ CommitMigration(p)

Next == \E p \in Processes : ProcessStep(p) \/ Fault(p) \/ ServeOn(p)

Spec == Init /\ [][Next]_vars

\* Processes go on, and a supervisor starts those that died.
FairSpec == Spec /\ \A p \in Processes : WF_vars(ProcessStep(p))

-----------------------------------------------------------------------------
\* However many processes migrate at once, no migration that cannot be applied
\* twice is committed twice: the race kills processes, not the schema
\* (db_plugin.go:23-39, migrations/plugin/*.sql).
AppliedOnce == \A m \in Exclusive : applied[m] <= 1

\* Every start is a step of the upgrade: migrations of a directory in order,
\* none undone, and no process serves before both directories are complete,
\* although each looks at the versions only once per directory
\* (storage.go:40-89).
Upgrade == INSTANCE SchemaUpgrade
               WITH schema <- Schema, serving <- {p \in Processes : pc[p] = "serving"}

UpgradeSpec == Upgrade!Spec

\* The race ends: a process can lose it only to the progress of another, so
\* once failures and kills stop, all of them serve and keep serving.
AllServe == <>[](\A p \in Processes : pc[p] = "serving")

=============================================================================
