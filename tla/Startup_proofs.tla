---------------------------- MODULE Startup_proofs ----------------------------
(***************************************************************************)
(* Theorems about Startup, for any processes and any migrations.           *)
(***************************************************************************)
EXTENDS Startup, TLAPS

\* A migration between its begin and its commit.
Migrating(p) == pc[p] \in {"execute", "commit"} /\ cur[p] # VersionTable

\* What a process relies on while it starts: what it knows is still so, the
\* migration it applies is the next of its directory, and what it creates, if
\* it can be created only once, no other transaction creates.
ProcessInv(p) ==
    /\ pc[p] = "list" => VersionTable \in Schema
    /\ pc[p] = "next" \/ Migrating(p) =>
          VersionTable \in known[p] /\ known[p] \subseteq Schema
    /\ Migrating(p) => cur[p] \in Files(dir[p]) /\ Before(cur[p]) \subseteq known[p]
    /\ pc[p] # "down" /\ dir[p] = "plugin" => System \subseteq Schema
    /\ pc[p] = "serving" => Schema = Versions
    /\ pc[p] = "commit" /\ cur[p] \in Exclusive =>
          /\ cur[p] \notin Schema
          /\ \A q \in Processes \ {p} : pc[q] = "commit" => cur[q] # cur[p]

UpgradeInv ==
    /\ AppliedOnce
    /\ \A m \in Schema : Before(m) \subseteq Schema
    /\ \A p \in Processes : ProcessInv(p)

-----------------------------------------------------------------------------
\* The variables have their types (storage.go:40-89).
THEOREM TypeCorrect == Spec => []TypeOK
<1>1. Init => TypeOK
  BY StartupAssumption DEF Init, TypeOK, Versions
<1>2. TypeOK /\ [Next]_vars => TypeOK'
  <2> SUFFICES ASSUME TypeOK, [Next]_vars PROVE TypeOK'
    OBVIOUS
  <2> USE StartupAssumption DEF TypeOK, Goto
  <2>1. CASE UNCHANGED vars
    BY <2>1 DEF vars, procVars
  <2>2. ASSUME NEW p \in Processes, ProcessStep(p) PROVE TypeOK'
    <3>1. CASE Start(p)
      BY <3>1 DEF Start
    <3>2. CASE EnsureTable(p)
      BY <3>2 DEF EnsureTable, Versions
    <3>3. CASE ListVersions(p)
      BY <3>3 DEF ListVersions, Schema
    <3>4. CASE BeginMigration(p)
      BY <3>4 DEF BeginMigration, NextVersion, Unapplied, Files, Versions
    <3>5. CASE DirectoryDone(p)
      BY <3>5 DEF DirectoryDone
    <3>6. CASE Execute(p)
      BY <3>6 DEF Execute
    <3>7. CASE ExecuteTwice(p)
      BY <3>7 DEF ExecuteTwice
    <3>8. CASE CommitMigration(p)
      BY <3>8 DEF CommitMigration
    <3> QED
      BY <2>2, <3>1, <3>2, <3>3, <3>4, <3>5, <3>6, <3>7, <3>8 DEF ProcessStep
  <2>3. ASSUME NEW p \in Processes, Fault(p) PROVE TypeOK'
    BY <2>3 DEF Fault
  <2>4. ASSUME NEW p \in Processes, ServeOn(p) PROVE TypeOK'
    BY <2>4 DEF ServeOn, vars, procVars
  <2> QED
    BY <2>1, <2>2, <2>3, <2>4 DEF Next
<1> QED
  BY <1>1, <1>2, PTL DEF Spec

-----------------------------------------------------------------------------
\* A commit adds its version to the schema (db_plugin.go:33).
LEMMA CommitAdds ==
    ASSUME TypeOK, NEW m \in Versions, applied' = [applied EXCEPT ![m] = @ + 1]
    PROVE  /\ Schema' = Schema \cup {m}
           /\ \A n \in Versions : n # m => applied'[n] = applied[n]
           /\ m \notin Schema => applied'[m] = 1
BY DEF TypeOK, Schema

\* A step that touches no row touches no schema.
LEMMA SchemaUnchanged == ASSUME applied' = applied PROVE Schema' = Schema
BY DEF Schema

\* What precedes a version of a directory.
LEMMA BeforeFile ==
    ASSUME NEW d \in {"system", "plugin"}, NEW m \in Files(d)
    PROVE  Before(m) = {VersionTable} \cup {n \in Files(d) : n < m}
BY StartupAssumption DEF Files, Before, VersionTable

\* The invariant of the upgrade, for any number of processes that race.
THEOREM UpgradeInvariant == Spec => []UpgradeInv
<1>1. Init => UpgradeInv
  BY StartupAssumption DEF Init, UpgradeInv, AppliedOnce, ProcessInv, Migrating, Versions
<1>2. TypeOK /\ UpgradeInv /\ [Next]_vars => UpgradeInv'
  <2> SUFFICES ASSUME TypeOK, UpgradeInv, [Next]_vars PROVE UpgradeInv'
    OBVIOUS
  <2> USE StartupAssumption
  <2>1. CASE UNCHANGED vars
    BY <2>1 DEF vars, procVars, UpgradeInv, AppliedOnce, ProcessInv, Migrating, Schema
  <2>2. ASSUME NEW p \in Processes, applied' = applied,
               pc' = [pc EXCEPT ![p] = pc'[p]],
               dir' = [dir EXCEPT ![p] = dir'[p]],
               known' = [known EXCEPT ![p] = known'[p]],
               cur' = [cur EXCEPT ![p] = cur'[p]],
               pc'[p] = "commit" => pc[p] = "execute" /\ cur'[p] = cur[p] /\ ~Blocked(p),
               ProcessInv(p)'
        PROVE UpgradeInv'
    <3>1. Schema' = Schema
      BY <2>2, SchemaUnchanged
    <3>2. ASSUME NEW q \in Processes \ {p} PROVE ProcessInv(q)'
      BY <2>2, <3>1, <3>2 DEF UpgradeInv, ProcessInv, Migrating, TypeOK, Blocked
    <3> QED
      BY <2>2, <3>1, <3>2 DEF UpgradeInv, AppliedOnce
  <2>3. ASSUME NEW p \in Processes, ProcessStep(p), pc[p] # "commit" PROVE UpgradeInv'
    <3> USE DEF Goto, TypeOK
    <3>1. applied' = applied => Schema' = Schema
      BY SchemaUnchanged
    <3>2. ProcessInv(p)
      BY DEF UpgradeInv
    <3>3. CASE Start(p)
      BY <2>2, <3>1, <3>3 DEF Start, ProcessInv, Migrating
    <3>4. CASE EnsureTable(p)
      BY <2>2, <3>1, <3>2, <3>4 DEF EnsureTable, ProcessInv, Migrating
    <3>5. CASE ListVersions(p)
      BY <2>2, <3>1, <3>2, <3>5 DEF ListVersions, ProcessInv, Migrating
    <3>6. CASE BeginMigration(p)
      <4>1. PICK m \in NextVersion(p) : cur' = [cur EXCEPT ![p] = m]
        BY <3>6 DEF BeginMigration
      <4>2. /\ m \in Files(dir[p]) /\ m # VersionTable
            /\ \A n \in Files(dir[p]) : n < m => n \in known[p]
        BY <4>1 DEF NextVersion, Unapplied, Files
      <4>3. Before(m) \subseteq known[p]
        BY <3>2, <3>6, <4>2, BeforeFile DEF BeginMigration, ProcessInv
      <4> QED
        BY <2>2, <3>1, <3>2, <3>6, <4>1, <4>2, <4>3
           DEF BeginMigration, ProcessInv, Migrating
    <3>7. CASE DirectoryDone(p)
      <4>1. Files(dir[p]) \subseteq Schema
        BY <3>2, <3>7 DEF DirectoryDone, Unapplied, ProcessInv
      <4>2. dir[p] = "plugin" => Schema = Versions
        BY <3>2, <3>7, <4>1 DEF DirectoryDone, ProcessInv, Files, Versions, Schema
      <4> QED
        BY <2>2, <3>1, <3>2, <3>7, <4>1, <4>2 DEF DirectoryDone, ProcessInv, Migrating, Files
    <3>8. CASE Execute(p)
      BY <2>2, <3>1, <3>2, <3>8 DEF Execute, ProcessInv, Migrating, Blocked, Exists
    <3>9. CASE ExecuteTwice(p)
      BY <2>2, <3>1, <3>9 DEF ExecuteTwice, ProcessInv, Migrating
    <3> QED
      BY <2>3, <3>3, <3>4, <3>5, <3>6, <3>7, <3>8, <3>9 DEF ProcessStep, CommitMigration
  <2>4. ASSUME NEW p \in Processes, pc[p] = "commit", dir' = dir, cur' = cur,
               applied' = [applied EXCEPT ![cur[p]] = @ + 1],
               pc' = [pc EXCEPT ![p] = pc'[p]], pc'[p] \in {"list", "next", "down"},
               pc'[p] = "list" => cur[p] = VersionTable,
               pc'[p] = "next" => cur[p] # VersionTable /\ known'[p] = known[p] \cup {cur[p]},
               known' = [known EXCEPT ![p] = known'[p]]
        PROVE UpgradeInv'
    <3> USE DEF TypeOK
    <3>1. /\ Schema' = Schema \cup {cur[p]}
          /\ \A n \in Versions : n # cur[p] => applied'[n] = applied[n]
          /\ cur[p] \notin Schema => applied'[cur[p]] = 1
      BY <2>4, CommitAdds
    <3>2. AppliedOnce'
      BY <2>4, <3>1 DEF UpgradeInv, ProcessInv, AppliedOnce
    <3>3. Before(cur[p]) \subseteq Schema
      BY <2>4 DEF UpgradeInv, ProcessInv, Migrating, Before
    <3>4. ProcessInv(p)'
      BY <2>4, <3>1 DEF UpgradeInv, ProcessInv, Migrating
    <3>5. ASSUME NEW q \in Processes \ {p} PROVE ProcessInv(q)'
      <4>1. pc'[q] = pc[q] /\ dir'[q] = dir[q] /\ known'[q] = known[q] /\ cur'[q] = cur[q]
        BY <2>4
      <4>2. Schema \subseteq Schema' /\ Schema' \subseteq Versions
        BY <2>4, <3>1 DEF Schema
      <4>3. pc[q] = "commit" /\ cur[q] \in Exclusive => cur[q] # cur[p]
        BY <2>4 DEF UpgradeInv, ProcessInv
      <4> QED
        BY <2>4, <3>1, <4>1, <4>2, <4>3 DEF UpgradeInv, ProcessInv, Migrating
    <3>6. \A m \in Schema' : Before(m) \subseteq Schema'
      BY <3>1, <3>3 DEF UpgradeInv
    <3> QED
      BY <3>2, <3>4, <3>5, <3>6 DEF UpgradeInv
  <2>5. ASSUME NEW p \in Processes, CommitMigration(p) PROVE UpgradeInv'
    BY <2>4, <2>5 DEF CommitMigration, Goto, TypeOK
  <2>6. ASSUME NEW p \in Processes, Fault(p) PROVE UpgradeInv'
    <3> USE DEF TypeOK
    <3>1. CASE applied' = applied
      <4>1. /\ pc' = [pc EXCEPT ![p] = "down"] /\ pc'[p] = "down"
            /\ dir' = dir /\ known' = known /\ cur' = cur
        BY <2>6 DEF Fault, Goto
      <4>2. ProcessInv(p)'
        BY <4>1 DEF ProcessInv, Migrating
      <4> QED
        BY <2>2, <3>1, <4>1, <4>2
    <3>2. CASE pc[p] = "commit" /\ applied' = [applied EXCEPT ![cur[p]] = @ + 1]
      BY <2>4, <2>6, <3>2 DEF Fault, Goto, TypeOK
    <3> QED
      BY <2>6, <3>1, <3>2 DEF Fault
  <2>7. ASSUME NEW p \in Processes, ServeOn(p) PROVE UpgradeInv'
    BY <2>1, <2>7 DEF ServeOn
  <2> QED
    BY <2>1, <2>3, <2>5, <2>6, <2>7 DEF Next, ProcessStep, CommitMigration, Start,
       EnsureTable, ListVersions, BeginMigration, DirectoryDone, Execute, ExecuteTwice
<1> QED
  BY <1>1, <1>2, TypeCorrect, PTL DEF Spec

\* No migration that cannot be applied twice is committed twice
\* (db_plugin.go:23-39).
THEOREM MigratedOnce == Spec => []AppliedOnce
BY UpgradeInvariant, PTL DEF UpgradeInv

-----------------------------------------------------------------------------
\* Whatever the interleaving, the starts of the processes are an upgrade: the
\* schema grows by one migration at a time, in the order of its directory, and
\* a process serves on a complete schema (storage.go:40-89).
THEOREM StartupImplementsUpgrade == Spec => UpgradeSpec
<1> DEFINE serving == {p \in Processes : pc[p] = "serving"}
<1>1. Init => Upgrade!Init
  BY DEF Init, Upgrade!Init, Schema
<1>2. TypeOK /\ UpgradeInv /\ [Next]_vars => [Upgrade!Next]_(Upgrade!upgradeVars)
  <2> SUFFICES ASSUME TypeOK, UpgradeInv, [Next]_vars
               PROVE  Upgrade!Next \/ (Schema' = Schema /\ serving' = serving)
    BY DEF Upgrade!upgradeVars
  <2> USE DEF TypeOK, Goto
  <2>1. CASE UNCHANGED vars
    BY <2>1 DEF vars, procVars, Schema
  \* A step that commits nothing is the step of one process to a new place.
  <2>2. ASSUME NEW p \in Processes, applied' = applied, NEW where,
               pc' = [pc EXCEPT ![p] = where],
               where = "serving" => Schema = Versions
        PROVE  Upgrade!Next \/ (Schema' = Schema /\ serving' = serving)
    <3>1. Schema' = Schema
      BY <2>2, SchemaUnchanged
    <3>2. CASE where = "serving"
      BY <2>2, <3>1, <3>2 DEF Upgrade!Next, Upgrade!Serve
    <3>3. CASE where # "serving"
      <4>1. serving' = serving \ {p}
        BY <2>2, <3>3
      <4> QED
        BY <3>1, <4>1 DEF Upgrade!Next, Upgrade!Stop
    <3> QED
      BY <3>2, <3>3
  \* A commit applies a migration, or repeats one that may be repeated.
  <2>3. ASSUME NEW p \in Processes, NEW where, pc[p] = "commit",
               where # "serving", pc' = [pc EXCEPT ![p] = where],
               applied' = [applied EXCEPT ![cur[p]] = @ + 1]
        PROVE  Upgrade!Next \/ (Schema' = Schema /\ serving' = serving)
    <3>1. Schema' = Schema \cup {cur[p]}
      BY <2>3, CommitAdds
    <3>2. serving' = serving
      BY <2>3
    <3>3. Before(cur[p]) \subseteq Schema
      BY <2>3 DEF UpgradeInv, ProcessInv, Migrating, Before
    <3>4. cur[p] \in Versions
      BY <2>3
    <3>5. CASE cur[p] \in Schema
      BY <3>1, <3>2, <3>5
    <3>6. CASE cur[p] \notin Schema
      BY <3>1, <3>2, <3>3, <3>4, <3>6 DEF Upgrade!Next, Upgrade!Apply
    <3> QED
      BY <3>5, <3>6
  <2>4. ASSUME NEW p \in Processes, ProcessStep(p), pc[p] # "commit"
        PROVE  Upgrade!Next \/ (Schema' = Schema /\ serving' = serving)
    <3>1. CASE DirectoryDone(p)
      <4>1. Files(dir[p]) \subseteq Schema
        BY <3>1 DEF DirectoryDone, Unapplied, UpgradeInv, ProcessInv
      <4>2. dir[p] # "system" => Schema = Versions
        BY <3>1, <4>1 DEF DirectoryDone, UpgradeInv, ProcessInv, Files, Versions, Schema
      <4> QED
        BY <2>2, <3>1, <4>2 DEF DirectoryDone
    <3>2. CASE EnsureTable(p)
      BY <2>2, <3>2 DEF EnsureTable
    <3> QED
      BY <2>2, <2>4, <3>1, <3>2 DEF ProcessStep, Start, ListVersions, BeginMigration,
         Execute, ExecuteTwice, CommitMigration
  <2>5. ASSUME NEW p \in Processes, CommitMigration(p)
        PROVE  Upgrade!Next \/ (Schema' = Schema /\ serving' = serving)
    BY <2>3, <2>5 DEF CommitMigration
  <2>6. ASSUME NEW p \in Processes, Fault(p)
        PROVE  Upgrade!Next \/ (Schema' = Schema /\ serving' = serving)
    BY <2>2, <2>3, <2>6 DEF Fault
  <2>7. ASSUME NEW p \in Processes, ServeOn(p)
        PROVE  Upgrade!Next \/ (Schema' = Schema /\ serving' = serving)
    BY <2>1, <2>7 DEF ServeOn
  <2> QED
    BY <2>1, <2>4, <2>5, <2>6, <2>7 DEF Next, ProcessStep, CommitMigration, Start,
       EnsureTable, ListVersions, BeginMigration, DirectoryDone, Execute, ExecuteTwice
<1> QED
  BY <1>1, <1>2, TypeCorrect, UpgradeInvariant, PTL
     DEF Spec, UpgradeSpec, Upgrade!Spec

=============================================================================
