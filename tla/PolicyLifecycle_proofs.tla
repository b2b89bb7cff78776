----------------------- MODULE PolicyLifecycle_proofs -----------------------
(***************************************************************************)
(* What the policy handlers guarantee for any number of them, of policies  *)
(* and of vaults.  All of it follows from TypeOK and LifecycleInv.         *)
(***************************************************************************)
EXTENDS PolicyLifecycle, TLAPS

\* A row has its provenance, and its policy is one of its versions.
RowsInv ==
    \A i \in Ids : Exists(i) =>
        /\ Provenance(i, rows[i])
        /\ rows[i].policy \in versions[i]

\* What a handler carries from its checks to its write.
HandlersInv ==
    \A r \in Requests :
        /\ pc[r] = "write" => signature[r] = Message(policy[r])
        /\ pc[r] \in {"verify", "write"} /\ r \in Removals => policy[r] \in versions[id[r]]
        /\ pc[r] # "done" => answer[r] = "none"

\* A creation that is to record its event is the only one of its id, and no
\* event of that id is stored yet.
RecordsInv ==
    /\ \A i \in Ids :
          /\ created[i] <= 1
          /\ ~Exists(i) => created[i] = 0
    /\ \A r \in Requests : pc[r] = "record" => Exists(id[r]) /\ created[id[r]] = 0
    /\ \A q, r \in Requests :
          pc[q] = "record" /\ pc[r] = "record" /\ id[q] = id[r] => q = r

LifecycleInv == RowsInv /\ HandlersInv /\ RecordsInv /\ DeletionWasSigned

-----------------------------------------------------------------------------
\* The columns an update writes (policy.sql.go, UpdatePluginPolicy).
LEMMA SetPolicyColumns ==
    ASSUME NEW r \in Requests, NEW row \in Row, policy[r] \in Policy,
           signature[r] \in Signature
    PROVE  /\ SetPolicy(r, row) \in Row
           /\ SetPolicy(r, row).policy.vault = row.policy.vault
           /\ SetPolicy(r, row).policy.content = policy[r].content
           /\ SetPolicy(r, row).signature = signature[r]
           /\ SetPolicy(r, row).deleted = row.deleted
<1>1. row.policy \in Policy
  BY DEF Row
<1>2. [row.policy EXCEPT !.content = policy[r].content] \in Policy
  BY <1>1 DEF Policy
<1> QED
  BY <1>1, <1>2 DEF SetPolicy, Row, Policy

\* What an owner signs is a signature.
LEMMA MessageIsSignature ==
    ASSUME NEW p \in Policy
    PROVE  Message(p) \in Signature /\ Message(p) # Forged
BY PolicyLifecycleAssumption DEF Policy, Message, Signature

\* Type correctness of the handlers and the table.
THEOREM TypeCorrect == Spec => []TypeOK
<1>1. Init => TypeOK
  <2> SUFFICES ASSUME Init PROVE TypeOK
    OBVIOUS
  <2>1. (CHOOSE i \in Ids : TRUE) \in Ids
    BY PolicyLifecycleAssumption
  <2>2. (CHOOSE p \in Policy : TRUE) \in Policy
    <3>1. PICK v \in Vaults, t \in Contents : TRUE
      BY PolicyLifecycleAssumption
    <3>2. [vault |-> v, content |-> t] \in Policy
      BY DEF Policy
    <3> QED
      BY <3>2
  <2>3. Forged \in Signature
    BY DEF Signature
  <2> QED
    BY <2>1, <2>2, <2>3 DEF Init, TypeOK
<1>2. TypeOK /\ [Next]_vars => TypeOK'
  <2> SUFFICES ASSUME TypeOK, [Next]_vars PROVE TypeOK'
    OBVIOUS
  <2> USE DEF TypeOK, Goto, Answer, TableUnchanged, requestVars
  <2>1. ASSUME NEW r \in Requests, Arrive(r) PROVE TypeOK'
    <3>1. PICK i \in Ids : id' = [id EXCEPT ![r] = i]
      BY <2>1 DEF Arrive
    <3>2. CASE r \in Removals
      BY <2>1, <3>1, <3>2 DEF Arrive
    <3>3. CASE r \notin Removals
      <4>1. PICK p \in Policy, forged \in BOOLEAN :
              /\ policy' = [policy EXCEPT ![r] = p]
              /\ signature' = [signature EXCEPT ![r] = IF forged THEN Forged ELSE Message(p)]
        BY <2>1, <3>3 DEF Arrive
      <4>2. Message(p) \in Signature /\ Forged \in Signature
        BY MessageIsSignature DEF Signature
      <4> QED
        BY <2>1, <3>1, <3>3, <4>1, <4>2 DEF Arrive
    <3> QED
      BY <3>2, <3>3
  <2>2. ASSUME NEW r \in Requests, ReadPolicy(r) PROVE TypeOK'
    <3>1. rows[id[r]].policy \in Policy
      BY <2>2 DEF ReadPolicy, Exists, Row
    <3> QED
      BY <2>2, <3>1 DEF ReadPolicy
  <2>3. ASSUME NEW r \in Requests, ReadPolicyFails(r) \/ Deny(r) \/ WriteFails(r) PROVE TypeOK'
    BY <2>3 DEF ReadPolicyFails, Deny, WriteFails
  <2>4. ASSUME NEW r \in Requests, Verify(r) PROVE TypeOK'
    BY <2>4 DEF Verify
  <2>5. ASSUME NEW r \in Requests, InsertPolicy(r) PROVE TypeOK'
    <3>1. NewRow(r) \in Row
      BY DEF NewRow, Row
    <3>2. rows' \in [Ids -> Row \cup {NoRow}] /\ versions' \in [Ids -> SUBSET Policy]
      BY <2>5, <3>1 DEF InsertPolicy
    <3> QED
      BY <2>5, <3>2 DEF InsertPolicy
  <2>6. ASSUME NEW r \in Requests, RecordCreation(r) PROVE TypeOK'
    BY <2>6 DEF RecordCreation
  <2>7. ASSUME NEW r \in Requests, RecordCreationFails(r) PROVE TypeOK'
    BY <2>7 DEF RecordCreationFails
  <2>8. ASSUME NEW r \in Requests, UpdatePolicy(r) PROVE TypeOK'
    <3>1. rows[id[r]] \in Row
      BY <2>8 DEF UpdatePolicy, Exists
    <3>2. SetPolicy(r, rows[id[r]]) \in Row
      BY <3>1, SetPolicyColumns
    <3>3. rows' = [rows EXCEPT ![id[r]] = SetPolicy(r, rows[id[r]])]
      BY <2>8 DEF UpdatePolicy
    <3>4. rows' \in [Ids -> Row \cup {NoRow}] /\ rows'[id[r]] \in Row
      BY <3>2, <3>3
    <3>5. rows'[id[r]].policy \in Policy
      BY <3>4 DEF Row
    <3>6. versions' \in [Ids -> SUBSET Policy]
      BY <2>8, <3>5 DEF UpdatePolicy
    <3> QED
      BY <2>8, <3>4, <3>6 DEF UpdatePolicy
  <2>9. ASSUME NEW r \in Requests, SoftDelete(r) PROVE TypeOK'
    <3>1. rows[id[r]] \in Row
      BY <2>9 DEF SoftDelete, Exists
    <3>2. [rows[id[r]] EXCEPT !.deleted = TRUE] \in Row
      BY <3>1 DEF Row
    <3>3. rows' \in [Ids -> Row \cup {NoRow}]
      BY <2>9, <3>2 DEF SoftDelete
    <3> QED
      BY <2>9, <3>3 DEF SoftDelete
  <2>10. ASSUME NEW v \in Vaults, VaultChange(v) PROVE TypeOK'
    BY <2>10 DEF VaultChange
  <2>11. CASE UNCHANGED vars
    BY <2>11 DEF vars
  <2>12. CASE AgentCrash
    BY <2>12 DEF AgentCrash
  <2> QED
    BY <2>1, <2>2, <2>3, <2>4, <2>5, <2>6, <2>7, <2>8, <2>9, <2>10, <2>11, <2>12
    DEF Next, Serve, HandlerStep
<1> QED
  BY <1>1, <1>2, PTL DEF Spec

-----------------------------------------------------------------------------
\* Versions are only ever added to.
LEMMA VersionsGrow ==
    ASSUME TypeOK, NEW r \in Requests, HandlerStep(r)
    PROVE  \A i \in Ids : versions[i] \subseteq versions'[i]
<1>1. CASE InsertPolicy(r)
  BY <1>1 DEF TypeOK, InsertPolicy
<1>2. CASE UpdatePolicy(r)
  BY <1>2 DEF TypeOK, UpdatePolicy
<1> QED
  BY <1>1, <1>2 DEF HandlerStep, Arrive, ReadPolicy, ReadPolicyFails, Verify, Deny,
     RecordCreation, RecordCreationFails, SoftDelete, WriteFails, TableUnchanged

\* An invariant about single requests survives a step of another request that
\* leaves alone everything the first one reads.
LEMMA OthersFrame ==
    ASSUME TypeOK, NEW r \in Requests, HandlerStep(r), NEW q \in Requests, q # r
    PROVE  /\ pc'[q] = pc[q] /\ answer'[q] = answer[q]
           /\ id'[q] = id[q] /\ policy'[q] = policy[q] /\ signature'[q] = signature[q]
BY DEF HandlerStep, Arrive, ReadPolicy, ReadPolicyFails, Verify, Deny, InsertPolicy,
   RecordCreation, RecordCreationFails, UpdatePolicy, SoftDelete, WriteFails, Goto,
   Answer, requestVars, TypeOK

\* What a request was authorized for it stays authorized for, by the same
\* signature over the same policy.
LEMMA AuthorizedStays ==
    ASSUME TypeOK, LifecycleInv, [Next]_vars
    PROVE  \A r \in Creates \cup Updates, i \in Ids : Authorized(r, i) =>
              Authorized(r, i)' /\ policy'[r] = policy[r] /\ signature'[r] = signature[r]
<1> SUFFICES ASSUME NEW r \in Creates \cup Updates, NEW i \in Ids, Authorized(r, i)
             PROVE  Authorized(r, i)' /\ policy'[r] = policy[r] /\ signature'[r] = signature[r]
  OBVIOUS
<1>0. r \in Requests /\ r \notin Removals
  BY PolicyLifecycleAssumption DEF Requests
<1>1. CASE UNCHANGED <<pc, answer, id, policy, signature>>
  BY <1>1 DEF Authorized, Message
<1>2. CASE AgentCrash
  BY <1>0, <1>2 DEF AgentCrash, requestVars, Authorized, Message
<1>3. ASSUME NEW q \in Requests, HandlerStep(q), q # r
      PROVE  Authorized(r, i)' /\ policy'[r] = policy[r] /\ signature'[r] = signature[r]
  BY <1>0, <1>3, OthersFrame DEF Authorized, Message
<1>4. CASE HandlerStep(r)
  <2>1. /\ pc[r] \in {"write", "record"} /\ answer[r] # "denied"
        /\ id[r] = i /\ signature[r] = Message(policy[r])
    BY <1>4 DEF Authorized, HandlerStep, Arrive, ReadPolicy, ReadPolicyFails, Verify, Deny,
       InsertPolicy, RecordCreation, RecordCreationFails, UpdatePolicy, SoftDelete, WriteFails
  <2>2. /\ UNCHANGED <<id, policy, signature>>
        /\ pc'[r] \in {"record", "done"}
        /\ answer'[r] \in {answer[r], "ok", "error"}
    BY <1>0, <1>4, <2>1 DEF HandlerStep, Arrive, ReadPolicy, ReadPolicyFails, Verify, Deny,
       InsertPolicy, RecordCreation, RecordCreationFails, UpdatePolicy, SoftDelete, WriteFails,
       Goto, Answer, requestVars, TypeOK
  <2> QED
    BY <2>1, <2>2 DEF Authorized, Message
<1> QED
  BY <1>1, <1>2, <1>3, <1>4 DEF Next, Serve, VaultChange, vars, requestVars

\* A row whose policy and signature stay keeps its provenance.
LEMMA ProvenanceStays ==
    ASSUME TypeOK, LifecycleInv, [Next]_vars, NEW i \in Ids, Exists(i), Exists(i)',
           rows'[i].policy = rows[i].policy, rows'[i].signature = rows[i].signature
    PROVE  Provenance(i, rows[i])'
<1>1. Provenance(i, rows[i])
  BY DEF LifecycleInv, RowsInv
<1>2. \A r \in Creates \cup Updates : Authorized(r, i) =>
         Authorized(r, i)' /\ policy'[r] = policy[r] /\ signature'[r] = signature[r]
  BY AuthorizedStays
<1> QED
  BY <1>1, <1>2 DEF Provenance

\* A handler that is to write is authorized to.
LEMMA WriterIsAuthorized ==
    ASSUME TypeOK, LifecycleInv, NEW r \in Creates \cup Updates, pc[r] = "write"
    PROVE  Authorized(r, id[r])
BY DEF LifecycleInv, HandlersInv, Authorized, Requests

\* Every statement leaves the rows of the table with their provenance.
LEMMA RowsStep ==
    ASSUME TypeOK, LifecycleInv, NEW r \in Requests, HandlerStep(r)
    PROVE  RowsInv'
<1>0. [Next]_vars /\ id[r] \in Ids
  BY DEF Next, Serve, TypeOK
<1>1. ASSUME NEW i \in Ids, Exists(i), rows'[i] = rows[i], versions[i] \subseteq versions'[i]
      PROVE  Provenance(i, rows[i])' /\ rows'[i].policy \in versions'[i]
  BY <1>0, <1>1, ProvenanceStays DEF LifecycleInv, RowsInv, Exists
<1>2. CASE InsertPolicy(r)
  <2>1. /\ r \in Creates /\ rows'[id[r]] = NewRow(r)
        /\ policy[r] \in versions'[id[r]]
    BY <1>0, <1>2 DEF InsertPolicy, TypeOK
  <2>2. \A i \in Ids : i # id[r] => rows'[i] = rows[i] /\ versions'[i] = versions[i]
    BY <1>2 DEF InsertPolicy, TypeOK
  <2>3. Authorized(r, id[r])
    BY <1>2, WriterIsAuthorized DEF InsertPolicy
  <2>4. PICK i \in Ids : i = id[r]
    BY <1>0
  <2>5. Authorized(r, i)' /\ policy'[r] = policy[r] /\ signature'[r] = signature[r]
    BY <1>0, <2>1, <2>3, <2>4, AuthorizedStays
  <2>6. Provenance(i, rows[i])'
    BY <2>1, <2>4, <2>5 DEF Provenance, NewRow
  <2> QED
    BY <1>1, <2>1, <2>2, <2>4, <2>6 DEF RowsInv, NewRow, Exists
<1>3. CASE UpdatePolicy(r)
  <2> DEFINE new == SetPolicy(r, rows[id[r]])
  <2>1. /\ r \in Updates /\ Exists(id[r]) /\ rows[id[r]] \in Row
        /\ policy[r] \in Policy /\ signature[r] \in Signature
        /\ rows' = [rows EXCEPT ![id[r]] = new]
        /\ versions' = [versions EXCEPT ![id[r]] = @ \cup {rows'[id[r]].policy}]
    BY <1>0, <1>3 DEF UpdatePolicy, TypeOK, Exists
  <2>2. /\ new.policy.vault = rows[id[r]].policy.vault
        /\ new.policy.content = policy[r].content /\ new.signature = signature[r]
    BY <2>1, SetPolicyColumns
  <2> HIDE DEF new
  <2>3. /\ rows'[id[r]] = new /\ new.policy \in versions'[id[r]]
        /\ \A i \in Ids : i # id[r] => rows'[i] = rows[i] /\ versions'[i] = versions[i]
    BY <1>0, <2>1 DEF TypeOK
  <2>4. Authorized(r, id[r])
    BY <1>3, <2>1, WriterIsAuthorized DEF UpdatePolicy
  <2>5. PICK i \in Ids : i = id[r]
    BY <1>0
  <2>6. \A q \in Creates \cup Updates : Authorized(q, i) =>
           Authorized(q, i)' /\ policy'[q] = policy[q] /\ signature'[q] = signature[q]
    BY <1>0, AuthorizedStays
  <2>7. PICK c \in Creates : Authorized(c, i) /\ rows[i].policy.vault = policy[c].vault
    BY <2>1, <2>5 DEF LifecycleInv, RowsInv, Provenance
  <2>8. Provenance(i, rows[i])'
    <3>1. Authorized(c, i)' /\ rows'[i].policy.vault = policy'[c].vault
      BY <2>2, <2>3, <2>5, <2>6, <2>7
    <3>2. /\ Authorized(r, i)' /\ rows'[i].policy.content = policy'[r].content
          /\ rows'[i].signature = signature'[r]
      BY <2>1, <2>2, <2>3, <2>4, <2>5, <2>6
    <3> QED
      BY <2>1, <3>1, <3>2 DEF Provenance
  <2> QED
    BY <1>1, <2>3, <2>5, <2>8 DEF RowsInv, Exists
<1>4. CASE SoftDelete(r)
  <2>1. Exists(id[r]) /\ rows[id[r]] \in Row /\ versions' = versions
    BY <1>0, <1>4 DEF SoftDelete, TypeOK, Exists
  <2>2. /\ rows'[id[r]] \in Row /\ rows'[id[r]].policy = rows[id[r]].policy
        /\ rows'[id[r]].signature = rows[id[r]].signature
        /\ \A i \in Ids : i # id[r] => rows'[i] = rows[i]
    BY <1>0, <1>4, <2>1 DEF SoftDelete, TypeOK, Row
  <2>3. PICK i \in Ids : i = id[r]
    BY <1>0
  <2>4. Exists(i)'
    BY <2>2, <2>3, PolicyLifecycleAssumption DEF Exists
  <2>5. Provenance(i, rows[i])'
    BY <1>0, <2>1, <2>2, <2>3, <2>4, ProvenanceStays
  <2>6. rows'[i].policy \in versions'[i]
    BY <2>1, <2>2, <2>3 DEF LifecycleInv, RowsInv
  <2> QED
    BY <1>1, <2>1, <2>2, <2>3, <2>5, <2>6 DEF RowsInv, Exists
<1>5. CASE UNCHANGED <<rows, versions>>
  BY <1>1, <1>5 DEF RowsInv, Exists
<1> QED
  BY <1>2, <1>3, <1>4, <1>5 DEF HandlerStep, Arrive, ReadPolicy, ReadPolicyFails, Verify,
     Deny, RecordCreation, RecordCreationFails, WriteFails, TableUnchanged

\* What a handler has checked still holds when it writes: another handler only
\* adds versions.
LEMMA HandlersStep ==
    ASSUME TypeOK, LifecycleInv, NEW r \in Requests, HandlerStep(r)
    PROVE  HandlersInv'
<1> USE DEF LifecycleInv
<1> DEFINE Carried(q) ==
      /\ pc[q] = "write" => signature[q] = Message(policy[q])
      /\ pc[q] \in {"verify", "write"} /\ q \in Removals => policy[q] \in versions[id[q]]
      /\ pc[q] # "done" => answer[q] = "none"
<1>1. \A q \in Requests : Carried(q)
  BY DEF HandlersInv
<1>2. ASSUME NEW q \in Requests, q # r PROVE Carried(q)'
  <2>1. /\ pc'[q] = pc[q] /\ answer'[q] = answer[q]
        /\ id'[q] = id[q] /\ policy'[q] = policy[q] /\ signature'[q] = signature[q]
    BY <1>2, OthersFrame
  <2>2. versions[id[q]] \subseteq versions'[id[q]]
    BY VersionsGrow DEF TypeOK
  <2> QED
    BY <1>1, <2>1, <2>2 DEF Message
<1>3. Carried(r)'
  <2>1. CASE Arrive(r)
    <3>1. /\ pc'[r] = IF r \in Removals THEN "read" ELSE "verify"
          /\ answer'[r] = "none"
      BY <1>1, <2>1 DEF Arrive, Goto, TypeOK
    <3> QED
      BY <3>1
  <2>2. CASE ReadPolicy(r)
    <3>1. id[r] \in Ids
      BY DEF TypeOK
    <3>2. rows[id[r]].policy \in versions[id[r]]
      BY <2>2, <3>1 DEF ReadPolicy, RowsInv
    <3>3. /\ policy'[r] = rows[id[r]].policy /\ pc'[r] = "verify"
          /\ versions' = versions /\ id' = id /\ answer'[r] = "none"
      BY <1>1, <2>2 DEF ReadPolicy, Goto, TypeOK, TableUnchanged, requestVars
    <3> QED
      BY <3>2, <3>3
  <2>3. CASE Verify(r)
    BY <1>1, <2>3 DEF Verify, Verified, Message, Goto, TypeOK, TableUnchanged, requestVars
  <2>4. CASE InsertPolicy(r)
    BY <1>1, <2>4, PolicyLifecycleAssumption DEF InsertPolicy, Goto, Answer, TypeOK, requestVars
  <2>5. CASE pc'[r] = "done"
    BY <2>5
  <2> QED
    BY <2>1, <2>2, <2>3, <2>4, <2>5 DEF HandlerStep, ReadPolicyFails, Deny,
       RecordCreation, RecordCreationFails, UpdatePolicy, SoftDelete, WriteFails,
       Answer, TypeOK
<1> QED
  BY <1>2, <1>3 DEF HandlersInv

\* Only the creation whose INSERT found no row goes on to record, and only once.
LEMMA RecordsStep ==
    ASSUME TypeOK, LifecycleInv, NEW r \in Requests, HandlerStep(r)
    PROVE  RecordsInv'
<1> USE DEF LifecycleInv
<1>0. id[r] \in Ids /\ id \in [Requests -> Ids] /\ id' \in [Requests -> Ids]
  BY DEF TypeOK, HandlerStep, Arrive, ReadPolicy, ReadPolicyFails, Verify, Deny,
     InsertPolicy, RecordCreation, RecordCreationFails, UpdatePolicy, SoftDelete,
     WriteFails, requestVars
<1>1. ASSUME NEW i \in Ids, Exists(i) PROVE Exists(i)'
  <2>1. CASE InsertPolicy(r)
    BY <1>1, <2>1 DEF InsertPolicy, Exists, TypeOK
  <2>2. CASE UpdatePolicy(r)
    <3>1. SetPolicy(r, rows[id[r]]) \in Row
      BY <2>2, SetPolicyColumns DEF UpdatePolicy, Exists, TypeOK
    <3>2. rows' = [rows EXCEPT ![id[r]] = SetPolicy(r, rows[id[r]])]
      BY <2>2 DEF UpdatePolicy
    <3> QED
      BY <1>1, <3>1, <3>2, PolicyLifecycleAssumption DEF Exists, TypeOK
  <2>3. CASE SoftDelete(r)
    <3>1. [rows[id[r]] EXCEPT !.deleted = TRUE] \in Row
      BY <2>3 DEF SoftDelete, Exists, TypeOK, Row
    <3>2. rows' = [rows EXCEPT ![id[r]] = [rows[id[r]] EXCEPT !.deleted = TRUE]]
      BY <2>3 DEF SoftDelete
    <3> QED
      BY <1>1, <3>1, <3>2, PolicyLifecycleAssumption DEF Exists, TypeOK
  <2> QED
    BY <1>1, <2>1, <2>2, <2>3 DEF HandlerStep, Arrive, ReadPolicy, ReadPolicyFails,
       Verify, Deny, RecordCreation, RecordCreationFails, WriteFails, TableUnchanged, Exists
<1>2. CASE InsertPolicy(r)
  <2>1. ~Exists(id[r]) /\ created[id[r]] = 0
    BY <1>0, <1>2 DEF InsertPolicy, RecordsInv
  <2>2. \A q \in Requests : pc[q] = "record" => id[q] # id[r]
    BY <2>1 DEF RecordsInv
  <2>3. /\ created' = created /\ id' = id
        /\ \A q \in Requests : q # r => pc'[q] = pc[q]
    BY <1>2, OthersFrame DEF InsertPolicy, requestVars
  <2>4. Exists(id[r])'
    <3>1. NewRow(r) \in Row
      BY DEF NewRow, Row, TypeOK
    <3>2. rows'[id[r]] = NewRow(r)
      BY <1>0, <1>2 DEF InsertPolicy, TypeOK
    <3> QED
      BY <2>3, <3>1, <3>2, PolicyLifecycleAssumption DEF Exists
  <2> QED
    BY <1>0, <1>1, <2>1, <2>2, <2>3, <2>4 DEF RecordsInv
<1>3. CASE RecordCreation(r)
  <2>1. Exists(id[r]) /\ created[id[r]] = 0 /\ pc[r] = "record"
    BY <1>3 DEF RecordCreation, RecordsInv
  <2>2. /\ created' = [created EXCEPT ![id[r]] = 1] /\ id' = id /\ rows' = rows
        /\ pc'[r] = "done"
        /\ \A q \in Requests : q # r => pc'[q] = pc[q]
    BY <1>3, <2>1, OthersFrame DEF RecordCreation, requestVars, Answer, TypeOK
  <2>3. \A i \in Ids : created'[i] = IF i = id[r] THEN 1 ELSE created[i]
    BY <1>0, <2>2 DEF TypeOK
  <2>4. \A q \in Requests : q # r /\ pc[q] = "record" => id[q] # id[r]
    BY <2>1 DEF RecordsInv
  <2> QED
    BY <1>0, <2>1, <2>2, <2>3, <2>4 DEF RecordsInv, Exists
<1>4. CASE created' = created /\ pc'[r] # "record"
  <2>1. \A q \in Requests : pc'[q] = "record" =>
            q # r /\ pc[q] = "record" /\ id'[q] = id[q]
    BY <1>4, OthersFrame
  <2>2. \A i \in Ids : Exists(i)' \/ ~Exists(i)
    BY <1>1
  <2> QED
    BY <1>0, <1>4, <2>1, <2>2 DEF RecordsInv
<1> QED
  BY <1>2, <1>3, <1>4 DEF HandlerStep, Arrive, ReadPolicy, ReadPolicyFails, Verify, Deny,
     RecordCreationFails, UpdatePolicy, SoftDelete, WriteFails, TableUnchanged, Goto,
     Answer, TypeOK

\* A deletion succeeds with the signature of a version of its row.
LEMMA DeletionStep ==
    ASSUME TypeOK, LifecycleInv, NEW r \in Requests, HandlerStep(r)
    PROVE  DeletionWasSigned'
<1> SUFFICES ASSUME NEW q \in Removals, answer'[q] = "ok"
             PROVE  \E p \in versions'[id'[q]] : signature'[q] = Message(p)
  BY DEF DeletionWasSigned, Message
<1>0. q \in Requests /\ id[q] \in Ids
  BY DEF Requests, TypeOK
<1>1. versions[id[q]] \subseteq versions'[id[q]]
  BY <1>0, VersionsGrow
<1>2. CASE answer[q] = "ok"
  <2>1. pc[q] = "done"
    BY <1>0, <1>2 DEF LifecycleInv, HandlersInv
  <2>2. q = r => FALSE
    BY <2>1 DEF HandlerStep, Arrive, ReadPolicy, ReadPolicyFails, Verify, Deny,
       InsertPolicy, RecordCreation, RecordCreationFails, UpdatePolicy, SoftDelete, WriteFails
  <2>3. id'[q] = id[q] /\ signature'[q] = signature[q]
    BY <1>0, <2>2, OthersFrame
  <2> QED
    BY <1>1, <1>2, <2>3 DEF LifecycleInv, DeletionWasSigned
<1>3. CASE answer[q] # "ok"
  <2>1. q = r
    BY <1>0, <1>3, OthersFrame
  <2>2. SoftDelete(r)
    BY <1>3, <2>1, PolicyLifecycleAssumption DEF HandlerStep, Arrive, ReadPolicy,
       ReadPolicyFails, Verify, Deny, InsertPolicy, RecordCreation, RecordCreationFails,
       UpdatePolicy, WriteFails, Goto, Answer, TypeOK
  <2>3. policy[q] \in versions[id[q]] /\ signature[q] = Message(policy[q])
    BY <1>0, <2>1, <2>2 DEF SoftDelete, LifecycleInv, HandlersInv
  <2> QED
    BY <2>2, <2>3 DEF SoftDelete, requestVars
<1> QED
  BY <1>2, <1>3

-----------------------------------------------------------------------------
\* The invariant the properties follow from.
THEOREM Lifecycle == Spec => []LifecycleInv
<1>1. Init => LifecycleInv
  <2> SUFFICES ASSUME Init PROVE LifecycleInv
    OBVIOUS
  <2>1. /\ \A i \in Ids : ~Exists(i) /\ created[i] = 0
        /\ \A r \in Requests : pc[r] = "idle" /\ answer[r] = "none"
    BY DEF Init, Exists
  <2>2. RowsInv /\ HandlersInv /\ RecordsInv
    BY <2>1 DEF RowsInv, HandlersInv, RecordsInv
  <2>3. DeletionWasSigned
    BY <2>1 DEF DeletionWasSigned, Requests
  <2> QED
    BY <2>2, <2>3 DEF LifecycleInv
<1>2. TypeOK /\ LifecycleInv /\ [Next]_vars => LifecycleInv'
  <2> SUFFICES ASSUME TypeOK, LifecycleInv, [Next]_vars PROVE LifecycleInv'
    OBVIOUS
  <2>1. ASSUME NEW r \in Requests, HandlerStep(r) PROVE LifecycleInv'
    BY <2>1, RowsStep, HandlersStep, RecordsStep, DeletionStep DEF LifecycleInv
  <2>2. CASE UNCHANGED <<rows, pc, answer, id, policy, signature, created, versions>>
    <3>1. RowsInv'
      BY <2>2, ProvenanceStays DEF LifecycleInv, RowsInv, Exists
    <3>2. HandlersInv' /\ RecordsInv' /\ DeletionWasSigned'
      BY <2>2 DEF LifecycleInv, HandlersInv, RecordsInv, DeletionWasSigned, Message, Exists
    <3> QED
      BY <3>1, <3>2 DEF LifecycleInv
  <2>3. CASE AgentCrash
    <3>1. /\ UNCHANGED <<rows, answer, id, policy, signature, created, versions>>
          /\ \A r \in Requests : pc'[r] \in {"idle", "done"}
                                /\ (pc'[r] # "done" => pc[r] # "done")
      BY <2>3 DEF AgentCrash, TableUnchanged, requestVars
    <3>2. RowsInv'
      BY <3>1, ProvenanceStays DEF LifecycleInv, RowsInv, Exists
    <3>3. RecordsInv' /\ DeletionWasSigned'
      BY <3>1 DEF LifecycleInv, RecordsInv, DeletionWasSigned, Message, Exists
    <3>4. HandlersInv'
      BY <3>1 DEF LifecycleInv, HandlersInv
    <3> QED
      BY <3>2, <3>3, <3>4 DEF LifecycleInv
  <2> QED
    BY <2>1, <2>2, <2>3 DEF Next, Serve, VaultChange, vars, TableUnchanged, requestVars
<1> QED
  BY <1>1, <1>2, TypeCorrect, PTL DEF Spec

\* Rows have the vault of a creation and the content of a request that verified,
\* whatever keys the requests of an id name.
THEOREM ContentsAreSigned == Spec => []ContentIsSigned
<1>1. LifecycleInv => ContentIsSigned
  BY DEF LifecycleInv, RowsInv, ContentIsSigned
<1> QED
  BY <1>1, Lifecycle, PTL

\* An id is announced as created at most once, and only with a row.
THEOREM AnnouncedOnce == Spec => []CreatedOnce
<1>1. TypeOK /\ LifecycleInv => CreatedOnce
  BY DEF TypeOK, LifecycleInv, RecordsInv, CreatedOnce
<1> QED
  BY <1>1, TypeCorrect, Lifecycle, PTL

\* A successful deletion was signed over a version of the policy.
THEOREM DeletionsAreSigned == Spec => []DeletionWasSigned
<1>1. LifecycleInv => DeletionWasSigned
  BY DEF LifecycleInv
<1> QED
  BY <1>1, Lifecycle, PTL

\* A deleted policy stays deleted.
THEOREM DeletedForGood == Spec => DeletionIsFinal
<1> DEFINE Kept == \A i \in Ids : Exists(i) =>
                       Exists(i)' /\ (rows[i].deleted => rows'[i].deleted)
<1>1. TypeOK /\ [Next]_vars => [Kept]_vars
  <2> SUFFICES ASSUME TypeOK, Next, NEW i \in Ids, Exists(i)
               PROVE  Exists(i)' /\ (rows[i].deleted => rows'[i].deleted)
    OBVIOUS
  <2>1. ASSUME NEW r \in Requests, InsertPolicy(r)
        PROVE  rows'[i] = rows[i]
    BY <2>1 DEF InsertPolicy, TypeOK, Exists
  <2>2. ASSUME NEW r \in Requests, UpdatePolicy(r)
        PROVE  rows'[i] \in Row /\ rows'[i].deleted = rows[i].deleted
    <3>1. rows[i] \in Row /\ id[r] \in Ids /\ rows[id[r]] \in Row
      BY <2>2 DEF UpdatePolicy, TypeOK, Exists
    <3>2. /\ SetPolicy(r, rows[id[r]]) \in Row
          /\ SetPolicy(r, rows[id[r]]).deleted = rows[id[r]].deleted
      BY <3>1, SetPolicyColumns DEF TypeOK
    <3>3. rows' = [rows EXCEPT ![id[r]] = SetPolicy(r, rows[id[r]])]
      BY <2>2 DEF UpdatePolicy
    <3> QED
      BY <3>1, <3>2, <3>3 DEF TypeOK
  <2>3. ASSUME NEW r \in Requests, SoftDelete(r)
        PROVE  rows'[i] \in Row /\ (rows[i].deleted => rows'[i].deleted)
    <3>1. rows[i] \in Row /\ id[r] \in Ids /\ rows[id[r]] \in Row
      BY <2>3 DEF SoftDelete, TypeOK, Exists
    <3>2. /\ [rows[id[r]] EXCEPT !.deleted = TRUE] \in Row
          /\ [rows[id[r]] EXCEPT !.deleted = TRUE].deleted
      BY <3>1 DEF Row
    <3>3. rows' = [rows EXCEPT ![id[r]] = [rows[id[r]] EXCEPT !.deleted = TRUE]]
      BY <2>3 DEF SoftDelete
    <3> QED
      BY <3>1, <3>2, <3>3 DEF TypeOK
  <2>4. rows' = rows \/ \E r \in Requests : InsertPolicy(r) \/ UpdatePolicy(r) \/ SoftDelete(r)
    BY DEF Next, Serve, HandlerStep, Arrive, ReadPolicy, ReadPolicyFails, Verify, Deny,
       RecordCreation, RecordCreationFails, WriteFails, VaultChange, AgentCrash,
       TableUnchanged
  <2> QED
    BY <2>1, <2>2, <2>3, <2>4, PolicyLifecycleAssumption DEF Exists
<1> QED
  BY <1>1, TypeCorrect, PTL DEF Spec, DeletionIsFinal

-----------------------------------------------------------------------------
(***************************************************************************)
(* Creations without an event.                                             *)
(***************************************************************************)
\* A creation answered with success has its event.
SuccessIsRecorded == \A r \in Creates : answer[r] = "ok" => created[id[r]] > 0

LEMMA SuccessStep ==
    ASSUME TypeOK, LifecycleInv, SuccessIsRecorded, NEW r \in Requests, HandlerStep(r)
    PROVE  SuccessIsRecorded'
<1> SUFFICES ASSUME NEW q \in Creates, answer'[q] = "ok" PROVE created'[id'[q]] > 0
  BY DEF SuccessIsRecorded
<1>0. q \in Requests /\ q \notin Removals /\ q \notin Updates /\ id[q] \in Ids /\ id[r] \in Ids
  BY PolicyLifecycleAssumption DEF Requests, TypeOK
<1>1. CASE RecordCreation(r)
  <2>1. created' = [created EXCEPT ![id[r]] = @ + 1] /\ id' = id
    BY <1>1 DEF RecordCreation, requestVars
  <2>2. \A i \in Ids : created[i] \in Nat /\ created'[i] = IF i = id[r] THEN created[i] + 1 ELSE created[i]
    BY <1>0, <2>1 DEF TypeOK
  <2>3. q # r => created[id[q]] > 0
    BY <1>0, OthersFrame DEF SuccessIsRecorded
  <2> QED
    BY <1>0, <2>1, <2>2, <2>3
<1>2. CASE ~RecordCreation(r)
  <2>1. created' = created
    BY <1>2 DEF HandlerStep, Arrive, ReadPolicy, ReadPolicyFails, Verify, Deny, InsertPolicy,
       RecordCreationFails, UpdatePolicy, SoftDelete, WriteFails, TableUnchanged
  <2>2. q # r
    <3>1. SUFFICES ASSUME q = r PROVE FALSE
      OBVIOUS
    <3>2. pc[r] # "done"
      BY DEF HandlerStep, Arrive, ReadPolicy, ReadPolicyFails, Verify, Deny, InsertPolicy,
         RecordCreation, RecordCreationFails, UpdatePolicy, SoftDelete, WriteFails
    <3>3. answer[r] = "none"
      BY <3>2 DEF LifecycleInv, HandlersInv
    <3> QED
      BY <1>0, <1>2, <3>1, <3>3 DEF HandlerStep, Arrive, ReadPolicy, ReadPolicyFails, Verify,
         Deny, InsertPolicy, RecordCreationFails, UpdatePolicy, SoftDelete, WriteFails, Goto,
         Answer, TypeOK
  <2> QED
    BY <1>0, <2>1, <2>2, OthersFrame DEF SuccessIsRecorded
<1> QED
  BY <1>1, <1>2

\* A handler step loses no cause: the creation that stored the policy goes on to
\* record it, or answers an error.
LEMMA CauseStep ==
    ASSUME TypeOK, LifecycleInv, UnrecordedHasCause, NEW r \in Requests, HandlerStep(r),
           NEW i \in Ids, Exists(i)', created'[i] = 0
    PROVE  \E q \in Creates :
              /\ id'[q] = i
              /\ pc'[q] = "record" \/ (pc'[q] = "done" /\ answer'[q] \in {"error", "none"})
<1>0. id[r] \in Ids /\ Creates \subseteq Requests
  BY DEF TypeOK, Requests
<1>1. CASE InsertPolicy(r) /\ id[r] = i
  <2>1. r \in Creates /\ id' = id
    BY <1>1 DEF InsertPolicy, requestVars
  <2>2. pc'[r] = "record" \/ (pc'[r] = "done" /\ answer'[r] = "error")
    BY <1>1 DEF InsertPolicy, Goto, Answer, TypeOK
  <2> QED
    BY <1>1, <2>1, <2>2
<1>2. CASE ~(InsertPolicy(r) /\ id[r] = i)
  <2>1. Exists(i) /\ created[i] = 0
    <3>1. CASE InsertPolicy(r)
      BY <1>0, <1>2, <3>1 DEF InsertPolicy, Exists, TypeOK
    <3>2. CASE RecordCreation(r)
      <4>1. created'[i] = IF i = id[r] THEN created[i] + 1 ELSE created[i]
        BY <1>0, <3>2 DEF RecordCreation, TypeOK
      <4>2. created[i] \in Nat
        BY DEF TypeOK
      <4> QED
        BY <3>2, <4>1, <4>2 DEF RecordCreation, Exists
    <3>3. CASE UpdatePolicy(r) \/ SoftDelete(r)
      BY <1>0, <3>3 DEF UpdatePolicy, SoftDelete, Exists, TypeOK
    <3> QED
      BY <3>1, <3>2, <3>3 DEF HandlerStep, Arrive, ReadPolicy, ReadPolicyFails, Verify,
         Deny, RecordCreationFails, WriteFails, TableUnchanged, Exists
  <2>2. PICK q \in Creates :
           /\ id[q] = i
           /\ pc[q] = "record" \/ (pc[q] = "done" /\ answer[q] \in {"error", "none"})
    BY <2>1 DEF UnrecordedHasCause
  <2>3. CASE q # r
    BY <1>0, <2>2, <2>3, OthersFrame
  <2>4. CASE q = r
    <3>1. pc[r] = "record"
      BY <2>2, <2>4 DEF HandlerStep, Arrive, ReadPolicy, ReadPolicyFails, Verify, Deny,
         InsertPolicy, RecordCreation, RecordCreationFails, UpdatePolicy, SoftDelete, WriteFails
    <3>2. RecordCreation(r) \/ RecordCreationFails(r)
      BY <3>1 DEF HandlerStep, Arrive, ReadPolicy, ReadPolicyFails, Verify, Deny,
         InsertPolicy, UpdatePolicy, SoftDelete, WriteFails
    <3>3. ~RecordCreation(r)
      BY <1>0, <2>1, <2>2, <2>4 DEF RecordCreation, TypeOK
    <3>4. pc'[r] = "done" /\ answer'[r] = "error" /\ id' = id
      BY <3>2, <3>3 DEF RecordCreationFails, Answer, TypeOK, requestVars
    <3> QED
      BY <2>2, <2>4, <3>4
  <2> QED
    BY <2>3, <2>4
<1> QED
  BY <1>1, <1>2

\* A policy stored without its event was announced to no client as created, and has
\* a creation that is still recording it, died, or answered an error.
THEOREM MissingEventsHaveACause == Spec => []UnrecordedHasCause
<1> DEFINE Inv == SuccessIsRecorded /\ UnrecordedHasCause
<1>1. Init => Inv
  BY DEF Init, SuccessIsRecorded, UnrecordedHasCause, Exists, Requests
<1>2. TypeOK /\ TypeOK' /\ LifecycleInv /\ Inv /\ [Next]_vars => Inv'
  <2> SUFFICES ASSUME TypeOK, TypeOK', LifecycleInv, Inv, [Next]_vars
               PROVE  Inv'
    OBVIOUS
  <2>1. ASSUME NEW r \in Requests, HandlerStep(r) PROVE Inv'
    <3>1. SuccessIsRecorded'
      BY <2>1, SuccessStep
    <3>2. \A i \in Ids, q \in Creates : created'[i] = 0 /\ id'[q] = i => answer'[q] # "ok"
      BY <3>1 DEF SuccessIsRecorded
    <3> QED
      BY <2>1, <3>1, <3>2, CauseStep DEF UnrecordedHasCause
  <2>2. CASE UNCHANGED <<rows, pc, answer, id, created>>
    BY <2>2 DEF SuccessIsRecorded, UnrecordedHasCause, Exists
  <2>3. CASE AgentCrash
    <3>1. /\ UNCHANGED <<rows, answer, id, created>>
          /\ \A r \in Creates : pc[r] # "idle" => pc'[r] = "done"
      BY <2>3 DEF AgentCrash, TableUnchanged, requestVars, Requests
    <3>2. \A r \in Creates : pc[r] # "done" => answer[r] = "none"
      BY DEF LifecycleInv, HandlersInv, Requests
    <3> QED
      BY <3>1, <3>2 DEF SuccessIsRecorded, UnrecordedHasCause, Exists
  <2> QED
    BY <2>1, <2>2, <2>3 DEF Next, Serve, VaultChange, vars, TableUnchanged, requestVars
<1> HIDE DEF Inv
<1>3. Inv => UnrecordedHasCause
  BY DEF Inv
<1> QED
  BY <1>1, <1>2, <1>3, TypeCorrect, Lifecycle, PTL DEF Spec

-----------------------------------------------------------------------------
(***************************************************************************)
(* The handlers implement the signed book.                                 *)
(***************************************************************************)
\* A request that has not arrived has shown no signature.
NothingShown == \A r \in Requests : pc[r] = "idle" => signature[r] = Forged

LEMMA NothingShownStep ==
    ASSUME TypeOK, NothingShown, [Next]_vars
    PROVE  NothingShown'
<1>1. ASSUME NEW r \in Requests, HandlerStep(r) PROVE NothingShown'
  <2>1. pc'[r] # "idle"
    BY <1>1 DEF HandlerStep, Arrive, ReadPolicy, ReadPolicyFails, Verify, Deny,
       InsertPolicy, RecordCreation, RecordCreationFails, UpdatePolicy, SoftDelete,
       WriteFails, Goto, Answer, TypeOK
  <2> QED
    BY <1>1, <2>1, OthersFrame DEF NothingShown
<1>2. CASE AgentCrash
  BY <1>2 DEF AgentCrash, NothingShown, requestVars
<1>3. CASE UNCHANGED <<pc, signature>>
  BY <1>3 DEF NothingShown
<1> QED
  BY <1>1, <1>2, <1>3 DEF Next, Serve, VaultChange, requestVars, vars

THEOREM NothingIsShownEarly == Spec => []NothingShown
<1>1. Init => NothingShown
  BY DEF Init, NothingShown
<1>2. QED
  BY <1>1, NothingShownStep, TypeCorrect, PTL DEF Spec

\* The book a state stands for: the substitutions of Book.
Shown   == {signature[r] : r \in Requests} \ {Forged}
Current == [i \in Ids |-> IF Exists(i) THEN rows[i].policy ELSE NoRow]
Retired == {i \in Ids : Exists(i) /\ rows[i].deleted}

\* A request that is to write has shown the message of what it carries.
LEMMA WrittenIsShown ==
    ASSUME TypeOK, LifecycleInv, NEW r \in Requests, pc[r] = "write"
    PROVE  /\ policy[r] \in Policy /\ signature[r] = Message(policy[r])
           /\ signature[r] \in Book!Messages /\ signature[r] \in Shown
<1>1. policy[r] \in Policy /\ signature[r] = Message(policy[r])
  BY DEF LifecycleInv, HandlersInv, TypeOK
<1>2. Message(policy[r]) \in Book!Messages /\ Message(policy[r]) # Forged
  BY <1>1, PolicyLifecycleAssumption DEF Book!Messages, Message, Policy
<1> QED
  BY <1>1, <1>2 DEF Shown

\* An arrival shows a signature, or none.
LEMMA ArrivalSigns ==
    ASSUME TypeOK, NothingShown, NEW r \in Requests, Arrive(r)
    PROVE  UNCHANGED Shown \/ \E m \in Book!Messages : Shown' = Shown \cup {m}
<1>1. PICK s \in Signature : signature' = [signature EXCEPT ![r] = s]
  <2>1. CASE r \in Removals
    BY <2>1 DEF Arrive
  <2>2. CASE r \notin Removals
    <3>1. PICK p \in Policy, forged \in BOOLEAN :
            signature' = [signature EXCEPT ![r] = IF forged THEN Forged ELSE Message(p)]
      BY <2>2 DEF Arrive
    <3>2. Forged \in Signature /\ Message(p) \in Signature
      BY MessageIsSignature DEF Signature
    <3> QED
      BY <3>1, <3>2
  <2> QED
    BY <2>1, <2>2
<1>2. signature[r] = Forged
  BY DEF Arrive, NothingShown
<1>3. Shown' = Shown \cup ({s} \ {Forged})
  BY <1>1, <1>2 DEF Shown, TypeOK
<1> QED
  BY <1>3 DEF Signature, Book!Messages

\* A row that changes is the only policy of the book that does.
LEMMA CurrentUpdate ==
    ASSUME NEW j \in Ids, NEW p, Exists(j)', rows'[j].policy = p,
           \A i \in Ids : i # j => rows'[i] = rows[i]
    PROVE  Current' = [Current EXCEPT ![j] = p]
<1>1. \A i \in Ids : i # j => (Exists(i)' <=> Exists(i))
  BY DEF Exists
<1>2. \A i \in Ids : Current'[i] = IF i = j THEN p ELSE Current[i]
  BY <1>1 DEF Current
<1>3. /\ Current = [i \in Ids |-> Current[i]]
      /\ Current' = [i \in Ids |-> Current'[i]]
  BY DEF Current
<1> HIDE DEF Current
<1> QED
  BY <1>2, <1>3

\* A creation enters a policy under an id that had none.
LEMMA InsertPuts ==
    ASSUME TypeOK, LifecycleInv, NEW r \in Requests, InsertPolicy(r)
    PROVE  /\ Current' = [Current EXCEPT ![id[r]] = policy[r]]
           /\ versions' = [versions EXCEPT ![id[r]] = @ \cup {policy[r]}]
           /\ UNCHANGED <<Shown, Retired>>
<1>1. id[r] \in Ids /\ NewRow(r) \in Row
  BY DEF TypeOK, NewRow, Row
<1>2. /\ rows' = [rows EXCEPT ![id[r]] = NewRow(r)] /\ ~Exists(id[r])
      /\ versions' = [versions EXCEPT ![id[r]] = @ \cup {policy[r]}]
      /\ signature' = signature
  BY DEF InsertPolicy, requestVars
<1>3. \A i \in Ids : rows'[i] = IF i = id[r] THEN NewRow(r) ELSE rows[i]
  BY <1>1, <1>2 DEF TypeOK
<1>4. \A i \in Ids : Exists(i)' <=> (i = id[r] \/ Exists(i))
  BY <1>1, <1>2, <1>3, PolicyLifecycleAssumption DEF Exists
<1>5. NewRow(r).policy = policy[r] /\ NewRow(r).deleted = FALSE
  BY DEF NewRow
<1>6. Current' = [Current EXCEPT ![id[r]] = policy[r]]
  BY <1>1, <1>3, <1>4, <1>5, CurrentUpdate
<1>7. Retired' = Retired
  BY <1>1, <1>2, <1>3, <1>4, <1>5 DEF Retired
<1> QED
  BY <1>2, <1>6, <1>7 DEF Shown

\* An update replaces the content of its id by the one it carries, and neither
\* deletes it nor brings it back.
LEMMA UpdatePuts ==
    ASSUME TypeOK, LifecycleInv, NEW r \in Requests, UpdatePolicy(r),
           NEW p, p = [vault |-> rows[id[r]].policy.vault, content |-> policy[r].content]
    PROVE  /\ Current' = [Current EXCEPT ![id[r]] = p]
           /\ versions' = [versions EXCEPT ![id[r]] = @ \cup {p}]
           /\ UNCHANGED <<Shown, Retired>>
<1> DEFINE new == SetPolicy(r, rows[id[r]])
<1>1. /\ id[r] \in Ids /\ policy[r] \in Policy /\ signature[r] \in Signature
      /\ rows[id[r]] \in Row /\ Exists(id[r]) /\ signature' = signature
      /\ rows' = [rows EXCEPT ![id[r]] = new]
      /\ versions' = [versions EXCEPT ![id[r]] = @ \cup {rows'[id[r]].policy}]
  BY DEF TypeOK, UpdatePolicy, Exists, requestVars
<1>2. new \in Row /\ new.policy.vault = rows[id[r]].policy.vault
      /\ new.policy.content = policy[r].content /\ new.deleted = rows[id[r]].deleted
  BY <1>1, SetPolicyColumns
<1> HIDE DEF new
<1>4. new.policy = p
  <2>1. new.policy \in Policy
    BY <1>2 DEF Row
  <2> QED
    BY <1>2, <2>1 DEF Policy
<1>5. \A i \in Ids : rows'[i] = IF i = id[r] THEN new ELSE rows[i]
  BY <1>1 DEF TypeOK
<1>6. \A i \in Ids : Exists(i)' <=> Exists(i)
  BY <1>1, <1>2, <1>5, PolicyLifecycleAssumption DEF Exists
<1>7. Current' = [Current EXCEPT ![id[r]] = p]
  BY <1>1, <1>4, <1>5, <1>6, CurrentUpdate
<1>8. Retired' = Retired
  BY <1>1, <1>2, <1>5, <1>6 DEF Retired
<1>9. versions' = [versions EXCEPT ![id[r]] = @ \cup {p}]
  BY <1>1, <1>4, <1>5
<1>10. Shown' = Shown
  BY <1>1 DEF Shown
<1> QED
  BY <1>7, <1>8, <1>9, <1>10

\* A deletion retires its id and touches no policy.
LEMMA DeletionRetires ==
    ASSUME TypeOK, NEW r \in Requests, SoftDelete(r)
    PROVE  Retired' = Retired \cup {id[r]} /\ UNCHANGED <<Shown, Current, versions>>
<1> DEFINE new == [rows[id[r]] EXCEPT !.deleted = TRUE]
<1>1. /\ id[r] \in Ids /\ rows[id[r]] \in Row /\ Exists(id[r])
      /\ rows' = [rows EXCEPT ![id[r]] = new] /\ UNCHANGED <<signature, versions>>
  BY DEF TypeOK, SoftDelete, Exists, requestVars
<1>2. new \in Row /\ new.policy = rows[id[r]].policy /\ new.deleted
  BY <1>1 DEF Row
<1> HIDE DEF new
<1>3. \A i \in Ids : rows'[i] = IF i = id[r] THEN new ELSE rows[i]
  BY <1>1 DEF TypeOK
<1>4. \A i \in Ids : Exists(i)' <=> Exists(i)
  BY <1>1, <1>2, <1>3, PolicyLifecycleAssumption DEF Exists
<1>5. Current' = Current
  BY <1>1, <1>2, <1>3, <1>4 DEF Current
<1>6. Retired' = Retired \cup {id[r]}
  BY <1>1, <1>2, <1>3, <1>4 DEF Retired
<1> QED
  BY <1>1, <1>5, <1>6 DEF Shown

\* The handlers are a book of signed policies: every step signs a message, opens,
\* revises or retires an entry, or changes nothing a reader of the book sees.
THEOREM HandlersImplementBook == Spec => BookSpec
<1>1. Init => Book!Init
  <2> SUFFICES ASSUME Init PROVE Book!Init
    OBVIOUS
  <2>1. \A i \in Ids : ~Exists(i)
    BY DEF Init, Exists
  <2> QED
    BY <2>1 DEF Init, Book!Init
<1>2. TypeOK /\ LifecycleInv /\ NothingShown /\ [Next]_vars => [Book!Next]_(Book!bookVars)
  <2> SUFFICES ASSUME TypeOK, LifecycleInv, NothingShown, [Next]_vars
               PROVE  Book!Next \/ UNCHANGED <<Shown, Current, versions, Retired>>
    BY DEF Book!bookVars, Shown, Current, Retired
  <2>1. ASSUME NEW r \in Requests, Arrive(r)
        PROVE  Book!Next \/ UNCHANGED <<Shown, Current, versions, Retired>>
    <3>1. UNCHANGED <<Current, versions, Retired>>
      BY <2>1 DEF Arrive, TableUnchanged, Current, Retired, Exists
    <3>2. ASSUME NEW m \in Book!Messages, Shown' = Shown \cup {m} PROVE Book!Sign(m)
      BY <3>1, <3>2 DEF Book!Sign, Shown, Current, Retired
    <3> QED
      BY <2>1, <3>1, <3>2, ArrivalSigns DEF Book!Next
  <2>2. ASSUME NEW r \in Requests, InsertPolicy(r)
        PROVE  Book!Next
    <3>1. /\ policy[r] \in Policy /\ id[r] \in Ids /\ ~Exists(id[r])
          /\ Message(policy[r]) \in Shown
      BY <2>2, WrittenIsShown DEF InsertPolicy, TypeOK
    <3>2. PICK i \in Ids, p \in Book!Policies : i = id[r] /\ p = policy[r]
      BY <3>1 DEF Policy, Book!Policies
    <3>3. /\ Current' = [Current EXCEPT ![i] = p]
          /\ versions' = [versions EXCEPT ![i] = @ \cup {p}]
          /\ UNCHANGED <<Shown, Retired>>
      BY <2>2, <3>2, InsertPuts
    <3>4. Current[i] = NoRow /\ Book!OwnersMessage(p) \in Shown
      BY <3>1, <3>2 DEF Current, Message, Book!OwnersMessage
    <3>5. Book!Open(i, p)
      BY <3>3, <3>4 DEF Book!Open, Book!Put, Shown, Current, Retired
    <3> QED
      BY <3>5 DEF Book!Next
  <2>5. ASSUME NEW r \in Requests, UpdatePolicy(r)
        PROVE  Book!Next
    <3>1. /\ id[r] \in Ids /\ Exists(id[r]) /\ rows[id[r]] \in Row
          /\ signature[r] = Message(policy[r])
          /\ signature[r] \in Book!Messages /\ signature[r] \in Shown
      BY <2>5, WrittenIsShown DEF UpdatePolicy, TypeOK, Exists
    <3>2. PICK i, m, p :
            /\ i \in Ids /\ i = id[r] /\ m \in Book!Messages /\ m = signature[r]
            /\ p = [vault |-> rows[id[r]].policy.vault, content |-> policy[r].content]
      BY <3>1
    <3>3. /\ Current' = [Current EXCEPT ![i] = p]
          /\ versions' = [versions EXCEPT ![i] = @ \cup {p}]
          /\ UNCHANGED <<Shown, Retired>>
      BY <2>5, <3>2, UpdatePuts
    <3>4. /\ Current[i] # NoRow
          /\ p = [vault |-> Current[i].vault, content |-> m.content]
      <4>1. Current[i] = rows[i].policy /\ m.content = policy[r].content
        BY <3>1, <3>2 DEF Current, Message
      <4>2. rows[i].policy # NoRow
        BY <3>1, <3>2, PolicyLifecycleAssumption DEF Row
      <4> QED
        BY <3>2, <4>1, <4>2
    <3>5. m \in Shown
      BY <3>1, <3>2
    <3>6. Book!Revise(i, m)
      BY <3>3, <3>4, <3>5 DEF Book!Revise, Book!Put, Shown, Current, Retired
    <3> QED
      BY <3>2, <3>6 DEF Book!Next
  <2>3. ASSUME NEW r \in Requests, SoftDelete(r)
        PROVE  Book!Next
    <3>1. pc[r] = "write" /\ r \in Removals /\ id[r] \in Ids
      BY <2>3 DEF SoftDelete, TypeOK
    <3>2. PICK i \in Ids : i = id[r]
      BY <3>1
    <3>3. policy[r] \in versions[i] /\ Message(policy[r]) \in Shown
      BY <3>1, <3>2, WrittenIsShown DEF LifecycleInv, HandlersInv
    <3>4. \E p \in versions[i] : Book!OwnersMessage(p) \in Shown
      BY <3>3 DEF Message, Book!OwnersMessage
    <3>5. Book!Retire(i)
      BY <2>3, <3>2, <3>4, DeletionRetires DEF Book!Retire, Shown, Current, Retired
    <3> QED
      BY <3>5 DEF Book!Next
  <2>4. CASE UNCHANGED <<rows, versions, signature>>
    BY <2>4 DEF Shown, Current, Retired, Exists
  <2> QED
    BY <2>1, <2>2, <2>3, <2>4, <2>5
    DEF Next, Serve, HandlerStep, ReadPolicy, ReadPolicyFails, Verify, Deny, RecordCreation,
        RecordCreationFails, WriteFails, VaultChange, AgentCrash, TableUnchanged,
        requestVars, vars
<1> QED
  BY <1>1, <1>2, TypeCorrect, Lifecycle, NothingIsShownEarly, PTL
  DEF Spec, BookSpec, Book!Spec

=============================================================================
