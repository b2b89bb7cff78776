--------------------------- MODULE PolicyLifecycle ---------------------------
(***************************************************************************)
(* Creating, updating and deleting plugin policies: the handlers of        *)
(* src/api/plugin.go over the policy service and the plugin_policies       *)
(* table.  A handler verifies a signature against the vault of the policy, *)
(* writes the table with one statement, and a creation then records an     *)
(* event with a second one: no transaction joins them, so handlers         *)
(* interleave between their calls and any call may fail.                   *)
(*                                                                         *)
(* A policy names a vault (a public key and a plugin) and has a content,   *)
(* which stands for recipe, policy version and plugin version.  What is    *)
(* signed is the key and the content: neither the plugin nor the id.       *)
(***************************************************************************)
EXTENDS Integers

CONSTANTS
    Creates, Updates, Removals,     \* executions of the three handlers
    Ids,            \* policy ids; the nil id, used when none is given, is one
    Vaults,         \* what a policy is for: a public key and a plugin
    Keys, KeyOf,    \* public keys; the one of a vault
    Contents,       \* what a policy may say
    Parsable,       \* contents whose recipe types.FromPluginPolicy can decode
    NoRow, Forged   \* no row; a signature that verifies nothing

Requests == Creates \cup Updates \cup Removals

Policy == [vault : Vaults, content : Contents]

\* PolicyToMessageHex: what the owner of a policy's key signs.
Message(p) == [key |-> KeyOf[p.vault], content |-> p.content]

\* A signature is the message it verifies for, under the key it names.
Signature == [key : Keys, content : Contents] \cup {Forged}

Row == [policy : Policy, signature : Signature, deleted : BOOLEAN]

ASSUME PolicyLifecycleAssumption ==
    /\ Creates \cap Updates = {} /\ Creates \cap Removals = {}
    /\ Updates \cap Removals = {}
    /\ KeyOf \in [Vaults -> Keys]
    /\ Ids # {} /\ Vaults # {} /\ Contents # {}
    /\ Parsable \subseteq Contents
    /\ NoRow \notin Row \cup Policy
    /\ Forged \notin [key : Keys, content : Contents]

VARIABLES
    rows,       \* the plugin_policies table
    vaults,     \* vaults whose backup can be read
    pc,         \* where the handler of a request is
    answer,     \* what the client has been told
    id,         \* the policy id of a request
    policy,     \* the policy of a request; for a deletion, the one it read
    signature,  \* the signature of a request
    created,    \* created[i]: policy_created events of id i
    versions    \* history: the policies the row of an id has held

requestVars == <<id, signature>>

vars == <<rows, vaults, pc, answer, policy, requestVars, created, versions>>

TypeOK ==
    /\ rows \in [Ids -> Row \cup {NoRow}]
    /\ vaults \in SUBSET Vaults
    /\ pc \in [Requests -> {"idle", "read", "verify", "write", "record", "done"}]
    /\ answer \in [Requests -> {"none", "ok", "denied", "error"}]
    /\ id \in [Requests -> Ids]
    /\ policy \in [Requests -> Policy]
    /\ signature \in [Requests -> Signature]
    /\ created \in [Ids -> Nat]
    /\ versions \in [Ids -> SUBSET Policy]
    /\ \A r \in Requests : pc[r] = "record" => r \in Creates

Init ==
    /\ rows = [i \in Ids |-> NoRow]
    /\ vaults \in SUBSET Vaults
    /\ pc = [r \in Requests |-> "idle"]
    /\ answer = [r \in Requests |-> "none"]
    /\ id = [r \in Requests |-> CHOOSE i \in Ids : TRUE]
    /\ policy = [r \in Requests |-> CHOOSE p \in Policy : TRUE]
    /\ signature = [r \in Requests |-> Forged]
    /\ created = [i \in Ids |-> 0]
    /\ versions = [i \in Ids |-> {}]

Exists(i) == rows[i] # NoRow

Goto(r, where) == pc' = [pc EXCEPT ![r] = where] /\ UNCHANGED answer

Answer(r, how) ==
    /\ pc' = [pc EXCEPT ![r] = "done"]
    /\ answer' = [answer EXCEPT ![r] = how]

TableUnchanged == UNCHANGED <<rows, created, versions>>

-----------------------------------------------------------------------------
\* A well-formed request reaches its handler, with whatever id, policy and
\* signature the client sends; a deletion has no policy of its own.
Arrive(r) ==
    /\ pc[r] = "idle"
    /\ \E i \in Ids : id' = [id EXCEPT ![r] = i]
    /\ IF r \in Removals
       THEN /\ Goto(r, "read")
            /\ UNCHANGED policy
            /\ \E s \in Signature : signature' = [signature EXCEPT ![r] = s]
       ELSE /\ Goto(r, "verify")
            /\ \E p \in Policy, forged \in BOOLEAN :
                 /\ policy' = [policy EXCEPT ![r] = p]
                 /\ signature' = [signature EXCEPT ![r] = IF forged THEN Forged ELSE Message(p)]
    /\ UNCHANGED vaults /\ TableUnchanged

\* GetPluginPolicy: the row of the id, deleted or not.
ReadPolicy(r) ==
    /\ pc[r] = "read"
    /\ Exists(id[r])
    /\ policy' = [policy EXCEPT ![r] = rows[id[r]].policy]
    /\ Goto(r, "verify")
    /\ UNCHANGED <<vaults, requestVars>> /\ TableUnchanged

\* No such row, or the query fails.
ReadPolicyFails(r) ==
    /\ pc[r] = "read"
    /\ Answer(r, "error")
    /\ UNCHANGED <<vaults, policy, requestVars>> /\ TableUnchanged

\* Faulty variant of Verify: the signature is not looked at.
VerifyNothing(r) ==
    /\ pc[r] = "verify"
    /\ Goto(r, "write")
    /\ UNCHANGED <<vaults, policy, requestVars>> /\ TableUnchanged

\* verifyPolicySignature: the vault that the policy names must be readable, and
\* the signature be that of its key over the policy's message.
Verified(r) == policy[r].vault \in vaults /\ signature[r] = Message(policy[r])

Verify(r) ==
    /\ pc[r] = "verify"
    /\ Verified(r)
    /\ Goto(r, "write")
    /\ UNCHANGED <<vaults, policy, requestVars>> /\ TableUnchanged

\* Reading the vault may fail even when it exists.
Deny(r) ==
    /\ pc[r] = "verify"
    /\ Answer(r, "denied")
    /\ UNCHANGED <<vaults, policy, requestVars>> /\ TableUnchanged

NewRow(r) == [policy |-> policy[r], signature |-> signature[r], deleted |-> FALSE]

\* Faulty variant of InsertPolicy: a row of the same id is overwritten.
Upsert(r) ==
    /\ r \in Creates
    /\ pc[r] = "write"
    /\ rows' = [rows EXCEPT ![id[r]] = NewRow(r)]
    /\ versions' = [versions EXCEPT ![id[r]] = @ \cup {policy[r]}]
    /\ IF policy[r].content \in Parsable THEN Goto(r, "record") ELSE Answer(r, "error")
    /\ UNCHANGED <<vaults, policy, requestVars, created>>

\* INSERT; the recipe is decoded only after it.  This statement, like every
\* other, may also take effect although an error is returned.
InsertPolicy(r) ==
    /\ r \in Creates
    /\ pc[r] = "write"
    /\ ~Exists(id[r])
    /\ rows' = [rows EXCEPT ![id[r]] = NewRow(r)]
    /\ versions' = [versions EXCEPT ![id[r]] = @ \cup {policy[r]}]
    /\ \/ policy[r].content \in Parsable /\ Goto(r, "record")
       \/ Answer(r, "error")
    /\ UNCHANGED <<vaults, policy, requestVars, created>>

\* InsertEvent.
RecordCreation(r) ==
    /\ pc[r] = "record"
    /\ created' = [created EXCEPT ![id[r]] = @ + 1]
    /\ \E how \in {"ok", "error"} : Answer(r, how)
    /\ UNCHANGED <<rows, versions, vaults, policy, requestVars>>

\* Faulty variant of RecordCreationFails: the error is only logged.
RecordCreationUnnoticed(r) ==
    /\ pc[r] = "record"
    /\ Answer(r, "ok")
    /\ UNCHANGED <<vaults, policy, requestVars>> /\ TableUnchanged

RecordCreationFails(r) ==
    /\ pc[r] = "record"
    /\ Answer(r, "error")
    /\ UNCHANGED <<vaults, policy, requestVars>> /\ TableUnchanged

\* Faulty variant of SetPolicy: the signature stays.
SetPolicyOnly(r, row) == [row EXCEPT !.policy.content = policy[r].content]

\* UPDATE ... WHERE id: everything but id, vault and deleted is replaced.  The
\* vault of the request, the one it was verified for, may be another.
SetPolicy(r, row) ==
    [row EXCEPT !.policy.content = policy[r].content, !.signature = signature[r]]

\* Faulty variant of UpdatePolicy: an update is announced like a creation.
AnnouncedUpdate(r) ==
    /\ r \in Updates
    /\ pc[r] = "write"
    /\ Exists(id[r])
    /\ rows' = [rows EXCEPT ![id[r]] = SetPolicy(r, @)]
    /\ versions' = [versions EXCEPT ![id[r]] = @ \cup {rows'[id[r]].policy}]
    /\ Goto(r, "record")
    /\ UNCHANGED <<vaults, policy, requestVars, created>>

UpdatePolicy(r) ==
    /\ r \in Updates
    /\ pc[r] = "write"
    /\ Exists(id[r])
    /\ rows' = [rows EXCEPT ![id[r]] = SetPolicy(r, @)]
    /\ versions' = [versions EXCEPT ![id[r]] = @ \cup {rows'[id[r]].policy}]
    /\ \E how \in {"ok", "error"} : Answer(r, how)
    /\ UNCHANGED <<vaults, policy, requestVars, created>>

\* UPDATE ... SET deleted: the row may have changed since it was read, but it
\* is still there, since no statement removes one.
SoftDelete(r) ==
    /\ r \in Removals
    /\ pc[r] = "write"
    /\ Exists(id[r])
    /\ rows' = [rows EXCEPT ![id[r]].deleted = TRUE]
    /\ \E how \in {"ok", "error"} : Answer(r, how)
    /\ UNCHANGED <<vaults, policy, requestVars, created, versions>>

\* The statement fails: a key that exists, no row to update, a lost connection.
WriteFails(r) ==
    /\ pc[r] = "write"
    /\ Answer(r, "error")
    /\ UNCHANGED <<vaults, policy, requestVars>> /\ TableUnchanged

\* A vault is reshared or deleted.
VaultChange(v) ==
    /\ vaults' = IF v \in vaults THEN vaults \ {v} ELSE vaults \cup {v}
    /\ UNCHANGED <<pc, answer, policy, requestVars>> /\ TableUnchanged

\* The agent dies: its handlers answer nothing, what they wrote stays.
AgentCrash ==
    /\ pc' = [r \in Requests |-> IF pc[r] = "idle" THEN "idle" ELSE "done"]
    /\ UNCHANGED <<vaults, answer, policy, requestVars>> /\ TableUnchanged

HandlerStep(r) ==
    \/ Arrive(r)
    \/ ReadPolicy(r)
    \/ ReadPolicyFails(r)
    \/ Verify(r)
    \/ Deny(r)
    \/ InsertPolicy(r)
    \/ RecordCreation(r)
    \/ RecordCreationFails(r)
    \/ UpdatePolicy(r)
    \/ SoftDelete(r)
    \/ WriteFails(r)

Serve ==
    \/ \E r \in Requests : HandlerStep(r)
    \/ \E v \in Vaults : VaultChange(v)

Next == Serve \/ AgentCrash

Spec == Init /\ [][Next]_vars

-----------------------------------------------------------------------------
\* A creation or update of an id that verified: the owner of the key it names has
\* signed its content.
Authorized(r, i) ==
    /\ id[r] = i
    /\ pc[r] \in {"write", "record", "done"} /\ answer[r] # "denied"
    /\ signature[r] = Message(policy[r])

\* Where a row comes from: its vault from a creation that verified for it, its
\* content and its signature together from one creation or update that verified.
Provenance(i, row) ==
    /\ \E r \in Creates : Authorized(r, i) /\ row.policy.vault = policy[r].vault
    /\ \E r \in Creates \cup Updates :
          /\ Authorized(r, i)
          /\ row.policy.content = policy[r].content
          /\ row.signature = signature[r]

\* Every row of the table has the vault of a creation that verified, so the key of
\* that vault signed it, if perhaps for another plugin; and its content is stored
\* with the very signature it was verified with.  That signature need not be of the
\* row's own key: an update is verified for the key in its body, and leaves the key
\* of the row (plugin.go:81-155, policy.sql.go:166-174).
ContentIsSigned == \A i \in Ids : Exists(i) => Provenance(i, rows[i])

\* An id has at most one policy_created event, and only once its policy has
\* been stored, whatever creations of it race (plugin.go:96-123).
CreatedOnce == \A i \in Ids : created[i] <= 1 /\ (created[i] = 1 => Exists(i))

\* A deletion answered with success was signed by the owner of the row's vault,
\* over a policy that the row held at some time, although perhaps no longer
\* (plugin.go:177-197).
DeletionWasSigned ==
    \A r \in Removals : answer[r] = "ok" =>
        \E p \in versions[id[r]] : signature[r] = Message(p)

\* Deletion is final: no update and no creation, of the same id either, brings a
\* deleted policy back (policy.sql:16-33).
DeletionIsFinal ==
    [][\A i \in Ids : Exists(i) => Exists(i)' /\ (rows[i].deleted => rows'[i].deleted)]_vars

\* What remains of CreationIsRecorded: no creation of a policy without its event
\* has been answered with success, and one that verified is recording it, was
\* answered an error, or died (plugin.go:96-123).
UnrecordedHasCause ==
    \A i \in Ids : (Exists(i) /\ created[i] = 0) =>
        /\ \A r \in Creates : id[r] = i => answer[r] # "ok"
        /\ \E r \in Creates :
              /\ id[r] = i
              /\ pc[r] = "record" \/ (pc[r] = "done" /\ answer[r] \in {"error", "none"})

\* Handlers that interleave, fail, answer errors for what they did or die are
\* still a book in which nothing happens unsigned (plugin.go:81-197).
Book == INSTANCE SignedBook
          WITH None    <- NoRow,
               signed  <- {signature[r] : r \in Requests} \ {Forged},
               book    <- [i \in Ids |-> IF Exists(i) THEN rows[i].policy ELSE NoRow],
               held    <- versions,
               retired <- {i \in Ids : Exists(i) /\ rows[i].deleted}

BookSpec == Book!Spec

\* A comment of CreatePluginPolicy (plugin.go:108) says that the creation of a
\* policy is recorded: a stored policy has its event when no handler runs.
CreationIsRecorded ==
    (\A r \in Requests : pc[r] \in {"idle", "done"}) =>
        \A i \in Ids : Exists(i) => created[i] = 1

=============================================================================
