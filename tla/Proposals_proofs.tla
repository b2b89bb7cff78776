-------------------------- MODULE Proposals_proofs --------------------------
(***************************************************************************)
(* Proofs about Proposals.  Beside the proposals the policy handlers run   *)
(* as before, so what PolicyLifecycle_proofs shows of them holds here too; *)
(* what is behind a proposal then only needs that the row had its          *)
(* provenance when it was read, and that history is never rewritten.       *)
(***************************************************************************)
EXTENDS Proposals, PolicyLifecycle_proofs

\* Proposals only watch the table: every execution is one of the handlers.
THEOREM ProposalsWatch == ProposalsSpec => Spec
<1>1. [ProposalsNext]_<<vars, proposalVars>> => [Next]_vars
  BY DEF ProposalsNext, ProposalsCrash, Next
<1>2. ProposalInit => Init
  BY DEF ProposalInit
<1> QED
  BY <1>1, <1>2, PTL DEF ProposalsSpec, Spec

\* Type correctness of the proposals.
THEOREM ProposalTypeCorrect == ProposalsSpec => []ProposalTypeOK
<1>1. ProposalInit => ProposalTypeOK
  <2> SUFFICES ASSUME ProposalInit PROVE ProposalTypeOK
    OBVIOUS
  <2>1. (CHOOSE i \in Ids : TRUE) \in Ids
    BY PolicyLifecycleAssumption
  <2> QED
    BY <2>1 DEF ProposalInit, NothingRead, ProposalTypeOK
<1>2. TypeOK /\ ProposalTypeOK /\ [ProposalsNext]_<<vars, proposalVars>> => ProposalTypeOK'
  <2> SUFFICES ASSUME TypeOK, ProposalTypeOK, [ProposalsNext]_<<vars, proposalVars>>
               PROVE  ProposalTypeOK'
    OBVIOUS
  <2>1. CASE UNCHANGED proposalVars
    BY <2>1 DEF proposalVars, ProposalTypeOK
  <2>2. ASSUME NEW q \in Proposals, NEW i \in Ids, ProposeFor(q, i)
        PROVE  ProposalTypeOK'
    <3>1. rows[i] \in Row \cup {NoRow} /\ rows[i] # NoRow
      BY <2>2 DEF ProposeFor, TypeOK, Exists
    <3>2. [id |-> i, row |-> rows[i]] \in [id : Ids, row : Row \cup {NoRow}]
      BY <3>1
    <3> QED
      BY <2>2, <3>1, <3>2 DEF ProposeFor, ProposalTypeOK
  <2>3. ASSUME NEW q \in Proposals, SignProposal(q) \/ ProposalFails(q)
        PROVE  ProposalTypeOK'
    BY <2>3 DEF SignProposal, ProposalFails, ProposalTypeOK
  <2>4. CASE ProposalsCrash
    BY <2>4 DEF ProposalsCrash, ProposalTypeOK
  <2> QED
    BY <2>1, <2>2, <2>3, <2>4 DEF ProposalsNext, ProposalStep, proposalVars
<1> QED
  BY <1>1, <1>2, TypeCorrect, ProposalsWatch, PTL DEF ProposalsSpec

\* What a row has held is never forgotten.
LEMMA VersionsKept ==
    ASSUME TypeOK, [Next]_vars
    PROVE  \A i \in Ids : versions[i] \subseteq versions'[i]
<1>1. ASSUME NEW v \in Vaults, VaultChange(v) PROVE versions' = versions
  BY <1>1 DEF VaultChange, TableUnchanged
<1>2. CASE AgentCrash
  BY <1>2 DEF AgentCrash, TableUnchanged
<1> QED
  BY <1>1, <1>2, VersionsGrow DEF Next, Serve, vars

\* The signers act only on policies that the table has held with their
\* provenance, whatever becomes of the row while they do.
THEOREM ProposalsHaveConsent == ProposalsSpec => []ProposalHasConsent
<1> DEFINE Bound == TypeOK /\ LifecycleInv /\ ProposalTypeOK
<1>1. ProposalInit => ProposalHasConsent
  BY DEF ProposalInit, ProposalHasConsent
<1>2. Bound /\ ProposalHasConsent /\ [ProposalsNext]_<<vars, proposalVars>>
        => ProposalHasConsent'
  <2> SUFFICES ASSUME Bound, ProposalHasConsent, [ProposalsNext]_<<vars, proposalVars>>,
                      NEW p \in Proposals, stage'[p] \in {"signing", "signed"}
               PROVE  /\ Provenance(read[p].id, read[p].row)'
                      /\ read'[p].row.policy \in versions'[read'[p].id]
    BY DEF ProposalHasConsent
  <2>0. [Next]_vars
    BY DEF ProposalsNext, ProposalsCrash, Next
  <2>1. \A i \in Ids : versions[i] \subseteq versions'[i]
    BY <2>0, VersionsKept
  <2>2. \A r \in Creates \cup Updates, i \in Ids : Authorized(r, i) =>
           Authorized(r, i)' /\ policy'[r] = policy[r] /\ signature'[r] = signature[r]
    BY <2>0, AuthorizedStays
  <2>3. CASE stage[p] \in {"signing", "signed"} /\ read'[p] = read[p]
    <3>1. PICK i \in Ids, row \in Row : i = read[p].id /\ row = read[p].row
      BY <2>3 DEF ProposalTypeOK
    <3>2. Provenance(i, row) /\ row.policy \in versions[i]
      BY <2>3, <3>1 DEF ProposalHasConsent
    <3>3. Provenance(i, row)'
      BY <2>2, <3>2 DEF Provenance
    <3>4. i = read'[p].id /\ row = read'[p].row
      BY <2>3, <3>1
    <3>5. Provenance(read[p].id, read[p].row)'
      BY <3>3, <3>4 DEF Provenance, Authorized, Message
    <3> QED
      BY <2>1, <3>2, <3>4, <3>5
  <2>4. ASSUME NEW i \in Ids, ProposeFor(p, i), UNCHANGED vars
        PROVE  /\ Provenance(read[p].id, read[p].row)'
               /\ read'[p].row.policy \in versions'[read'[p].id]
    <3>1. read'[p].id = i /\ read'[p].row = rows[i] /\ Exists(i)
      BY <2>4 DEF ProposeFor, ProposalTypeOK
    <3>2. PICK row \in Row : row = rows[i]
      BY <3>1 DEF Exists, TypeOK
    <3>3. Provenance(i, row) /\ row.policy \in versions[i]
      BY <3>1, <3>2 DEF LifecycleInv, RowsInv
    <3>4. Provenance(i, row)'
      BY <2>2, <3>3 DEF Provenance
    <3>5. Provenance(read[p].id, read[p].row)'
      BY <3>1, <3>2, <3>4 DEF Provenance, Authorized, Message
    <3> QED
      BY <2>1, <3>1, <3>2, <3>3, <3>5
  <2>5. \/ stage[p] \in {"signing", "signed"} /\ read'[p] = read[p]
        \/ \E i \in Ids : ProposeFor(p, i) /\ UNCHANGED vars
    BY DEF ProposalsNext, ProposalsCrash, ProposalStep, ProposeFor, SignProposal, ProposalFails,
       ProposalTypeOK, proposalVars
  <2> QED
    BY <2>3, <2>4, <2>5
<1> QED
  BY <1>1, <1>2, TypeCorrect, Lifecycle, ProposalTypeCorrect, ProposalsWatch, PTL
  DEF ProposalsSpec

=============================================================================
