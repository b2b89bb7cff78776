------------------------------ MODULE Proposals ------------------------------
(***************************************************************************)
(* Proposals (src/api/propose.go) beside the policy handlers.  A proposal  *)
(* names a policy and a transaction: the handler reads the policy's row,   *)
(* whether deleted or not, and has the plugin's signers sign on behalf of  *)
(* the key of that policy.  Signing is a session of several parties, so    *)
(* the row may be replaced or deleted long before it ends.                 *)
(***************************************************************************)
EXTENDS PolicyLifecycle

CONSTANT Proposals      \* executions of the handler

VARIABLES
    stage,      \* where a proposal is
    read        \* the id a proposal names, and the row it has read

proposalVars == <<stage, read>>

NothingRead == [id |-> CHOOSE i \in Ids : TRUE, row |-> NoRow]

ProposalTypeOK ==
    /\ stage \in [Proposals -> {"idle", "signing", "signed", "failed"}]
    /\ read \in [Proposals -> [id : Ids, row : Row \cup {NoRow}]]
    /\ \A q \in Proposals : stage[q] \in {"signing", "signed"} => read[q].row # NoRow

ProposalInit ==
    /\ Init
    /\ stage = [q \in Proposals |-> "idle"]
    /\ read = [q \in Proposals |-> NothingRead]

\* Faulty variant of ProposeFor: the error of the lookup is ignored.
ProposeForNoRow(q, i) ==
    /\ stage[q] = "idle"
    /\ stage' = [stage EXCEPT ![q] = "signing"]
    /\ read' = [read EXCEPT ![q] = [id |-> i, row |-> rows[i]]]

\* GetPluginPolicy.  What follows it up to the signer only decodes arguments.
ProposeFor(q, i) ==
    /\ stage[q] = "idle"
    /\ Exists(i)
    /\ stage' = [stage EXCEPT ![q] = "signing"]
    /\ read' = [read EXCEPT ![q] = [id |-> i, row |-> rows[i]]]

\* The signers agree on a signature.
SignProposal(q) ==
    /\ stage[q] = "signing"
    /\ stage' = [stage EXCEPT ![q] = "signed"]
    /\ UNCHANGED read

\* No such policy, arguments that do not decode, or a session that fails.
ProposalFails(q) ==
    /\ stage[q] \in {"idle", "signing"}
    /\ stage' = [stage EXCEPT ![q] = "failed"]
    /\ UNCHANGED read

ProposalStep(q) ==
    \/ \E i \in Ids : ProposeFor(q, i)
    \/ SignProposal(q)
    \/ ProposalFails(q)

\* The agent dies, and with it the sessions it takes part in.
ProposalsCrash ==
    /\ AgentCrash
    /\ stage' = [q \in Proposals |-> IF stage[q] = "signing" THEN "failed" ELSE stage[q]]
    /\ UNCHANGED read

ProposalsNext ==
    \/ Serve /\ UNCHANGED proposalVars
    \/ ProposalsCrash
    \/ \E q \in Proposals : ProposalStep(q) /\ UNCHANGED vars

ProposalsSpec == ProposalInit /\ [][ProposalsNext]_<<vars, proposalVars>>

-----------------------------------------------------------------------------
\* The signers only ever act on a policy somebody has signed: the policy that a
\* proposal carries to them is one the row of its id has held, for a vault whose
\* owner created it, with a content that was verified with the signature beside
\* it, however the handlers of plugin.go have rewritten the row before and since
\* (propose.go:30-57, policy.sql.go).
ProposalHasConsent ==
    \A q \in Proposals : stage[q] \in {"signing", "signed"} =>
        /\ Provenance(read[q].id, read[q].row)
        /\ read[q].row.policy \in versions[read[q].id]

=============================================================================
