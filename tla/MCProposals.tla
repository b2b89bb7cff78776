----------------------------- MODULE MCProposals -----------------------------
(***************************************************************************)
(* Constants of the instance of Proposals that TLC checks.                 *)
(***************************************************************************)
EXTENDS MCPolicyLifecycle, Proposals

CONSTANTS v1, v2, v3, k1, k2

\* An owner with a vault at each of two plugins, and another owner.
TwoOwners == (v1 :> k1) @@ (v2 :> k1) @@ (v3 :> k2)

=============================================================================
