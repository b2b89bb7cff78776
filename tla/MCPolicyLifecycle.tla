-------------------------- MODULE MCPolicyLifecycle --------------------------
(***************************************************************************)
(* Constants of the instances of PolicyLifecycle that TLC checks.          *)
(***************************************************************************)
EXTENDS PolicyLifecycle, TLC

\* A single vault, or two of one key: two plugins' vaults of the same owner.
OneKey == [v \in Vaults |-> CHOOSE k \in Keys : TRUE]

\* No definition tells two executions of the same handler apart.
Interchangeable ==
    Permutations(Creates) \cup Permutations(Updates) \cup Permutations(Removals)

=============================================================================
