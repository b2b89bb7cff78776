---------------------------- MODULE MCVaultFeed ----------------------------
(***************************************************************************)
(* The instance of VaultFeed that TLC checks.                              *)
(***************************************************************************)
EXTENDS MCVaultTasks, VaultFeed

CONSTANT d3

\* A vault at each of two plugins, of one public key.
TwoVaults == {"v", "w"}

OneKey == [v \in TwoVaults |-> "k"]

\* One of the deletions is of the other vault.
OneOfTheOther == [r \in Requests |-> IF r = d3 THEN "w" ELSE "v"]

=============================================================================
