---------------------------- MODULE MCVaultTasks ----------------------------
(***************************************************************************)
(* Constants of the instances of VaultTasks that TLC checks.               *)
(***************************************************************************)
EXTENDS VaultTasks

\* Every request has the same session: the handlers of both kinds of task keep their
\* keys in one namespace.
OneSession == [r \in TaskRequests |-> "s"]

TheSession == {"s"}

OneVault == [r \in Requests |-> "v"]

TheVault == {"v"}

=============================================================================
