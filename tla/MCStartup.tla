------------------------------ MODULE MCStartup ------------------------------
(***************************************************************************)
(* Constants of the instance of Startup that TLC checks.                   *)
(***************************************************************************)
EXTENDS Startup

\* The versions of the two directories lie between each other.  The first of
\* the plugin's, keep.sql, is empty and can be applied twice.
SystemFiles == {1, 4}

PluginFiles == {2, 3}

NotRepeatable == {VersionTable, 1, 3}

=============================================================================
