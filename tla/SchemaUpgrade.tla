---------------------------- MODULE SchemaUpgrade ----------------------------
(***************************************************************************)
(* What starting up promises, without processes that race, lists of        *)
(* applied versions or transactions: a database moves forward through the  *)
(* migrations of its directories, in the order of each directory and never *)
(* back, and a process serves on a complete schema only.                   *)
(***************************************************************************)
EXTENDS Integers

CONSTANTS Processes, Versions, Before(_)

VARIABLES
    schema,     \* versions whose migration the database has
    serving     \* processes that serve

upgradeVars == <<schema, serving>>

Init ==
    /\ schema \in SUBSET Versions
    /\ \A m \in schema : Before(m) \subseteq schema
    /\ serving = {}

Apply(m) ==
    /\ m \notin schema
    /\ Before(m) \subseteq schema
    /\ schema' = schema \cup {m}
    /\ UNCHANGED serving

Serve(p) ==
    /\ schema = Versions
    /\ serving' = serving \cup {p}
    /\ UNCHANGED schema

Stop(p) ==
    /\ serving' = serving \ {p}
    /\ UNCHANGED schema

Next ==
    \/ \E m \in Versions : Apply(m)
    \/ \E p \in Processes : Serve(p) \/ Stop(p)

Spec == Init /\ [][Next]_upgradeVars

=============================================================================
