---------------------------- MODULE MCEventStream ----------------------------
(***************************************************************************)
(* Constants of the instances of EventStream that TLC checks.              *)
(***************************************************************************)
EXTENDS EventStream, TLC

NoSkew == {0}

AnySkew == {-1, 0, 1}

Never == {}

FromTheStart == {0}

FromEither == {0, 1}

NoShift == 0

ZoneAhead == 1

\* Sound where only safety is checked: no definition tells writers, or
\* connections, apart.
Interchangeable == Permutations(Writers) \cup Permutations(Clients)

=============================================================================
